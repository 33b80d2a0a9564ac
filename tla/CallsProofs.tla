----------------------------- MODULE CallsProofs -----------------------------
(***************************************************************************)
(* Proofs about calls, errors and to-be-closed variables, for any depth of   *)
(* the stack and any number of calls, variables and errors.                 *)
(***************************************************************************)
EXTENDS Calls, FiniteSetTheorems, SequenceTheorems, TLAPS

USE CallsAssumption

FrameType == [by : Callers \cup {"guard", "handler"}, tbc : Seq(Nat), exit : Int]

ClosedType == [id : Nat, declared : Nat]

CallsTypeOK ==
    call \in [frames : Seq(FrameType), calls : Nat, declared : Nat, raised : Nat,
              closed : Seq(ClosedType), caught : Seq(Nat)]

(* A frame is on its way out below another only while a CloseGuard of its own *)
(* runs, an error is on its way in one frame at most, and it is so until it  *)
(* is caught.                                                               *)
OnTheWay(fr, raised, caught) ==
    /\ Len(caught) = raised
    /\ \A i \in 1..Len(fr) : fr[i].exit <= raised
    /\ \A i \in 1 .. Len(fr) - 1 : fr[i].exit # Running => fr[i + 1].by = "guard"
    /\ \A i, j \in 1..Len(fr) : fr[i].exit > 0 /\ fr[i].exit = fr[j].exit => i = j
    /\ \A e \in 1..raised : caught[e] = 0 <=> \E i \in 1..Len(fr) : fr[i].exit = e

Opened(fr, e) == \E i \in 1..Len(fr) : \E p \in 1..Len(fr[i].tbc) : fr[i].tbc[p] = e

Closed(cl, e) == \E q \in 1..Len(cl) : cl[q].id = e

(* The open variables are in the order they were declared, in a frame and     *)
(* from frame to frame; each variable is open or was closed once.            *)
Rising(fr) ==
    \A i, j \in 1..Len(fr) : \A p \in 1..Len(fr[i].tbc), q \in 1..Len(fr[j].tbc) :
        i < j \/ (i = j /\ p < q) => fr[i].tbc[p] < fr[j].tbc[q]

Closing(fr, cl, declared) ==
    /\ Rising(fr)
    /\ \A e \in Nat : e \in 1..declared <=> Opened(fr, e) \/ Closed(cl, e)
    /\ \A e \in Nat : ~(Opened(fr, e) /\ Closed(cl, e))
    /\ \A p, q \in 1..Len(cl) : cl[p].id = cl[q].id => p = q
    /\ \A p \in 1..Len(cl) : \A later \in cl[p].id + 1 .. cl[p].declared :
           \E q \in 1 .. p - 1 : cl[q].id = later

CallsIInv ==
    /\ CallsTypeOK
    /\ OnTheWay(call.frames, call.raised, call.caught)
    /\ Closing(call.frames, call.closed, call.declared)

-----------------------------------------------------------------------------
LEMMA PopFrame ==
    ASSUME NEW S, NEW s \in Seq(S), s # <<>>
    PROVE  /\ Front(s) \in Seq(S) /\ Len(Front(s)) = Len(s) - 1 /\ Len(s) \in Nat \ {0}
           /\ \A i \in 1 .. Len(s) - 1 : Front(s)[i] = s[i]
           /\ Last(s) = s[Len(s)] /\ Last(s) \in S
<1>1. Len(s) \in Nat \ {0} /\ \A i \in 1..Len(s) : s[i] \in S
  BY EmptySeq, LenProperties, ElementOfSeq
<1>2. Front(s) = SubSeq(s, 1, Len(s) - 1)
  BY DEF Front
<1>3. Front(s) \in Seq(S) /\ Len(Front(s)) = Len(s) - 1
  <2> DEFINE n == Len(s) - 1
  <2>1. n \in Nat /\ \A i \in 1..n : s[i] \in S
    BY <1>1
  <2> HIDE DEF n
  <2>2. SubSeq(s, 1, n) \in Seq(S) /\ Len(SubSeq(s, 1, n)) = n
    BY <2>1, SubSeqProperties
  <2> QED
    BY <1>2, <2>2 DEF n
<1>4. \A i \in 1 .. Len(s) - 1 : Front(s)[i] = s[i]
  BY <1>1, <1>2
<1>5. Last(s) = s[Len(s)] /\ Last(s) \in S
  BY <1>1 DEF Last
<1> QED
  BY <1>1, <1>3, <1>4, <1>5

LEMMA PushFrame ==
    ASSUME NEW S, NEW s \in Seq(S), NEW x \in S
    PROVE  /\ Append(s, x) \in Seq(S) /\ Len(Append(s, x)) = Len(s) + 1
           /\ Append(s, x)[Len(s) + 1] = x
           /\ \A i \in 1..Len(s) : Append(s, x)[i] = s[i]
OBVIOUS

LEMMA Fields ==
    ASSUME CallsTypeOK
    PROVE  /\ call.frames \in Seq(FrameType) /\ Depth = Len(call.frames) /\ Depth \in Nat
           /\ call.calls \in Nat /\ call.declared \in Nat /\ call.raised \in Nat
           /\ call.closed \in Seq(ClosedType) /\ call.caught \in Seq(Nat)
           /\ \A i \in 1..Depth : /\ call.frames[i] \in FrameType
                                  /\ call.frames[i].tbc \in Seq(Nat) /\ call.frames[i].exit \in Int
<1>1. /\ call.frames \in Seq(FrameType) /\ Depth = Len(call.frames) /\ Depth \in Nat
      /\ call.calls \in Nat /\ call.declared \in Nat /\ call.raised \in Nat
      /\ call.closed \in Seq(ClosedType) /\ call.caught \in Seq(Nat)
  BY DEF CallsTypeOK, Depth
<1>2. \A i \in 1..Depth : call.frames[i] \in FrameType
  BY <1>1
<1>3. \A f \in FrameType : f.tbc \in Seq(Nat) /\ f.exit \in Int
  BY DEF FrameType
<1> QED
  BY <1>1, <1>2, <1>3

(* Frames come and go, and none that has a variable open.                    *)
LEMMA ClosingKept ==
    ASSUME NEW fr, NEW gr, NEW cl, NEW d, Closing(fr, cl, d),
           Len(fr) \in Nat, Len(gr) \in Nat,
           \A i \in 1..Len(gr) : (i \in 1..Len(fr) /\ gr[i].tbc = fr[i].tbc) \/ gr[i].tbc = <<>>,
           \A i \in 1..Len(fr) : (i \in 1..Len(gr) /\ gr[i].tbc = fr[i].tbc) \/ fr[i].tbc = <<>>
    PROVE  Closing(gr, cl, d)
<1>1. Len(<<>>) = 0
  OBVIOUS
<1>2. /\ \A i \in 1..Len(gr) : \A p \in 1..Len(gr[i].tbc) :
             i \in 1..Len(fr) /\ gr[i].tbc = fr[i].tbc
      /\ \A i \in 1..Len(fr) : \A p \in 1..Len(fr[i].tbc) :
             i \in 1..Len(gr) /\ gr[i].tbc = fr[i].tbc
  BY <1>1
<1>3. ASSUME NEW e PROVE Opened(gr, e) <=> Opened(fr, e)
  BY <1>2, Zenon DEF Opened
<1>4. Rising(gr)
  <2>1. Rising(fr)
    BY DEF Closing
  <2>2. SUFFICES ASSUME NEW i \in 1..Len(gr), NEW j \in 1..Len(gr),
                        NEW p \in 1..Len(gr[i].tbc), NEW q \in 1..Len(gr[j].tbc),
                        i < j \/ (i = j /\ p < q)
                 PROVE  gr[i].tbc[p] < gr[j].tbc[q]
    BY DEF Rising
  <2>3. i \in 1..Len(fr) /\ j \in 1..Len(fr) /\ gr[i].tbc = fr[i].tbc /\ gr[j].tbc = fr[j].tbc
    BY <1>2
  <2> QED
    BY <2>1, <2>2, <2>3 DEF Rising
<1> QED
  BY <1>3, <1>4 DEF Closing

(* Frames whose errors, and whose number below a CloseGuard, stay.           *)
Stays(fr, gr, n) ==
    \A i \in 1..n : /\ gr[i].by = fr[i].by /\ gr[i].exit \in Int
                    /\ gr[i].exit = fr[i].exit \/ (gr[i].exit = Running /\ fr[i].exit <= 0)

LEMMA PushOnTheWay ==
    ASSUME NEW fr \in Seq(FrameType), NEW gr, NEW r \in Nat, NEW c, OnTheWay(fr, r, c),
           \A i \in 1..Len(fr) : fr[i].exit \in Int,
           Len(gr) = Len(fr) + 1, Stays(fr, gr, Len(fr)), gr[Len(gr)].exit = Running,
           Len(fr) > 0 /\ gr[Len(fr)].exit # Running => gr[Len(gr)].by = "guard"
    PROVE  OnTheWay(gr, r, c)
<1> DEFINE n == Len(fr)
<1>1. n \in Nat /\ Running = 0
  BY DEF Running
<1>2. \A i \in 1 .. n + 1 : i = n + 1 \/ i \in 1..n
  BY <1>1
<1>3. gr[n + 1].exit = 0 /\ Len(gr) = n + 1
  BY <1>1
<1>4. \A i \in 1..n : gr[i].exit = fr[i].exit \/ (gr[i].exit = 0 /\ fr[i].exit <= 0)
  BY <1>1 DEF Stays
<1>f. /\ Len(c) = r /\ (\A i \in 1..n : fr[i].exit <= r /\ fr[i].exit \in Int)
      /\ (\A i, j \in 1..n : fr[i].exit > 0 /\ fr[i].exit = fr[j].exit => i = j)
      /\ (\A e \in 1..r : c[e] = 0 <=> \E i \in 1..n : fr[i].exit = e)
  BY DEF OnTheWay
<1>5. \A i \in 1 .. n + 1 : gr[i].exit <= r
  BY <1>2, <1>3, <1>4, <1>f
<1>6. ASSUME NEW i \in 1..n, gr[i].exit # Running PROVE gr[i + 1].by = "guard"
  <2>1. CASE i = n
    BY <1>1, <1>3, <1>6, <2>1
  <2>2. CASE i # n
    <3>1. i + 1 \in 1..n /\ i \in 1 .. n - 1
      BY <1>1, <2>2
    <3>2. fr[i].exit # Running
      BY <1>1, <1>4, <1>6
    <3>3. fr[i + 1].by = "guard"
      BY <3>1, <3>2 DEF OnTheWay
    <3> QED
      BY <3>1, <3>3 DEF Stays
  <2> QED
    BY <2>1, <2>2
<1>7. ASSUME NEW i \in 1 .. n + 1, NEW j \in 1 .. n + 1, gr[i].exit > 0, gr[i].exit = gr[j].exit
      PROVE  i = j
  <2>1. i \in 1..n /\ j \in 1..n
    BY <1>2, <1>3, <1>7
  <2>2. gr[i].exit = fr[i].exit /\ gr[j].exit = fr[j].exit
    BY SMTT(30), <1>4, <1>7, <2>1
  <2> QED
    BY <1>7, <1>f, <2>1, <2>2
<1>8. ASSUME NEW e \in 1..r PROVE c[e] = 0 <=> \E i \in 1 .. n + 1 : gr[i].exit = e
  <2>1. ASSUME NEW i \in 1..n PROVE fr[i].exit = e <=> gr[i].exit = e
    BY SMTT(30), <1>4, <1>f
  <2>2. gr[n + 1].exit # e
    BY <1>3
  <2>3. (\E i \in 1 .. n + 1 : gr[i].exit = e) <=> (\E i \in 1..n : gr[i].exit = e)
    BY <1>1, <1>2, <2>2
  <2>4. c[e] = 0 <=> \E i \in 1..n : fr[i].exit = e
    BY <1>f
  <2> QED
    BY <2>1, <2>3, <2>4
<1>9. Len(gr) - 1 = n
  BY <1>1
<1> HIDE DEF n
<1> QED
  BY <1>3, <1>5, <1>6, <1>7, <1>8, <1>9, <1>f DEF OnTheWay

(* A frame is left, and with it the error that was caught there, if any.     *)
LEMMA PopOnTheWay ==
    ASSUME NEW fr \in Seq(FrameType), NEW gr, NEW r \in Nat, NEW c, NEW d, OnTheWay(fr, r, c),
           \A i \in 1..Len(fr) : fr[i].exit \in Int,
           Len(gr) \in Nat, Len(gr) + 1 = Len(fr),
           \A i \in 1..Len(gr) : gr[i].by = fr[i].by /\ gr[i].exit = fr[i].exit,
           Len(d) = r,
           \A e \in 1..r : d[e] = 0 <=> c[e] = 0 /\ e # fr[Len(fr)].exit
    PROVE  OnTheWay(gr, r, d)
<1> DEFINE n == Len(gr)
<1>1. n \in Nat /\ Len(fr) = n + 1
  OBVIOUS
<1>2. \A i \in 1 .. n + 1 : i = n + 1 \/ i \in 1..n
  BY <1>1
<1>3. \A i \in 1..n : i \in 1 .. n + 1 /\ gr[i].exit = fr[i].exit /\ gr[i].by = fr[i].by
  BY <1>1
<1>4. \A i \in 1 .. n - 1 : i \in 1..n /\ i + 1 \in 1..n /\ i \in 1 .. Len(fr) - 1
  BY <1>1
<1>f. /\ (\A i \in 1 .. n + 1 : fr[i].exit <= r /\ fr[i].exit \in Int)
      /\ (\A i, j \in 1 .. n + 1 : fr[i].exit > 0 /\ fr[i].exit = fr[j].exit => i = j)
      /\ (\A e \in 1..r : c[e] = 0 <=> \E i \in 1 .. n + 1 : fr[i].exit = e)
      /\ (\A i \in 1 .. Len(fr) - 1 : fr[i].exit # Running => fr[i + 1].by = "guard")
  BY <1>1 DEF OnTheWay
<1>5. \A i \in 1..n : gr[i].exit <= r
  BY <1>3, <1>f
<1>6. \A i \in 1 .. n - 1 : gr[i].exit # Running => gr[i + 1].by = "guard"
  BY <1>3, <1>4, <1>f
<1>7. \A i, j \in 1..n : gr[i].exit > 0 /\ gr[i].exit = gr[j].exit => i = j
  BY <1>3, <1>f
<1>8. ASSUME NEW e \in 1..r PROVE d[e] = 0 <=> \E i \in 1..n : gr[i].exit = e
  <2>1. CASE fr[n + 1].exit = e
    <3>1. ASSUME NEW i \in 1..n PROVE gr[i].exit # e
      <4>1. fr[i].exit = gr[i].exit /\ i \in 1 .. n + 1 /\ n + 1 \in 1 .. n + 1 /\ i # n + 1
        BY <1>1, <1>3
      <4>2. e > 0
        OBVIOUS
      <4> QED
        BY <1>f, <2>1, <4>1, <4>2
    <3>2. d[e] # 0
      BY <1>1, <2>1
    <3> QED
      BY <3>1, <3>2
  <2>2. CASE fr[n + 1].exit # e
    <3>1. (\E i \in 1 .. n + 1 : fr[i].exit = e) <=> (\E i \in 1..n : gr[i].exit = e)
      BY <1>2, <1>3, <2>2
    <3>2. d[e] = 0 <=> c[e] = 0
      BY <1>1, <2>2
    <3> QED
      BY <1>f, <3>1, <3>2
  <2> QED
    BY <2>1, <2>2
<1> HIDE DEF n
<1>n. n = Len(gr)
  BY DEF n
<1> QED
  BY <1>5, <1>6, <1>7, <1>8, <1>n DEF OnTheWay

(* An error leaves a frame for the one below, which is on no way out.        *)
LEMMA PassOnTheWay ==
    ASSUME NEW fr \in Seq(FrameType), NEW gr, NEW r \in Nat, NEW c, OnTheWay(fr, r, c),
           \A i \in 1..Len(fr) : fr[i].exit \in Int,
           Len(gr) \in Nat \ {0}, Len(gr) + 1 = Len(fr),
           fr[Len(fr)].exit > 0, fr[Len(fr)].by # "guard",
           \A i \in 1..Len(gr) : gr[i].by = fr[i].by,
           \A i \in 1..Len(gr) : i # Len(gr) => gr[i].exit = fr[i].exit,
           gr[Len(gr)].exit = fr[Len(fr)].exit
    PROVE  OnTheWay(gr, r, c)
<1> DEFINE n == Len(gr)
           e == fr[n + 1].exit
<1>1. n \in Nat \ {0} /\ Len(fr) = n + 1 /\ e > 0 /\ e \in Int /\ Running = 0
  BY DEF Running
<1>2. \A i \in 1 .. n + 1 : i = n + 1 \/ i \in 1..n
  BY <1>1
<1>3. /\ \A i \in 1..n : i \in 1 .. n + 1 /\ gr[i].by = fr[i].by
      /\ \A i \in 1..n : i # n => gr[i].exit = fr[i].exit
      /\ gr[n].exit = e
  BY <1>1
<1>4. \A i \in 1 .. n - 1 : /\ i \in 1..n /\ i + 1 \in 1..n /\ i # n
                            /\ i \in 1 .. Len(fr) - 1
  BY <1>1
<1>f. /\ (\A i \in 1 .. n + 1 : fr[i].exit <= r /\ fr[i].exit \in Int)
      /\ (\A i, j \in 1 .. n + 1 : fr[i].exit > 0 /\ fr[i].exit = fr[j].exit => i = j)
      /\ (\A x \in 1..r : c[x] = 0 <=> \E i \in 1 .. n + 1 : fr[i].exit = x)
      /\ (\A i \in 1 .. Len(fr) - 1 : fr[i].exit # Running => fr[i + 1].by = "guard")
      /\ Len(c) = r
  BY <1>1 DEF OnTheWay
<1>5. fr[n].exit = 0 /\ n \in 1..n /\ n + 1 \in 1 .. n + 1
  <2>1. n \in 1 .. Len(fr) - 1 /\ fr[n + 1].by # "guard"
    BY <1>1
  <2> QED
    BY <1>1, <1>f, <2>1
<1>6. \A i \in 1..n : gr[i].exit <= r
  BY <1>3, <1>5, <1>f
<1>7. ASSUME NEW i \in 1 .. n - 1, gr[i].exit # Running PROVE gr[i + 1].by = "guard"
  <2>1. i \in 1..n /\ i + 1 \in 1..n /\ i # n /\ i \in 1 .. Len(fr) - 1
    BY <1>4
  <2>2. fr[i].exit # Running /\ gr[i + 1].by = fr[i + 1].by
    BY <1>3, <1>7, <2>1
  <2> QED
    BY <1>f, <2>1, <2>2
<1>8. ASSUME NEW i \in 1..n, NEW j \in 1..n, gr[i].exit > 0, gr[i].exit = gr[j].exit
      PROVE  i = j
  <2> DEFINE at(k) == IF k = n THEN n + 1 ELSE k
  <2>1. \A k \in 1..n : at(k) \in 1 .. n + 1 /\ gr[k].exit = fr[at(k)].exit
    BY <1>1, <1>3, <1>5
  <2>2. at(i) = at(j)
    BY SMTT(30), <1>8, <1>f, <2>1
  <2> QED
    BY <1>1, <2>2
<1>9. ASSUME NEW x \in 1..r PROVE c[x] = 0 <=> \E i \in 1..n : gr[i].exit = x
  <2>1. x # 0
    OBVIOUS
  <2>2. ASSUME NEW i \in 1 .. n + 1, fr[i].exit = x PROVE \E j \in 1..n : gr[j].exit = x
    <3>1. CASE i = n + 1
      BY <1>3, <1>5, <2>2, <3>1
    <3>2. CASE i # n + 1
      <4>1. i \in 1..n /\ i # n
        BY <1>2, <1>5, <2>1, <2>2, <3>2
      <4> QED
        BY <1>3, <2>2, <4>1
    <3> QED
      BY <3>1, <3>2
  <2>3. ASSUME NEW j \in 1..n, gr[j].exit = x PROVE \E i \in 1 .. n + 1 : fr[i].exit = x
    <3>1. CASE j = n
      BY <1>3, <1>5, <2>3, <3>1
    <3>2. CASE j # n
      BY <1>3, <2>3, <3>2
    <3> QED
      BY <3>1, <3>2
  <2> QED
    BY <1>f, <2>2, <2>3
<1> HIDE DEF n
<1>n. n = Len(gr)
  BY DEF n
<1> QED
  BY <1>6, <1>7, <1>8, <1>9, <1>f, <1>n DEF OnTheWay

(* The top frame starts to be left, by a return, the end of a block, or an    *)
(* error that is new.                                                       *)
LEMMA LeaveOnTheWay ==
    ASSUME NEW fr \in Seq(FrameType), NEW gr, NEW r \in Nat, NEW c \in Seq(Nat), OnTheWay(fr, r, c),
           \A i \in 1..Len(fr) : fr[i].exit \in Int, NEW x \in Int,
           Len(fr) \in Nat \ {0}, Len(gr) = Len(fr), fr[Len(fr)].exit = Running,
           \A i \in 1..Len(fr) : gr[i].by = fr[i].by,
           \A i \in 1..Len(fr) : i # Len(fr) => gr[i].exit = fr[i].exit,
           gr[Len(fr)].exit = x
    PROVE  /\ x < 0 => OnTheWay(gr, r, c)
           /\ x = r + 1 => OnTheWay(gr, r + 1, Append(c, 0))
<1> DEFINE n == Len(fr)
<1>1. n \in Nat \ {0} /\ n \in 1..n /\ fr[n].exit = 0 /\ Len(gr) = n
  BY DEF Running
<1>2. /\ \A i \in 1..n : gr[i].by = fr[i].by
      /\ \A i \in 1..n : i # n => gr[i].exit = fr[i].exit
      /\ gr[n].exit = x
  OBVIOUS
<1>3. \A i \in 1 .. n - 1 : i \in 1..n /\ i + 1 \in 1..n /\ i # n
  BY <1>1
<1>f. /\ (\A i \in 1..n : fr[i].exit <= r /\ fr[i].exit \in Int)
      /\ (\A i, j \in 1..n : fr[i].exit > 0 /\ fr[i].exit = fr[j].exit => i = j)
      /\ (\A e \in 1..r : c[e] = 0 <=> \E i \in 1..n : fr[i].exit = e)
      /\ (\A i \in 1 .. n - 1 : fr[i].exit # Running => fr[i + 1].by = "guard")
      /\ Len(c) = r
  BY DEF OnTheWay
<1> HIDE DEF n
<1>4. \A i \in 1 .. n - 1 : gr[i].exit # Running => gr[i + 1].by = "guard"
  BY <1>2, <1>3, <1>f
<1>5. ASSUME NEW e \in 1..r, x < 0 \/ x = r + 1 PROVE c[e] = 0 <=> \E i \in 1..n : gr[i].exit = e
  <2>1. \A i \in 1..n : gr[i].exit = e <=> fr[i].exit = e
    BY SMTT(30), <1>1, <1>2, <1>5
  <2> QED
    BY <1>f, <2>1
<1>6. ASSUME x < 0 PROVE OnTheWay(gr, r, c)
  <2>1. ASSUME NEW i \in 1..n PROVE gr[i].exit <= r
    <3>1. CASE i = n
      BY <1>2, <1>6, <3>1
    <3>2. CASE i # n
      <4>1. gr[i].exit = fr[i].exit /\ fr[i].exit <= r
        BY <1>2, <1>f, <3>2
      <4> QED
        BY <4>1
    <3> QED
      BY <3>1, <3>2
  <2>2. ASSUME NEW i \in 1..n, NEW j \in 1..n, gr[i].exit > 0, gr[i].exit = gr[j].exit
        PROVE  i = j
    <3>1. i # n /\ j # n
      BY <1>2, <1>6, <2>2
    <3>2. gr[i].exit = fr[i].exit /\ gr[j].exit = fr[j].exit
      BY <1>2, <3>1
    <3> QED
      BY <1>f, <2>2, <3>2
  <2> QED
    BY <1>1, <1>4, <1>5, <1>6, <1>f, <2>1, <2>2 DEF OnTheWay
<1>7. ASSUME x = r + 1 PROVE OnTheWay(gr, r + 1, Append(c, 0))
  <2> DEFINE d == Append(c, 0)
  <2>1. \A i \in 1..n : gr[i].exit <= r + 1
    BY SMTT(30), <1>2, <1>f, <1>7
  <2>2. ASSUME NEW i \in 1..n, NEW j \in 1..n, gr[i].exit > 0, gr[i].exit = gr[j].exit
        PROVE  i = j
    <3>1. \A k \in 1..n : k # n => gr[k].exit = fr[k].exit /\ gr[k].exit # r + 1
      BY <1>2, <1>f
    <3>2. CASE i = n \/ j = n
      BY <1>2, <1>7, <2>2, <3>1, <3>2
    <3>3. CASE i # n /\ j # n
      BY <1>f, <2>2, <3>1, <3>3
    <3> QED
      BY <3>2, <3>3
  <2>3. Len(d) = r + 1 /\ d[r + 1] = 0 /\ \A e \in 1..r : d[e] = c[e]
    BY <1>f
  <2> HIDE DEF d
  <2>4. ASSUME NEW e \in 1 .. r + 1 PROVE d[e] = 0 <=> \E i \in 1..n : gr[i].exit = e
    <3>1. CASE e = r + 1
      BY <1>1, <1>2, <1>7, <2>3, <3>1
    <3>2. CASE e # r + 1
      <4>1. e \in 1..r
        BY <3>2
      <4> QED
        BY <1>5, <1>7, <2>3, <4>1
    <3> QED
      BY <3>1, <3>2
  <2>5. OnTheWay(gr, r + 1, d)
    BY <1>1, <1>4, <2>1, <2>2, <2>3, <2>4 DEF OnTheWay
  <2> QED
    BY <2>5 DEF d
<1> QED
  BY <1>6, <1>7

(* A variable is declared in the top frame.                                  *)
LEMMA DeclareCloses ==
    ASSUME NEW fr, NEW gr, NEW cl \in Seq(ClosedType), NEW d \in Nat, Closing(fr, cl, d),
           Len(fr) \in Nat \ {0}, Len(gr) = Len(fr),
           \A i \in 1..Len(fr) : fr[i].tbc \in Seq(Nat),
           \A i \in 1..Len(fr) : i # Len(fr) => gr[i].tbc = fr[i].tbc,
           gr[Len(fr)].tbc = Append(fr[Len(fr)].tbc, d + 1)
    PROVE  Closing(gr, cl, d + 1)
<1> DEFINE n == Len(fr)
           t == fr[n].tbc
           u == gr[n].tbc
<1>1. n \in Nat \ {0} /\ n \in 1..n /\ t \in Seq(Nat)
  OBVIOUS
<1>2. /\ Len(t) \in Nat /\ Len(u) = Len(t) + 1 /\ u[Len(t) + 1] = d + 1
      /\ \A p \in 1..Len(t) : u[p] = t[p]
  BY SMTT(30), <1>1
<1>3. Len(gr) = n /\ \A i \in 1..n : i # n => gr[i].tbc = fr[i].tbc
  OBVIOUS
<1>t. \A i \in 1..n : i = n => fr[i].tbc = t /\ gr[i].tbc = u
  OBVIOUS
<1>o. \A i \in 1..n : \A p \in 1..Len(fr[i].tbc) : fr[i].tbc[p] \in 1..d
  <2>1. SUFFICES ASSUME NEW i \in 1..n, NEW p \in 1..Len(fr[i].tbc) PROVE fr[i].tbc[p] \in 1..d
    OBVIOUS
  <2>2. fr[i].tbc[p] \in Nat
    BY ElementOfSeq
  <2>3. Opened(fr, fr[i].tbc[p])
    BY DEF Opened
  <2> QED
    BY <2>2, <2>3 DEF Closing
<1> HIDE DEF n, t, u
(* Where a place of the new frames was before. *)
<1>4. ASSUME NEW i \in 1..n, NEW p \in 1..Len(gr[i].tbc)
      PROVE  \/ p \in 1..Len(fr[i].tbc) /\ gr[i].tbc[p] = fr[i].tbc[p]
             \/ i = n /\ p = Len(t) + 1 /\ gr[i].tbc[p] = d + 1
  <2>1. CASE i = n
    <3>1. fr[i].tbc = t /\ gr[i].tbc = u
      BY <1>t, <2>1
    <3>2. p \in 1..Len(t) \/ p = Len(t) + 1
      BY SMTT(30), <1>2, <3>1
    <3> QED
      BY <1>2, <2>1, <3>1, <3>2
  <2>2. CASE i # n
    BY <1>3, <2>2
  <2> QED
    BY <2>1, <2>2
<1>5. ASSUME NEW i \in 1..n, NEW p \in 1..Len(fr[i].tbc)
      PROVE  p \in 1..Len(gr[i].tbc) /\ gr[i].tbc[p] = fr[i].tbc[p]
  <2>1. CASE i = n
    <3>1. fr[i].tbc = t /\ gr[i].tbc = u
      BY <1>t, <2>1
    <3>2. p \in 1..Len(t)
      BY <3>1
    <3>3. p \in 1..Len(u) /\ u[p] = t[p]
      BY <1>2, <3>2
    <3> QED
      BY <3>1, <3>3
  <2>2. CASE i # n
    BY <1>3, <2>2
  <2> QED
    BY <2>1, <2>2
<1>6. Rising(gr)
  <2>1. SUFFICES ASSUME NEW i \in 1..n, NEW j \in 1..n,
                        NEW p \in 1..Len(gr[i].tbc), NEW q \in 1..Len(gr[j].tbc),
                        i < j \/ (i = j /\ p < q)
                 PROVE  gr[i].tbc[p] < gr[j].tbc[q]
    BY <1>3 DEF Rising
  <2>2. p \in 1..Len(fr[i].tbc) /\ gr[i].tbc[p] = fr[i].tbc[p]
    <3>1. ~(i = n /\ p = Len(t) + 1)
      <4>1. ASSUME i = n, p = Len(t) + 1 PROVE FALSE
        <5>1. j = n
          BY <1>1, <2>1, <4>1
        <5>2. q \in 1 .. Len(t) + 1
          BY <1>1, <1>2, <1>t, <5>1
        <5> QED
          BY <1>1, <1>2, <2>1, <4>1, <5>1, <5>2
      <4> QED
        BY <4>1
    <3> QED
      BY <1>4, <3>1
  <2>3. CASE q \in 1..Len(fr[j].tbc) /\ gr[j].tbc[q] = fr[j].tbc[q]
    <3>1. Rising(fr)
      BY DEF Closing
    <3>2. fr[i].tbc[p] < fr[j].tbc[q]
      BY <1>1, <2>1, <2>2, <2>3, <3>1 DEF Rising, n
    <3> QED
      BY <2>2, <2>3, <3>2
  <2>4. CASE gr[j].tbc[q] = d + 1
    <3>1. fr[i].tbc[p] \in 1..d
      BY <1>o, <2>2
    <3>2. \A x \in 1..d : x < d + 1
      OBVIOUS
    <3>3. fr[i].tbc[p] < d + 1
      BY <3>1, <3>2
    <3> QED
      BY <2>2, <2>4, <3>3
  <2> QED
    BY <1>4, <2>3, <2>4
<1>7. ASSUME NEW e PROVE Opened(gr, e) <=> Opened(fr, e) \/ e = d + 1
  <2>1. ASSUME Opened(gr, e) PROVE Opened(fr, e) \/ e = d + 1
    <3>1. PICK i \in 1..n : \E p \in 1..Len(gr[i].tbc) : gr[i].tbc[p] = e
      BY <1>3, <2>1 DEF Opened
    <3>2. PICK p \in 1..Len(gr[i].tbc) : gr[i].tbc[p] = e
      BY <3>1
    <3> QED
      BY <1>4, <3>2 DEF Opened, n
  <2>2. ASSUME Opened(fr, e) PROVE Opened(gr, e)
    <3>1. PICK i \in 1..n : \E p \in 1..Len(fr[i].tbc) : fr[i].tbc[p] = e
      BY <2>2 DEF Opened, n
    <3>2. PICK p \in 1..Len(fr[i].tbc) : fr[i].tbc[p] = e
      BY <3>1
    <3> QED
      BY <1>3, <1>5, <3>2 DEF Opened
  <2>3. Opened(gr, d + 1)
    <3>1. Len(t) + 1 \in 1..Len(gr[n].tbc) /\ gr[n].tbc[Len(t) + 1] = d + 1
      BY SMTT(30), <1>1, <1>2, <1>t
    <3> QED
      BY <1>1, <1>3, <3>1 DEF Opened
  <2> QED
    BY <2>1, <2>2, <2>3
<1>8. /\ \A e \in Nat : e \in 1..d <=> Opened(fr, e) \/ Closed(cl, e)
      /\ \A e \in Nat : ~(Opened(fr, e) /\ Closed(cl, e))
      /\ \A p, q \in 1..Len(cl) : cl[p].id = cl[q].id => p = q
      /\ \A p \in 1..Len(cl) : \A later \in cl[p].id + 1 .. cl[p].declared :
             \E q \in 1 .. p - 1 : cl[q].id = later
  BY DEF Closing
<1>9. \A e \in Nat : e \in 1 .. d + 1 <=> Opened(gr, e) \/ Closed(cl, e)
  BY <1>7, <1>8
<1>10. \A e \in Nat : ~(Opened(gr, e) /\ Closed(cl, e))
  <2>1. d + 1 \in Nat /\ d + 1 \notin 1..d
    OBVIOUS
  <2>2. ~Closed(cl, d + 1)
    BY <1>8, <2>1
  <2> QED
    BY <1>7, <1>8, <2>2
<1> QED
  BY <1>6, <1>8, <1>9, <1>10 DEF Closing

(* The last variable that is open is closed.                                 *)
ClosesLast(fr, gr, cl, dl, d) ==
    /\ Len(fr) \in Nat \ {0} /\ Len(gr) = Len(fr) + 1
    /\ \A i \in 1..Len(fr) : fr[i].tbc \in Seq(Nat)
    /\ fr[Len(fr)].tbc # <<>>
    /\ \A i \in 1..Len(fr) : i # Len(fr) => gr[i].tbc = fr[i].tbc
    /\ gr[Len(fr)].tbc = Front(fr[Len(fr)].tbc) /\ gr[Len(gr)].tbc = <<>>
    /\ dl = Append(cl, [id |-> Last(fr[Len(fr)].tbc), declared |-> d])

LEMMA CloseCloses ==
    ASSUME NEW fr, NEW gr, NEW cl \in Seq(ClosedType), NEW dl, NEW d \in Nat, Closing(fr, cl, d),
           ClosesLast(fr, gr, cl, dl, d)
    PROVE  dl \in Seq(ClosedType) /\ Closing(gr, dl, d)
<1>h. /\ Len(fr) \in Nat \ {0} /\ Len(gr) = Len(fr) + 1
      /\ \A i \in 1..Len(fr) : fr[i].tbc \in Seq(Nat)
      /\ fr[Len(fr)].tbc # <<>>
      /\ \A i \in 1..Len(fr) : i # Len(fr) => gr[i].tbc = fr[i].tbc
      /\ gr[Len(fr)].tbc = Front(fr[Len(fr)].tbc) /\ gr[Len(gr)].tbc = <<>>
      /\ dl = Append(cl, [id |-> Last(fr[Len(fr)].tbc), declared |-> d])
  BY DEF ClosesLast
<1> USE <1>h
<1> DEFINE n == Len(fr)
           t == fr[n].tbc
           u == gr[n].tbc
           k == Len(t)
           x == Last(t)
           new == [id |-> x, declared |-> d]
<1>1. n \in Nat \ {0} /\ n \in 1..n /\ t \in Seq(Nat) /\ t # <<>>
  OBVIOUS
<1>2. /\ k \in Nat \ {0} /\ Len(u) = k - 1 /\ x = t[k] /\ x \in Nat
      /\ \A p \in 1 .. k - 1 : u[p] = t[p]
  <2>1. u = Front(t)
    OBVIOUS
  <2> HIDE DEF t, u
  <2> QED
    BY <1>1, <2>1, PopFrame
<1>3. Len(gr) = n + 1 /\ gr[n + 1].tbc = <<>> /\ \A i \in 1..n : i # n => gr[i].tbc = fr[i].tbc
  BY <1>1
<1>t. \A i \in 1..n : i = n => fr[i].tbc = t /\ gr[i].tbc = u
  OBVIOUS
<1>n. new \in ClosedType /\ new.id = x /\ new.declared = d
  BY <1>2 DEF ClosedType
<1>d. /\ dl \in Seq(ClosedType) /\ Len(dl) = Len(cl) + 1 /\ dl[Len(cl) + 1] = new
      /\ \A p \in 1..Len(cl) : dl[p] = cl[p]
  <2>1. dl = Append(cl, new)
    OBVIOUS
  <2> HIDE DEF new
  <2> QED
    BY <1>n, <2>1, PushFrame
<1>f. /\ Rising(fr)
      /\ \A e \in Nat : e \in 1..d <=> Opened(fr, e) \/ Closed(cl, e)
      /\ \A e \in Nat : ~(Opened(fr, e) /\ Closed(cl, e))
      /\ \A p, q \in 1..Len(cl) : cl[p].id = cl[q].id => p = q
      /\ \A p \in 1..Len(cl) : \A later \in cl[p].id + 1 .. cl[p].declared :
             \E q \in 1 .. p - 1 : cl[q].id = later
  BY DEF Closing
<1>r. /\ \A i \in 1..n : \A p \in 1..Len(fr[i].tbc) : i < n => fr[i].tbc[p] < x
      /\ \A p \in 1 .. k - 1 : t[p] < x
  <2>1. k \in 1..k /\ t[k] = x
    BY <1>2
  <2>2. ASSUME NEW i \in 1..n, NEW p \in 1..Len(fr[i].tbc), i < n PROVE fr[i].tbc[p] < t[k]
    BY <1>1, <1>f, <2>1, <2>2 DEF Rising
  <2>3. ASSUME NEW p \in 1 .. k - 1 PROVE t[p] < t[k]
    <3>1. p \in 1..k /\ p < k
      BY SMTT(30), <1>2
    <3> QED
      BY <1>1, <1>f, <2>1, <3>1 DEF Rising
  <2> QED
    BY <2>1, <2>2, <2>3
<1> HIDE DEF n, t, u, k, x, new
(* Where a place of the new frames was before. *)
<1>4. ASSUME NEW i \in 1 .. n + 1, NEW p \in 1..Len(gr[i].tbc)
      PROVE  /\ i \in 1..n /\ p \in 1..Len(fr[i].tbc) /\ gr[i].tbc[p] = fr[i].tbc[p]
             /\ fr[i].tbc[p] < x
  <2>1. CASE i = n
    <3>1. fr[i].tbc = t /\ gr[i].tbc = u
      BY <1>1, <1>t, <2>1
    <3>2. p \in 1 .. k - 1
      BY <1>2, <3>1
    <3>3. p \in 1..k /\ u[p] = t[p] /\ t[p] < x
      BY <1>2, <1>r, <3>2
    <3>4. k = Len(fr[i].tbc)
      BY <3>1 DEF k
    <3> QED
      BY <1>1, <2>1, <3>1, <3>3, <3>4
  <2>2. CASE i = n + 1
    <3>1. Len(gr[i].tbc) = 0
      BY <1>3, <2>2
    <3> QED
      BY <3>1
  <2>3. CASE i \in 1..n /\ i # n
    <3>1. gr[i].tbc = fr[i].tbc
      BY <1>3, <2>3
    <3>2. i < n
      BY <1>1, <2>3
    <3> QED
      BY <1>r, <2>3, <3>1, <3>2
  <2> QED
    BY <1>1, <2>1, <2>2, <2>3
<1>5. Rising(gr)
  <2>1. SUFFICES ASSUME NEW i \in 1 .. n + 1, NEW j \in 1 .. n + 1,
                        NEW p \in 1..Len(gr[i].tbc), NEW q \in 1..Len(gr[j].tbc),
                        i < j \/ (i = j /\ p < q)
                 PROVE  gr[i].tbc[p] < gr[j].tbc[q]
    BY <1>3 DEF Rising
  <2>2. /\ i \in 1..n /\ p \in 1..Len(fr[i].tbc) /\ gr[i].tbc[p] = fr[i].tbc[p]
        /\ j \in 1..n /\ q \in 1..Len(fr[j].tbc) /\ gr[j].tbc[q] = fr[j].tbc[q]
    BY <1>4
  <2>3. fr[i].tbc[p] < fr[j].tbc[q]
    BY <1>f, <2>1, <2>2 DEF Rising, n
  <2> QED
    BY <2>2, <2>3
<1>6. ASSUME NEW e PROVE Opened(gr, e) => Opened(fr, e) /\ e < x
  <2>1. SUFFICES ASSUME Opened(gr, e) PROVE Opened(fr, e) /\ e < x
    OBVIOUS
  <2>2. PICK i \in 1 .. n + 1 : \E p \in 1..Len(gr[i].tbc) : gr[i].tbc[p] = e
    BY <1>3, <2>1 DEF Opened
  <2>3. PICK p \in 1..Len(gr[i].tbc) : gr[i].tbc[p] = e
    BY <2>2
  <2>4. i \in 1..n /\ p \in 1..Len(fr[i].tbc) /\ fr[i].tbc[p] = e /\ e < x
    BY <1>4, <2>3
  <2> QED
    BY <2>4 DEF Opened, n
<1>7. ASSUME NEW e PROVE Opened(fr, e) => e = x \/ (Opened(gr, e) /\ e < x)
  <2>1. SUFFICES ASSUME Opened(fr, e) PROVE e = x \/ Opened(gr, e)
    BY <1>6
  <2>2. PICK i \in 1..n : \E p \in 1..Len(fr[i].tbc) : fr[i].tbc[p] = e
    BY <2>1 DEF Opened, n
  <2>3. PICK p \in 1..Len(fr[i].tbc) : fr[i].tbc[p] = e
    BY <2>2
  <2>4. CASE i = n
    <3>1. fr[i].tbc = t /\ gr[i].tbc = u
      BY <1>t, <2>4
    <3>2. p \in 1..k /\ t[p] = e
      BY <2>3, <3>1 DEF k
    <3>3. CASE p = k
      BY <1>2, <3>2, <3>3
    <3>4. CASE p # k
      <4>1. p \in 1 .. k - 1 /\ p \in 1..Len(u)
        BY <1>2, <3>2, <3>4
      <4>2. u[p] = e
        BY <1>2, <3>2, <4>1
      <4>3. p \in 1..Len(gr[i].tbc) /\ gr[i].tbc[p] = e /\ i \in 1..Len(gr)
        BY <1>1, <1>3, <3>1, <4>1, <4>2
      <4> QED
        BY <4>3 DEF Opened
    <3> QED
      BY <3>3, <3>4
  <2>5. CASE i # n
    <3>1. gr[i].tbc = fr[i].tbc
      BY <1>3, <2>5
    <3>2. i \in 1..Len(gr)
      BY <1>1, <1>3
    <3> QED
      BY <2>3, <3>1, <3>2 DEF Opened
  <2> QED
    BY <2>4, <2>5
<1>8. Opened(fr, x)
  <2>1. fr[n].tbc = t
    BY <1>1, <1>t
  <2>2. k \in 1..k /\ k = Len(t)
    BY <1>2 DEF k
  <2>3. k \in 1..Len(fr[n].tbc) /\ fr[n].tbc[k] = x
    BY <1>2, <2>1, <2>2
  <2> QED
    BY <1>1, <2>3 DEF Opened, n
<1>9. ASSUME NEW e PROVE Closed(dl, e) <=> Closed(cl, e) \/ e = x
  <2>1. \A q \in 1 .. Len(cl) + 1 : q \in 1..Len(cl) \/ q = Len(cl) + 1
    OBVIOUS
  <2>2. ASSUME Closed(dl, e) PROVE Closed(cl, e) \/ e = x
    BY <1>d, <1>n, <2>1, <2>2 DEF Closed
  <2>3. ASSUME Closed(cl, e) PROVE Closed(dl, e)
    <3>1. PICK q \in 1..Len(cl) : cl[q].id = e
      BY <2>3 DEF Closed
    <3>2. q \in 1..Len(dl) /\ dl[q].id = e
      BY <1>d, <3>1
    <3> QED
      BY <3>2 DEF Closed
  <2>4. Closed(dl, x)
    <3>1. Len(cl) + 1 \in 1..Len(dl) /\ dl[Len(cl) + 1].id = x
      BY <1>d, <1>n
    <3> QED
      BY <3>1 DEF Closed
  <2> QED
    BY <2>2, <2>3, <2>4
<1>10. \A e \in Nat : e \in 1..d <=> Opened(gr, e) \/ Closed(dl, e)
  BY <1>2, <1>6, <1>7, <1>8, <1>9, <1>f
<1>11. \A e \in Nat : ~(Opened(gr, e) /\ Closed(dl, e))
  <2>1. SUFFICES ASSUME NEW e \in Nat, Opened(gr, e), Closed(dl, e) PROVE FALSE
    OBVIOUS
  <2>2. Opened(fr, e) /\ e < x
    BY <1>6, <2>1
  <2> QED
    BY <1>2, <1>9, <1>f, <2>1, <2>2
<1>12. ASSUME NEW p \in 1..Len(dl), NEW q \in 1..Len(dl), dl[p].id = dl[q].id PROVE p = q
  <2>1. ~Closed(cl, x)
    BY <1>2, <1>8, <1>f
  <2>2. \A i \in 1..Len(dl) : i \in 1..Len(cl) \/ i = Len(cl) + 1
    BY <1>d
  <2>3. \A i \in 1..Len(cl) : dl[i].id = cl[i].id /\ cl[i].id # x
    BY <1>d, <2>1 DEF Closed
  <2>4. dl[Len(cl) + 1].id = x
    BY <1>d, <1>n
  <2> QED
    BY <1>12, <1>f, <2>2, <2>3, <2>4
<1>13. ASSUME NEW p \in 1..Len(dl), NEW later \in dl[p].id + 1 .. dl[p].declared
       PROVE  \E q \in 1 .. p - 1 : dl[q].id = later
  <2>1. CASE p \in 1..Len(cl)
    <3>1. PICK q \in 1 .. p - 1 : cl[q].id = later
      BY <1>d, <1>f, <2>1
    <3>2. q \in 1..Len(cl)
      BY <2>1
    <3> QED
      BY <1>d, <3>1, <3>2
  <2>2. CASE p = Len(cl) + 1
    <3>1. later \in x + 1 .. d
      BY <1>d, <1>n, <2>2
    <3>x. x \in Nat
      BY <1>2
    <3>2. later \in Nat /\ later \in 1..d /\ ~(later < x) /\ later # x
      BY <3>1, <3>x
    <3>3. ~Opened(fr, later)
      BY <1>7, <3>2
    <3>4. Closed(cl, later)
      BY <1>f, <3>2, <3>3
    <3>5. PICK q \in 1..Len(cl) : cl[q].id = later
      BY <3>4 DEF Closed
    <3>6. p - 1 = Len(cl) /\ dl[q] = cl[q]
      BY <1>d, <2>2
    <3> QED
      BY <3>5, <3>6
  <2> QED
    BY <1>d, <2>1, <2>2
<1> QED
  BY <1>5, <1>10, <1>11, <1>12, <1>13, <1>d DEF Closing

-----------------------------------------------------------------------------
LEMMA Assembled ==
    ASSUME NEW fr \in Seq(FrameType), NEW k \in Nat, NEW d \in Nat, NEW r \in Nat,
           NEW cl \in Seq(ClosedType), NEW ca \in Seq(Nat),
           OnTheWay(fr, r, ca), Closing(fr, cl, d),
           call' = [frames |-> fr, calls |-> k, declared |-> d, raised |-> r, closed |-> cl,
                    caught |-> ca]
    PROVE  CallsIInv'
<1>1. CallsTypeOK'
  BY DEF CallsTypeOK
<1>2. /\ call'.frames = fr /\ call'.raised = r /\ call'.caught = ca /\ call'.closed = cl
      /\ call'.declared = d
  OBVIOUS
<1> QED
  BY <1>1, <1>2 DEF CallsIInv

LEMMA NewFrame ==
    ASSUME NEW by \in Callers \cup {"guard", "handler"}
    PROVE  /\ Frame(by) \in FrameType /\ Frame(by).by = by /\ Frame(by).tbc = <<>>
           /\ Frame(by).exit = Running
<1> DEFINE none == <<>>
<1>1. Frame(by) = [by |-> by, tbc |-> none, exit |-> 0] /\ none \in Seq(Nat) /\ 0 \in Int
  BY DEF Frame, Running
<1>2. none = <<>> /\ Running = 0
  BY DEF Running
<1> HIDE DEF none
<1> QED
  BY <1>1, <1>2 DEF FrameType

LEMMA InitCalls == CallsInit => CallsIInv
<1> SUFFICES ASSUME CallsInit PROVE CallsIInv
  OBVIOUS
<1> DEFINE f == Frame("call")
           fr == <<f>>
<1>1. call = [frames |-> fr, calls |-> 0, declared |-> 0, raised |-> 0, closed |-> <<>>,
              caught |-> <<>>]
  BY DEF CallsInit
<1>2. f \in FrameType /\ f.tbc = <<>> /\ f.exit = 0
  BY NewFrame DEF Callers, Running
<1> HIDE DEF f
<1>3. fr \in Seq(FrameType) /\ Len(fr) = 1 /\ fr[1] = f
  BY <1>2
<1> HIDE DEF fr
<1>4. CallsTypeOK
  BY <1>1, <1>3 DEF CallsTypeOK
<1>5. OnTheWay(fr, 0, <<>>)
  BY <1>2, <1>3 DEF OnTheWay
<1>6. Closing(fr, <<>>, 0)
  <2>1. \A i \in 1..Len(fr) : \A p \in 1..Len(fr[i].tbc) : FALSE
    BY <1>2, <1>3
  <2>2. Rising(fr) /\ \A e : ~Opened(fr, e)
    BY <2>1 DEF Rising, Opened
  <2>3. \A e : ~Closed(<<>>, e)
    BY DEF Closed
  <2> QED
    BY <2>2, <2>3 DEF Closing
<1>7. /\ call.frames = fr /\ call.raised = 0 /\ call.caught = <<>> /\ call.closed = <<>>
      /\ call.declared = 0
  BY <1>1
<1> QED
  BY <1>4, <1>5, <1>6, <1>7 DEF CallsIInv

LEMMA CallStep == CallsIInv /\ (\E by \in Callers : Call(by)) => CallsIInv'
<1> SUFFICES ASSUME CallsIInv, NEW by \in Callers, Call(by) PROVE CallsIInv'
  OBVIOUS
<1> DEFINE fr == call.frames
           new == Frame(by)
           gr == Append(fr, new)
           k == call.calls + 1
<1>1. /\ CallsTypeOK /\ fr \in Seq(FrameType) /\ Len(fr) = Depth /\ Depth \in Nat
      /\ k \in Nat /\ call.declared \in Nat /\ call.raised \in Nat
      /\ call.closed \in Seq(ClosedType) /\ call.caught \in Seq(Nat)
      /\ \A i \in 1..Len(fr) : fr[i].exit \in Int
      /\ OnTheWay(fr, call.raised, call.caught) /\ Closing(fr, call.closed, call.declared)
  BY SMTT(30), Fields DEF CallsIInv
<1>2. Depth > 0 /\ fr[Depth].exit = Running
  BY DEF Call, Runs, TopFrame
<1>e. call' = [call EXCEPT !.frames = gr, !.calls = k]
  BY DEF Call
<1>t. CallsTypeOK
  BY DEF CallsIInv
<1>3. new \in FrameType /\ new.by = by /\ new.tbc = <<>> /\ new.exit = Running
  BY NewFrame
<1>n. new \in FrameType
  BY <1>3
<1>f. fr \in Seq(FrameType)
  BY <1>1
<1> HIDE DEF new, fr
<1>4. /\ gr \in Seq(FrameType) /\ Len(gr) = Len(fr) + 1 /\ gr[Len(fr) + 1] = new
      /\ \A i \in 1..Len(fr) : gr[i] = fr[i]
  BY <1>f, <1>n, PushFrame
<1> HIDE DEF gr, k
<1>5. call' = [frames |-> gr, calls |-> k, declared |-> call.declared, raised |-> call.raised,
               closed |-> call.closed, caught |-> call.caught]
  BY <1>e, <1>t DEF CallsTypeOK
<1> USE DEF fr
<1>6. OnTheWay(gr, call.raised, call.caught)
  <2>1. Stays(fr, gr, Len(fr)) /\ gr[Len(gr)].exit = Running /\ gr[Len(fr)].exit = Running
    BY SMTT(30), <1>1, <1>2, <1>3, <1>4 DEF Stays
  <2> QED
    BY <1>1, <1>4, <2>1, PushOnTheWay
<1>7. Closing(gr, call.closed, call.declared)
  <2> DEFINE n == Len(fr)
  <2>1. /\ n \in Nat /\ Len(gr) = n + 1 /\ gr[n + 1].tbc = <<>>
        /\ \A i \in 1..n : gr[i].tbc = fr[i].tbc
    BY <1>1, <1>3, <1>4
  <2> HIDE DEF n
  <2>2. \A i \in 1..Len(gr) : (i \in 1..n /\ gr[i].tbc = fr[i].tbc) \/ gr[i].tbc = <<>>
    BY <2>1
  <2>3. \A i \in 1..n : i \in 1..Len(gr) /\ gr[i].tbc = fr[i].tbc
    BY <2>1
  <2>4. Len(gr) \in Nat
    BY <2>1
  <2> QED
    BY <1>1, <2>1, <2>2, <2>3, <2>4, ClosingKept DEF n
<1> QED
  BY <1>1, <1>4, <1>5, <1>6, <1>7, Assembled

LEMMA TopSet ==
    ASSUME NEW fr \in Seq(FrameType), NEW n, n = Len(fr), n # 0, NEW f \in FrameType
    PROVE  LET gr == [fr EXCEPT ![n] = f]
           IN  /\ gr \in Seq(FrameType) /\ Len(gr) = n /\ gr[n] = f
               /\ \A i \in 1..n : i # n => gr[i] = fr[i]
<1>1. n \in 1..Len(fr)
  BY LenProperties
<1> QED
  BY <1>1, ExceptSeq

(* The top frame with another exit. *)
WithExit(fr, n, x) == [fr EXCEPT ![n] = [@ EXCEPT !.exit = x]]

LEMMA ExitSet ==
    ASSUME CallsIInv, Runs, NEW x \in Int
    PROVE  LET gr == WithExit(call.frames, Depth, x)
           IN  /\ gr \in Seq(FrameType)
               /\ x < 0 => OnTheWay(gr, call.raised, call.caught)
               /\ x = call.raised + 1 => OnTheWay(gr, call.raised + 1, Append(call.caught, 0))
               /\ Closing(gr, call.closed, call.declared)
<1> DEFINE fr == call.frames
           n == Depth
           f == [fr[n] EXCEPT !.exit = x]
           gr == WithExit(fr, n, x)
<1>1. /\ CallsTypeOK /\ fr \in Seq(FrameType) /\ Len(fr) = n /\ n \in Nat
      /\ call.declared \in Nat /\ call.raised \in Nat /\ call.caught \in Seq(Nat)
      /\ \A i \in 1..Len(fr) : fr[i].exit \in Int
      /\ OnTheWay(fr, call.raised, call.caught) /\ Closing(fr, call.closed, call.declared)
  BY Fields DEF CallsIInv
<1>2. n # 0 /\ fr[n].exit = Running /\ n \in Nat /\ fr \in Seq(FrameType) /\ n = Len(fr)
  BY <1>1 DEF Runs, TopFrame
<1>3. fr[n] \in FrameType
  <2>1. n \in 1..Len(fr)
    BY <1>2
  <2> QED
    BY <1>2, <2>1, ElementOfSeq
<1>4. f \in FrameType /\ f.by = fr[n].by /\ f.tbc = fr[n].tbc /\ f.exit = x
  <2> DEFINE o == fr[n]
  <2> HIDE DEF o
  <2>1. o \in FrameType /\ f = [o EXCEPT !.exit = x]
    BY <1>3 DEF o
  <2> HIDE DEF f
  <2>2. f = [by |-> o.by, tbc |-> o.tbc, exit |-> x]
    BY <2>1 DEF FrameType
  <2>3. o.by \in Callers \cup {"guard", "handler"} /\ o.tbc \in Seq(Nat)
    BY <2>1 DEF FrameType
  <2>4. f \in FrameType
    BY <2>2, <2>3 DEF FrameType
  <2> QED
    BY <2>2, <2>4 DEF o
<1>g. gr = [fr EXCEPT ![n] = f]
  BY DEF WithExit
<1>f. f \in FrameType
  BY <1>4
<1> HIDE DEF f, gr, n, fr
<1>5. /\ gr \in Seq(FrameType) /\ Len(gr) = n /\ gr[n] = f
      /\ \A i \in 1..n : i # n => gr[i] = fr[i]
  BY <1>2, <1>f, <1>g, TopSet
<1>6. /\ \A i \in 1..n : gr[i].by = fr[i].by /\ gr[i].tbc = fr[i].tbc
      /\ \A i \in 1..n : i # n => gr[i].exit = fr[i].exit
      /\ gr[n].exit = x
  BY <1>4, <1>5
<1>7. /\ x < 0 => OnTheWay(gr, call.raised, call.caught)
      /\ x = call.raised + 1 => OnTheWay(gr, call.raised + 1, Append(call.caught, 0))
  BY <1>1, <1>2, <1>5, <1>6, LeaveOnTheWay
<1>8. Closing(gr, call.closed, call.declared)
  <2>1. /\ \A i \in 1..Len(gr) : i \in 1..Len(fr) /\ gr[i].tbc = fr[i].tbc
        /\ \A i \in 1..Len(fr) : i \in 1..Len(gr) /\ gr[i].tbc = fr[i].tbc
        /\ Len(fr) \in Nat /\ Len(gr) \in Nat
    BY <1>2, <1>5, <1>6
  <2> QED
    BY <1>1, <2>1, ClosingKept
<1> QED
  BY <1>5, <1>7, <1>8 DEF gr, fr, n

LEMMA LeaveStep == CallsIInv /\ (LeaveBlock \/ Return) => CallsIInv'
<1> SUFFICES ASSUME CallsIInv, LeaveBlock \/ Return PROVE CallsIInv'
  OBVIOUS
<1>1. PICK x \in {Block, Returning} : Runs /\ call' = [call EXCEPT !.frames[Depth].exit = x]
  BY DEF LeaveBlock, Return
<1>2. x \in Int /\ x < 0
  BY DEF Block, Returning
<1> DEFINE n == Depth
           gr == WithExit(call.frames, n, x)
<1>3. /\ gr \in Seq(FrameType) /\ OnTheWay(gr, call.raised, call.caught)
      /\ Closing(gr, call.closed, call.declared)
  BY <1>1, <1>2, ExitSet
<1>t. CallsTypeOK
  BY DEF CallsIInv
<1>e. call' = [call EXCEPT !.frames[n].exit = x]
  BY <1>1
<1>g. gr = [call.frames EXCEPT ![n] = [@ EXCEPT !.exit = x]]
  BY DEF WithExit
<1> HIDE DEF n, gr
<1>4. call' = [frames |-> gr, calls |-> call.calls, declared |-> call.declared,
               raised |-> call.raised, closed |-> call.closed, caught |-> call.caught]
  BY <1>e, <1>g, <1>t DEF CallsTypeOK
<1> QED
  BY <1>3, <1>4, <1>t, Fields, Assembled

LEMMA RaiseStep == CallsIInv /\ Raise => CallsIInv'
<1> SUFFICES ASSUME CallsIInv, Raise PROVE CallsIInv'
  OBVIOUS
<1> DEFINE n == Depth
           x == call.raised + 1
           ca == Append(call.caught, 0)
           gr == WithExit(call.frames, n, x)
<1>t. CallsTypeOK
  BY DEF CallsIInv
<1>1. Runs /\ x \in Nat /\ x \in Int /\ ca \in Seq(Nat)
  BY <1>t, Fields DEF Raise
<1>3. /\ gr \in Seq(FrameType) /\ OnTheWay(gr, x, ca) /\ Closing(gr, call.closed, call.declared)
  BY <1>1, ExitSet
<1>e. call' = [call EXCEPT !.frames[n].exit = x, !.raised = x, !.caught = ca]
  BY DEF Raise
<1>g. gr = [call.frames EXCEPT ![n] = [@ EXCEPT !.exit = x]]
  BY DEF WithExit
<1> HIDE DEF n, gr, x, ca
<1>4. call' = [frames |-> gr, calls |-> call.calls, declared |-> call.declared,
               raised |-> x, closed |-> call.closed, caught |-> ca]
  BY <1>e, <1>g, <1>t DEF CallsTypeOK
<1> QED
  BY <1>1, <1>3, <1>4, <1>t, Fields, Assembled

LEMMA DeclareStep == CallsIInv /\ Declare => CallsIInv'
<1> SUFFICES ASSUME CallsIInv, Declare PROVE CallsIInv'
  OBVIOUS
<1> DEFINE fr == call.frames
           n == Depth
           d == call.declared
           k == d + 1
           o == fr[n]
           u == Append(o.tbc, k)
           f == [o EXCEPT !.tbc = u]
           gr == [fr EXCEPT ![n] = f]
<1>t. CallsTypeOK
  BY DEF CallsIInv
<1>1. /\ fr \in Seq(FrameType) /\ Len(fr) = n /\ n \in Nat
      /\ d \in Nat /\ call.raised \in Nat /\ call.caught \in Seq(Nat)
      /\ \A i \in 1..Len(fr) : fr[i].exit \in Int
      /\ OnTheWay(fr, call.raised, call.caught) /\ Closing(fr, call.closed, d)
  BY Fields DEF CallsIInv
<1>2. n # 0 /\ fr[n].exit = Running /\ n \in 1..Len(fr)
  BY <1>1 DEF Runs, TopFrame, Declare
<1>3. o \in FrameType /\ o.tbc \in Seq(Nat)
  BY <1>2, <1>t, Fields
<1>4. u \in Seq(Nat) /\ k \in Nat
  BY <1>1, <1>3
<1>e. call' = [call EXCEPT !.frames[n].tbc = u, !.declared = k]
  BY DEF Declare
<1>f. f \in FrameType /\ f.by = o.by /\ f.tbc = u /\ f.exit = o.exit
  <2>1. f = [o EXCEPT !.tbc = u] /\ u \in Seq(Nat) /\ o \in FrameType
    BY <1>3, <1>4
  <2> HIDE DEF f, u, o
  <2>2. f = [by |-> o.by, tbc |-> u, exit |-> o.exit]
    BY <2>1 DEF FrameType
  <2>3. o.by \in Callers \cup {"guard", "handler"} /\ o.exit \in Int
    BY <2>1 DEF FrameType
  <2>4. f \in FrameType
    BY <2>1, <2>2, <2>3 DEF FrameType
  <2> QED
    BY <2>2, <2>4
<1>g. gr = [fr EXCEPT ![n] = f]
  OBVIOUS
<1>5. /\ gr \in Seq(FrameType) /\ Len(gr) = n /\ gr[n] = f
      /\ \A i \in 1..n : i # n => gr[i] = fr[i]
  <2> HIDE DEF fr, n, f, gr
  <2> QED
    BY <1>1, <1>2, <1>f, <1>g, TopSet
<1>r. f = [o EXCEPT !.tbc = u]
  OBVIOUS
<1>h. gr = [call.frames EXCEPT ![n] = [@ EXCEPT !.tbc = u]]
  OBVIOUS
<1> HIDE DEF n, u, k, gr
<1>6. call' = [frames |-> gr, calls |-> call.calls, declared |-> k, raised |-> call.raised,
               closed |-> call.closed, caught |-> call.caught]
  BY <1>e, <1>h, <1>t DEF CallsTypeOK
<1> HIDE DEF fr, f, o, d
<1>7. OnTheWay(gr, call.raised, call.caught)
  <2>1. \A i \in 1..n : gr[i].exit = fr[i].exit /\ gr[i].by = fr[i].by
    BY <1>5, <1>f DEF o
  <2>2. Len(gr) = n /\ Len(fr) = n /\ \A i \in 1 .. n - 1 : i \in 1..n /\ i + 1 \in 1..n
    BY <1>1, <1>5
  <2> DEFINE r == call.raised
             c == call.caught
  <2>3. /\ Len(c) = r
        /\ \A i \in 1..n : fr[i].exit <= r
        /\ \A i \in 1 .. n - 1 : fr[i].exit # Running => fr[i + 1].by = "guard"
        /\ \A i, j \in 1..n : fr[i].exit > 0 /\ fr[i].exit = fr[j].exit => i = j
        /\ \A e \in 1..r : c[e] = 0 <=> \E i \in 1..n : fr[i].exit = e
    BY <1>1, <2>2 DEF OnTheWay
  <2> HIDE DEF r, c
  <2>4. /\ \A i \in 1..n : gr[i].exit <= r
        /\ \A i \in 1 .. n - 1 : gr[i].exit # Running => gr[i + 1].by = "guard"
        /\ \A i, j \in 1..n : gr[i].exit > 0 /\ gr[i].exit = gr[j].exit => i = j
        /\ \A e \in 1..r : c[e] = 0 <=> \E i \in 1..n : gr[i].exit = e
    BY <2>1, <2>2, <2>3
  <2>5. OnTheWay(gr, r, c)
    BY <2>2, <2>3, <2>4 DEF OnTheWay
  <2> QED
    BY <2>5 DEF r, c
<1>8. Closing(gr, call.closed, k)
  <2>1. /\ \A i \in 1..n : i # n => gr[i].tbc = fr[i].tbc
        /\ gr[n].tbc = Append(fr[n].tbc, d + 1) /\ k = d + 1
    BY <1>5, <1>f DEF o, u, k
  <2>2. \A i \in 1..n : fr[i].tbc \in Seq(Nat)
    BY <1>t, Fields DEF fr, n
  <2>3. call.closed \in Seq(ClosedType) /\ Len(fr) \in Nat \ {0}
    BY <1>1, <1>2, <1>t, Fields
  <2> QED
    <3>1. /\ Closing(fr, call.closed, d) /\ d \in Nat /\ Len(gr) = Len(fr) /\ n = Len(fr)
      BY <1>1, <1>5
    <3>2. Closing(gr, call.closed, d + 1)
      BY <2>1, <2>2, <2>3, <3>1, DeclareCloses
    <3> QED
      BY <2>1, <3>2
<1> QED
  BY <1>4, <1>5, <1>6, <1>7, <1>8, <1>t, Fields, Assembled

LEMMA TopOf ==
    ASSUME CallsTypeOK, Depth > 0
    PROVE  /\ call.frames # <<>> /\ Depth = Len(call.frames) /\ TopFrame = call.frames[Depth]
           /\ TopFrame \in FrameType /\ TopFrame.tbc \in Seq(Nat) /\ TopFrame.exit \in Int
           /\ Front(call.frames) \in Seq(FrameType) /\ Depth \in Nat \ {0}
           /\ Len(Front(call.frames)) = Depth - 1
           /\ \A i \in 1 .. Depth - 1 : Front(call.frames)[i] = call.frames[i]
<1>1. call.frames \in Seq(FrameType) /\ Depth = Len(call.frames) /\ Depth \in Nat \ {0}
  BY Fields
<1>2. call.frames # <<>> /\ Depth \in 1..Depth
  BY <1>1
<1>3. TopFrame = call.frames[Depth]
  BY DEF TopFrame
<1>4. TopFrame \in FrameType /\ TopFrame.tbc \in Seq(Nat) /\ TopFrame.exit \in Int
  BY <1>2, <1>3, Fields
<1>5. /\ Front(call.frames) \in Seq(FrameType) /\ Len(Front(call.frames)) = Len(call.frames) - 1
      /\ \A i \in 1 .. Len(call.frames) - 1 : Front(call.frames)[i] = call.frames[i]
  BY <1>1, <1>2, PopFrame
<1> QED
  BY <1>1, <1>2, <1>3, <1>4, <1>5

LEMMA CloseStep == CallsIInv /\ CloseNext => CallsIInv'
<1> SUFFICES ASSUME CallsIInv, CloseNext PROVE CallsIInv'
  OBVIOUS
<1> DEFINE fr == call.frames
           n == Depth
           d == call.declared
           r == call.raised
           o == TopFrame
           u == Front(o.tbc)
           x == IF o.exit = Block THEN Running ELSE o.exit
           left == [o EXCEPT !.tbc = u, !.exit = x]
           guard == Frame("guard")
           low == Append(Front(fr), left)
           gr == low \o <<guard>>
           new == [id |-> Last(o.tbc), declared |-> d]
           dl == Append(call.closed, new)
<1>t. CallsTypeOK
  BY DEF CallsIInv
<1>0. Depth > 0 /\ o.exit # Running /\ o.tbc # <<>>
  BY DEF CloseNext
<1>1. /\ fr \in Seq(FrameType) /\ Len(fr) = n /\ n \in Nat \ {0} /\ n \in 1..n
      /\ d \in Nat /\ r \in Nat /\ call.caught \in Seq(Nat) /\ call.closed \in Seq(ClosedType)
      /\ (\A i \in 1..Len(fr) : fr[i].exit \in Int /\ fr[i].tbc \in Seq(Nat))
      /\ OnTheWay(fr, r, call.caught) /\ Closing(fr, call.closed, d)
  <2>1. /\ fr \in Seq(FrameType) /\ Len(fr) = n
        /\ d \in Nat /\ r \in Nat /\ call.caught \in Seq(Nat) /\ call.closed \in Seq(ClosedType)
        /\ (\A i \in 1..n : fr[i].exit \in Int /\ fr[i].tbc \in Seq(Nat))
    BY <1>t, Fields
  <2>2. n \in Nat \ {0} /\ n \in 1..n
    BY <1>0, <1>t, TopOf
  <2>3. OnTheWay(fr, r, call.caught) /\ Closing(fr, call.closed, d)
    BY DEF CallsIInv
  <2> QED
    BY <2>1, <2>2, <2>3
<1>2. /\ o \in FrameType /\ o = fr[n] /\ o.exit \in Int /\ o.tbc \in Seq(Nat)
      /\ Front(fr) \in Seq(FrameType) /\ Len(Front(fr)) = n - 1
      /\ \A i \in 1 .. n - 1 : Front(fr)[i] = fr[i]
  BY <1>0, <1>t, TopOf
<1>3. u \in Seq(Nat) /\ x \in Int /\ (x = o.exit \/ (x = Running /\ o.exit <= 0))
  <2>1. u \in Seq(Nat)
    BY <1>0, <1>2, PopFrame
  <2>2. x \in Int /\ (x = o.exit \/ (x = Running /\ o.exit <= 0))
    BY <1>2 DEF Running, Block
  <2> QED
    BY <2>1, <2>2
<1>4. left \in FrameType /\ left.by = o.by /\ left.tbc = u /\ left.exit = x
  <2>1. left = [o EXCEPT !.tbc = u, !.exit = x]
    OBVIOUS
  <2> HIDE DEF left, u, x, o
  <2>2. left = [by |-> o.by, tbc |-> u, exit |-> x]
    BY <1>2, <2>1 DEF FrameType
  <2>3. o.by \in Callers \cup {"guard", "handler"}
    BY <1>2 DEF FrameType
  <2>4. left \in FrameType
    BY <1>3, <2>2, <2>3 DEF FrameType
  <2> QED
    BY <2>2, <2>4
<1>5. guard \in FrameType /\ guard.by = "guard" /\ guard.tbc = <<>> /\ guard.exit = Running
  BY NewFrame
<1>6. /\ low \in Seq(FrameType) /\ Len(low) = n /\ low[n] = left
      /\ \A i \in 1 .. n - 1 : low[i] = fr[i]
  <2> DEFINE ff == Front(fr)
             m == Len(ff)
  <2>1. ff \in Seq(FrameType) /\ left \in FrameType
    BY <1>2, <1>4
  <2>2. low = Append(ff, left)
    OBVIOUS
  <2>3. m = n - 1 /\ \A i \in 1..m : ff[i] = fr[i]
    BY <1>2
  <2> HIDE DEF left, ff, low
  <2>4. /\ low \in Seq(FrameType) /\ Len(low) = m + 1 /\ low[m + 1] = left
        /\ \A i \in 1..m : low[i] = ff[i]
    BY <2>1, <2>2, PushFrame
  <2> HIDE DEF m, n, fr
  <2> QED
    BY <1>1, <2>3, <2>4
<1>7. /\ gr \in Seq(FrameType) /\ Len(gr) = n + 1 /\ gr[n + 1] = guard /\ gr[n] = left
      /\ \A i \in 1 .. n - 1 : gr[i] = fr[i]
  <2> DEFINE one == <<guard>>
  <2>1. one \in Seq(FrameType) /\ Len(one) = 1 /\ one[1] = guard
    BY <1>5
  <2>2. low \in Seq(FrameType) /\ gr = low \o one
    BY <1>6
  <2> HIDE DEF low, one, gr, guard
  <2>3. /\ gr \in Seq(FrameType) /\ Len(gr) = Len(low) + Len(one)
        /\ \A i \in 1 .. Len(low) + Len(one) :
              gr[i] = IF i <= Len(low) THEN low[i] ELSE one[i - Len(low)]
    BY <2>1, <2>2, ConcatProperties
  <2>4. Len(gr) = n + 1 /\ gr[n + 1] = one[1] /\ \A i \in 1..n : gr[i] = low[i]
    <3> HIDE DEF n
    <3>1. Len(low) = n /\ n \in Nat
      BY <1>1, <1>6
    <3> QED
      BY <2>1, <2>3, <3>1
  <2> HIDE DEF n, left, fr
  <2>5. \A i \in 1 .. n - 1 : i \in 1..n
    BY <1>1
  <2> QED
    BY <1>1, <1>6, <2>1, <2>3, <2>4, <2>5
<1>e. call' = [call EXCEPT !.frames = gr, !.closed = dl]
  BY DEF CloseNext
<1> HIDE DEF n, d, r, o, u, x, left, guard, low, gr, dl
<1>8. call' = [frames |-> gr, calls |-> call.calls, declared |-> call.declared,
               raised |-> call.raised, closed |-> dl, caught |-> call.caught]
  BY <1>e, <1>t DEF CallsTypeOK
<1>9. OnTheWay(gr, r, call.caught)
  <2>1. Stays(fr, gr, Len(fr))
    <3>1. ASSUME NEW i \in 1..n
          PROVE  /\ gr[i].by = fr[i].by /\ gr[i].exit \in Int
                 /\ gr[i].exit = fr[i].exit \/ (gr[i].exit = Running /\ fr[i].exit <= 0)
      <4>1. CASE i = n
        BY <1>2, <1>3, <1>4, <1>7, <4>1
      <4>2. CASE i # n
        <5>1. i \in 1 .. n - 1
          BY <1>1, <4>2
        <5> QED
          BY <1>1, <1>7, <5>1
      <4> QED
        BY <4>1, <4>2
    <3> QED
      BY <1>1, <3>1 DEF Stays
  <2>2. gr[Len(gr)].exit = Running /\ gr[Len(gr)].by = "guard" /\ Len(gr) = Len(fr) + 1
    BY <1>1, <1>5, <1>7
  <2> QED
    BY <1>1, <2>1, <2>2, PushOnTheWay
<1>10. dl \in Seq(ClosedType) /\ Closing(gr, dl, d)
  <2>1. /\ \A i \in 1..n : fr[i].tbc \in Seq(Nat)
        /\ Len(fr) \in Nat \ {0} /\ Len(gr) = Len(fr) + 1 /\ n = Len(fr)
    BY <1>1, <1>7
  <2>2. \A i \in 1..n : i # n => gr[i].tbc = fr[i].tbc
    <3>1. \A i \in 1..n : i # n => i \in 1 .. n - 1
      BY <1>1
    <3> QED
      BY <1>7, <3>1
  <2>3. gr[n].tbc = Front(fr[n].tbc) /\ gr[Len(gr)].tbc = <<>> /\ fr[n].tbc # <<>>
    BY <1>0, <1>2, <1>4, <1>5, <1>7 DEF u
  <2>4. dl = Append(call.closed, [id |-> Last(fr[n].tbc), declared |-> d])
    BY <1>2 DEF dl
  <2>5. call.closed \in Seq(ClosedType) /\ d \in Nat /\ Closing(fr, call.closed, d)
    BY <1>1
  <2> DEFINE cl == call.closed
  <2> HIDE DEF fr, cl
  <2>c. cl \in Seq(ClosedType) /\ d \in Nat /\ Closing(fr, cl, d)
    BY <2>5 DEF cl
  <2>6. /\ Len(fr) \in Nat \ {0} /\ Len(gr) = Len(fr) + 1
        /\ \A i \in 1..Len(fr) : fr[i].tbc \in Seq(Nat)
        /\ fr[Len(fr)].tbc # <<>>
        /\ \A i \in 1..Len(fr) : i # Len(fr) => gr[i].tbc = fr[i].tbc
        /\ gr[Len(fr)].tbc = Front(fr[Len(fr)].tbc) /\ gr[Len(gr)].tbc = <<>>
    BY <2>1, <2>2, <2>3
  <2>7. dl = Append(cl, [id |-> Last(fr[Len(fr)].tbc), declared |-> d])
    BY <2>1, <2>4 DEF cl
  <2>8. ClosesLast(fr, gr, cl, dl, d)
    BY <2>6, <2>7 DEF ClosesLast
  <2>9. dl \in Seq(ClosedType) /\ Closing(gr, dl, d)
    BY <2>c, <2>8, CloseCloses
  <2> QED
    BY <2>9
<1> QED
  BY <1>1, <1>7, <1>8, <1>9, <1>10, <1>t, Fields, Assembled DEF d, r

(* A frame without open variables is dropped.                                *)
LEMMA PoppedCloses ==
    ASSUME CallsIInv, Left, NEW gr, Len(gr) \in {Depth - 1, Depth},
           \A i \in 1 .. Depth - 1 : gr[i].tbc = call.frames[i].tbc,
           Len(gr) = Depth => gr[Depth].tbc = <<>>
    PROVE  Closing(gr, call.closed, call.declared)
<1> DEFINE fr == call.frames
           n == Depth
<1>t. CallsTypeOK /\ Depth > 0 /\ Closing(fr, call.closed, call.declared)
  BY DEF CallsIInv, Left
<1>1. Len(fr) = n /\ n \in Nat \ {0} /\ fr[n].tbc = <<>>
  BY <1>t, TopOf DEF Left
<1>2. Len(gr) \in {n - 1, n} /\ \A i \in 1 .. n - 1 : gr[i].tbc = fr[i].tbc
  OBVIOUS
<1>3. Len(gr) = n => gr[n].tbc = <<>>
  OBVIOUS
<1> HIDE DEF n, fr
<1>4. /\ \A i \in 1..n : i \in 1 .. n - 1 \/ i = n
      /\ \A i \in 1..Len(gr) : i \in 1 .. n - 1 \/ (i = n /\ Len(gr) = n)
      /\ \A i \in 1 .. n - 1 : i \in 1..Len(gr) /\ i \in 1..n
      /\ Len(gr) \in Nat
  BY <1>1, <1>2
<1>5. \A i \in 1..Len(gr) : (i \in 1..Len(fr) /\ gr[i].tbc = fr[i].tbc) \/ gr[i].tbc = <<>>
  BY <1>1, <1>2, <1>3, <1>4
<1>6. \A i \in 1..Len(fr) : (i \in 1..Len(gr) /\ gr[i].tbc = fr[i].tbc) \/ fr[i].tbc = <<>>
  BY <1>1, <1>2, <1>4
<1>7. Len(fr) \in Nat
  BY <1>1
<1> QED
  BY <1>4, <1>5, <1>6, <1>7, <1>t, ClosingKept

LEMMA ReturnedStep == CallsIInv /\ Returned => CallsIInv'
<1> SUFFICES ASSUME CallsIInv, Returned PROVE CallsIInv'
  OBVIOUS
<1> DEFINE fr == call.frames
           n == Depth
           gr == Front(fr)
           r == call.raised
           ca == call.caught
<1>t. CallsTypeOK /\ Depth > 0 /\ Left
  BY DEF CallsIInv, Returned, Left
<1>1. /\ fr \in Seq(FrameType) /\ Len(fr) = n /\ n \in Nat \ {0}
      /\ gr \in Seq(FrameType) /\ Len(gr) = n - 1
      /\ \A i \in 1 .. n - 1 : gr[i] = fr[i]
      /\ fr[n].exit = Returning
  <2>1. TopFrame.exit = Returning
    BY DEF Returned
  <2> QED
    BY <1>t, <2>1, TopOf, Fields
<1>2. r \in Nat /\ ca \in Seq(Nat) /\ \A i \in 1..Len(fr) : fr[i].exit \in Int
  BY <1>t, Fields
<1>e. call' = [call EXCEPT !.frames = gr]
  BY DEF Returned
<1>o. OnTheWay(fr, r, ca)
  BY DEF CallsIInv
<1>c. Closing(gr, call.closed, call.declared)
  BY <1>1, <1>t, PoppedCloses
<1> HIDE DEF fr, gr, n, r, ca
<1>3. call' = [frames |-> gr, calls |-> call.calls, declared |-> call.declared,
               raised |-> r, closed |-> call.closed, caught |-> ca]
  BY <1>e, <1>t DEF CallsTypeOK, r, ca
<1>4. OnTheWay(gr, r, ca)
  <2>1. /\ Len(gr) \in Nat /\ Len(gr) + 1 = Len(fr)
        /\ \A i \in 1..Len(gr) : gr[i].by = fr[i].by /\ gr[i].exit = fr[i].exit
    BY <1>1
  <2>2. Len(ca) = r
    BY <1>o DEF OnTheWay
  <2>3. \A e \in 1..r : ca[e] = 0 <=> ca[e] = 0 /\ e # fr[Len(fr)].exit
    BY <1>1 DEF Returning
  <2> QED
    BY <1>1, <1>2, <1>o, <2>1, <2>2, <2>3, PopOnTheWay
<1> QED
  BY <1>1, <1>2, <1>3, <1>4, <1>c, <1>t, Fields, Assembled

LEMMA CaughtIs ==
    ASSUME CallsTypeOK, NEW e, NEW n, NEW g
    PROVE  [call EXCEPT !.caught[e] = n, !.frames = g] =
               [frames |-> g, calls |-> call.calls, declared |-> call.declared,
                raised |-> call.raised, closed |-> call.closed,
                caught |-> [call.caught EXCEPT ![e] = n]]
<1> DEFINE ca == call.caught
           da == [ca EXCEPT ![e] = n]
           k == [call EXCEPT !.caught[e] = n, !.frames = g]
<1>1. k = [call EXCEPT !.caught = da, !.frames = g]
  OBVIOUS
<1> HIDE DEF da, k, ca
<1>2. k =
          [frames |-> g, calls |-> call.calls, declared |-> call.declared,
           raised |-> call.raised, closed |-> call.closed, caught |-> da]
  BY <1>1 DEF CallsTypeOK
<1> QED
  BY <1>2 DEF k, da, ca

(* An exception leaves the function, to the frame below, to a handler, or to  *)
(* whoever catches it.                                                      *)
LEMMA ThrownStep == CallsIInv /\ Thrown => CallsIInv'
<1> SUFFICES ASSUME CallsIInv, Thrown PROVE CallsIInv'
  OBVIOUS
<1> DEFINE fr == call.frames
           n == Depth
           e == TopFrame.exit
           below == Front(fr)
           r == call.raised
           ca == call.caught
           da == [ca EXCEPT ![e] = n]
<1>t. CallsTypeOK /\ Depth > 0 /\ Left
  BY DEF CallsIInv, Thrown, Left
<1>e. e > 0
  BY DEF Thrown
<1>1. /\ fr \in Seq(FrameType) /\ Len(fr) = n /\ n \in Nat \ {0}
      /\ below \in Seq(FrameType) /\ Len(below) = n - 1
      /\ \A i \in 1 .. n - 1 : below[i] = fr[i]
      /\ TopFrame = fr[n] /\ e = fr[n].exit /\ e \in Int
  BY <1>t, TopOf, Fields
<1>2. r \in Nat /\ ca \in Seq(Nat) /\ \A i \in 1..Len(fr) : fr[i].exit \in Int
  BY <1>t, Fields
<1>o. OnTheWay(fr, r, ca)
  BY DEF CallsIInv
<1>3. Len(ca) = r /\ e \in 1..r
  <2>1. n \in 1..Len(fr)
    BY <1>1
  <2> QED
    BY <1>1, <1>2, <1>e, <1>o, <2>1 DEF OnTheWay
<1>4. /\ da \in Seq(Nat) /\ Len(da) = r /\ da[e] = n
      /\ \A x \in 1..r : x # e => da[x] = ca[x]
  <2>1. e \in 1..Len(ca) /\ n \in Nat /\ ca \in Seq(Nat)
    BY <1>1, <1>2, <1>3
  <2> HIDE DEF ca, e, n
  <2> QED
    BY <1>3, <2>1, ExceptSeq
<1>5. \A x \in 1..r : da[x] = 0 <=> ca[x] = 0 /\ x # fr[Len(fr)].exit
  <2> HIDE DEF fr, n, e, ca, da, r
  <2> QED
    BY <1>1, <1>4
<1>6. OnTheWay(below, r, da)
  <2>1. /\ Len(below) \in Nat /\ Len(below) + 1 = Len(fr)
        /\ \A i \in 1..Len(below) : below[i].by = fr[i].by /\ below[i].exit = fr[i].exit
    <3> HIDE DEF fr, n, below
    <3> QED
      BY <1>1
  <2> HIDE DEF fr, n, e, ca, da, r, below
  <2> QED
    BY <1>1, <1>2, <1>4, <1>5, <1>o, <2>1, PopOnTheWay
<1>c. Closing(below, call.closed, call.declared)
  BY <1>1, <1>t, PoppedCloses
<1>h. \A g : call' = [call EXCEPT !.caught[e] = n, !.frames = g] =>
          call' = [frames |-> g, calls |-> call.calls, declared |-> call.declared,
                   raised |-> r, closed |-> call.closed, caught |-> da]
  <2> HIDE DEF e, n
  <2> QED
    BY <1>t, CaughtIs
<1>7. CASE TopFrame.by = "call" /\ n > 1
  <2> DEFINE m == n - 1
             o == below[m]
             f == [o EXCEPT !.exit = e]
             gr == [below EXCEPT ![m] = f]
  <2>e. call' = [call EXCEPT !.frames = gr]
    BY <1>7 DEF Thrown
  <2>1. m \in Nat \ {0} /\ m \in 1..m /\ Len(below) = m /\ m + 1 = n
    BY <1>1, <1>7
  <2>2. o \in FrameType
    <3>1. m \in 1..Len(below)
      BY <2>1
    <3> QED
      BY <1>1, <3>1, ElementOfSeq
  <2>3. f \in FrameType /\ f.by = o.by /\ f.tbc = o.tbc /\ f.exit = e
    <3>1. f = [o EXCEPT !.exit = e]
      OBVIOUS
    <3> HIDE DEF f, o, e
    <3>2. f = [by |-> o.by, tbc |-> o.tbc, exit |-> e]
      BY <2>2, <3>1 DEF FrameType
    <3>3. o.by \in Callers \cup {"guard", "handler"} /\ o.tbc \in Seq(Nat)
      BY <2>2 DEF FrameType
    <3>4. f \in FrameType
      BY <1>1, <3>2, <3>3 DEF FrameType
    <3> QED
      BY <3>2, <3>4
  <2>g. gr = [below EXCEPT ![m] = f]
    OBVIOUS
  <2>4. /\ gr \in Seq(FrameType) /\ Len(gr) = m /\ gr[m] = f
        /\ \A i \in 1..m : i # m => gr[i] = below[i]
    <3>1. below \in Seq(FrameType) /\ m = Len(below) /\ m # 0 /\ f \in FrameType
      BY <1>1, <2>1, <2>3
    <3> HIDE DEF below, m, f, gr
    <3> QED
      BY <2>g, <3>1, TopSet
  <2> HIDE DEF gr
  <2>5. call' = [frames |-> gr, calls |-> call.calls, declared |-> call.declared,
                 raised |-> r, closed |-> call.closed, caught |-> ca]
    BY <2>e, <1>t DEF CallsTypeOK
  <2> HIDE DEF f, m, n, fr, below
  <2>6. /\ \A i \in 1..m : i # m => gr[i] = fr[i]
        /\ gr[m].by = fr[m].by /\ gr[m].tbc = fr[m].tbc /\ gr[m].exit = fr[n].exit
    <3>1. \A i \in 1..m : below[i] = fr[i]
      BY <1>1 DEF m
    <3> QED
      BY <1>1, <2>1, <2>3, <2>4, <3>1
  <2>7. OnTheWay(gr, r, ca)
    <3>1. /\ Len(gr) \in Nat \ {0} /\ Len(gr) + 1 = Len(fr)
          /\ fr[Len(fr)].exit > 0 /\ fr[Len(fr)].by # "guard"
      BY <1>1, <1>7, <1>e, <2>1, <2>4
    <3>2. /\ \A i \in 1..Len(gr) : gr[i].by = fr[i].by
          /\ \A i \in 1..Len(gr) : i # Len(gr) => gr[i].exit = fr[i].exit
          /\ gr[Len(gr)].exit = fr[Len(fr)].exit
      BY <1>1, <2>4, <2>6
    <3> HIDE DEF r, ca
    <3> QED
      BY <1>1, <1>2, <1>o, <3>1, <3>2, PassOnTheWay
  <2>8. Closing(gr, call.closed, call.declared)
    <3>1. \A i \in 1 .. n - 1 : gr[i].tbc = fr[i].tbc
      BY <2>6 DEF m
    <3>2. Len(gr) = n - 1 /\ n - 1 # n
      BY <1>1, <2>4 DEF m
    <3> QED
      BY <1>t, <3>1, <3>2, PoppedCloses DEF n, fr
  <2> QED
    BY <1>2, <1>t, <2>4, <2>5, <2>7, <2>8, Fields, Assembled
<1>8. CASE TopFrame.by = "xpcall"
  <2> DEFINE f == Frame("handler")
             gr == Append(below, f)
  <2>e. call' = [call EXCEPT !.caught[e] = n, !.frames = gr]
    <3>1. call' = [[call EXCEPT !.caught[e] = n, !.frames = below] EXCEPT !.frames = gr]
      BY <1>8 DEF Thrown, Caught
    <3> DEFINE k == [call EXCEPT !.caught[e] = n, !.frames = below]
    <3>2. k \in [frames : Seq(FrameType), calls : Nat, declared : Nat, raised : Nat,
                 closed : Seq(ClosedType), caught : Seq(Nat)]
      <4> HIDE DEF e, n, below
      <4> QED
        BY <1>1, <1>4, <1>t DEF CallsTypeOK
    <3> QED
      BY <3>1
  <2>1. f \in FrameType /\ f.tbc = <<>> /\ f.exit = Running
    BY NewFrame
  <2>2. call' = [frames |-> gr, calls |-> call.calls, declared |-> call.declared,
                 raised |-> r, closed |-> call.closed, caught |-> da]
    BY <1>h, <2>e
  <2>3. /\ gr \in Seq(FrameType) /\ Len(gr) = Len(below) + 1 /\ gr[Len(below) + 1] = f
        /\ \A i \in 1..Len(below) : gr[i] = below[i]
    <3>1. f \in FrameType /\ below \in Seq(FrameType) /\ gr = Append(below, f)
      BY <1>1, <2>1
    <3> HIDE DEF f, below, gr
    <3> QED
      BY <3>1, PushFrame
  <2> HIDE DEF gr, f, below, n, fr
  <2>4. OnTheWay(gr, r, da)
    <3>1. \A i \in 1..Len(below) : below[i].exit \in Int
      <4>1. SUFFICES ASSUME NEW i \in 1..Len(below) PROVE below[i].exit \in Int
        OBVIOUS
      <4>2. i \in 1 .. n - 1 /\ i \in 1..Len(fr)
        BY <1>1, <4>1
      <4> QED
        BY <1>1, <1>2, <4>2
    <3>2. /\ Stays(below, gr, Len(below)) /\ gr[Len(gr)].exit = Running
      BY <2>1, <2>3, <3>1 DEF Stays
    <3>3. Len(below) > 0 => gr[Len(below)].exit = Running
      <4>1. SUFFICES ASSUME Len(below) > 0 PROVE gr[Len(below)].exit = Running
        OBVIOUS
      <4>2. n - 1 \in 1 .. Len(fr) - 1 /\ fr[n - 1 + 1].by # "guard" /\ n - 1 = Len(below)
        BY <1>1, <1>8, <4>1
      <4>3. fr[n - 1].exit = Running
        BY <1>o, <4>2 DEF OnTheWay
      <4>4. gr[Len(below)] = fr[n - 1]
        BY <1>1, <2>3, <4>2
      <4> QED
        BY <4>3, <4>4
    <3> HIDE DEF r, da
    <3> QED
      BY <1>1, <1>2, <1>6, <2>3, <3>1, <3>2, <3>3, PushOnTheWay
  <2>5. Closing(gr, call.closed, call.declared)
    <3>1. \A i \in 1 .. n - 1 : gr[i].tbc = fr[i].tbc
      BY <1>1, <2>3
    <3>2. Len(gr) = n /\ gr[n].tbc = <<>>
      BY <1>1, <2>1, <2>3
    <3> QED
      BY <1>t, <3>1, <3>2, PoppedCloses DEF n, fr
  <2> QED
    BY <1>2, <1>4, <1>t, <2>2, <2>3, <2>4, <2>5, Fields, Assembled
<1>9. CASE ~(TopFrame.by = "call" /\ n > 1) /\ TopFrame.by # "xpcall"
  <2>1. call' = [call EXCEPT !.caught[e] = n, !.frames = below]
    BY <1>9 DEF Thrown, Caught
  <2>2. call' = [frames |-> below, calls |-> call.calls, declared |-> call.declared,
                 raised |-> r, closed |-> call.closed, caught |-> da]
    BY <1>h, <2>1
  <2> HIDE DEF below, da
  <2> QED
    BY <1>1, <1>2, <1>4, <1>6, <1>c, <1>t, <2>2, Fields, Assembled
<1> QED
  BY <1>7, <1>8, <1>9

LEMMA CallsIInvHolds == CallsSpec => []CallsIInv
<1>1. CallsInit => CallsIInv
  BY InitCalls
<1>2. CallsIInv /\ [CallsNext]_call => CallsIInv'
  <2>1. ASSUME CallsIInv, UNCHANGED call PROVE CallsIInv'
    BY <2>1 DEF CallsIInv, CallsTypeOK
  <2>2. ASSUME CallsIInv, CallsNext PROVE CallsIInv'
    BY <2>2, CallStep, DeclareStep, LeaveStep, RaiseStep, CloseStep, ReturnedStep, ThrownStep
       DEF CallsNext, Unwinding
  <2> QED
    BY <2>1, <2>2
<1> QED
  BY <1>1, <1>2, PTL DEF CallsSpec

(* No error on its way is lost or replaced, however deep the calls and        *)
(* whatever the functions that close variables raise and catch meanwhile.   *)
THEOREM NoErrorLost == CallsSpec => []ErrorsKept
<1>1. CallsIInv => ErrorsKept
  BY DEF CallsIInv, OnTheWay, ErrorsKept, Depth
<1> QED
  BY <1>1, CallsIInvHolds, PTL

(* The sets that ClosedInReverse speaks of, as Closing sees them. *)
LEMMA SetsOf ==
    ASSUME CallsTypeOK
    PROVE  /\ \A e : e \in ClosedIds <=> Closed(call.closed, e)
           /\ \A e : e \in UNION {OpenIn(i) : i \in 1..Depth} <=> Opened(call.frames, e)
           /\ \A e : Opened(call.frames, e) \/ Closed(call.closed, e) => e \in Nat
<1> DEFINE fr == call.frames
           cl == call.closed
<1>1. fr \in Seq(FrameType) /\ cl \in Seq(ClosedType)
  BY DEF CallsTypeOK
<1>2. DOMAIN cl = 1..Len(cl) /\ \A p \in 1..Len(cl) : cl[p] \in ClosedType
  BY <1>1, LenProperties, ElementOfSeq
<1>3. \A i \in 1..Len(fr) : /\ fr[i].tbc \in Seq(Nat)
                            /\ DOMAIN fr[i].tbc = 1..Len(fr[i].tbc)
                            /\ \A p \in 1..Len(fr[i].tbc) : fr[i].tbc[p] \in Nat
  <2>1. SUFFICES ASSUME NEW i \in 1..Len(fr)
                 PROVE  /\ fr[i].tbc \in Seq(Nat) /\ DOMAIN fr[i].tbc = 1..Len(fr[i].tbc)
                        /\ \A p \in 1..Len(fr[i].tbc) : fr[i].tbc[p] \in Nat
    OBVIOUS
  <2> DEFINE s == fr[i].tbc
  <2>2. s \in Seq(Nat)
    <3>1. fr[i] \in FrameType
      BY <1>1, ElementOfSeq
    <3> QED
      BY <3>1 DEF FrameType
  <2>3. s \in Seq(Nat) /\ DOMAIN s = 1..Len(s) /\ \A p \in 1..Len(s) : s[p] \in Nat
    <3> HIDE DEF s
    <3> QED
      BY <2>2, LenProperties, ElementOfSeq
  <2> QED
    BY <2>3
<1>4. \A e : e \in ClosedIds <=> Closed(cl, e)
  BY <1>2 DEF ClosedIds, Closed
<1>5. \A e : e \in UNION {OpenIn(i) : i \in 1..Depth} <=> Opened(fr, e)
  <2>1. \A e : e \in UNION {OpenIn(i) : i \in 1..Depth} <=>
               \E i \in 1..Len(fr) : e \in OpenIn(i)
    BY DEF Depth
  <2>2. \A i \in 1..Len(fr) : \A e :
            e \in OpenIn(i) <=> \E p \in 1..Len(fr[i].tbc) : fr[i].tbc[p] = e
    BY <1>3 DEF OpenIn
  <2> QED
    BY <2>1, <2>2 DEF Opened
<1> QED
  BY <1>2, <1>3, <1>4, <1>5 DEF Closed, Opened, ClosedType

(* Each variable is closed once, and after all those declared later. *)
THEOREM EachClosedInReverse == CallsSpec => []ClosedInReverse
<1>1. CallsIInv => ClosedInReverse
  <2> SUFFICES ASSUME CallsIInv PROVE ClosedInReverse
    OBVIOUS
  <2> DEFINE cl == call.closed
             ids == [p \in 1..Len(cl) |-> cl[p].id]
  <2>1. CallsTypeOK /\ Closing(call.frames, cl, call.declared)
    BY DEF CallsIInv
  <2>2. cl \in Seq(ClosedType) /\ Len(cl) \in Nat /\ DOMAIN cl = 1..Len(cl)
    BY <2>1, LenProperties DEF CallsTypeOK
  <2>3. Len(cl) = Cardinality(ClosedIds)
    <3>1. ids \in Bijection(1..Len(cl), ClosedIds)
      <4>1. ids \in [1..Len(cl) -> ClosedIds]
        BY <2>2 DEF ClosedIds
      <4>2. \A p, q \in 1..Len(cl) : ids[p] = ids[q] => p = q
        BY <2>1 DEF Closing
      <4>3. \A e \in ClosedIds : \E p \in 1..Len(cl) : ids[p] = e
        BY <2>2 DEF ClosedIds
      <4>4. DOMAIN ids = 1..Len(cl)
        OBVIOUS
      <4> DEFINE dom == 1..Len(cl)
      <4> HIDE DEF ids, cl, dom
      <4>5. IsInjective(ids)
        BY <4>2, <4>4 DEF IsInjective, dom
      <4>6. ids \in Injection(1..Len(cl), ClosedIds)
        BY <4>1, <4>5 DEF Injection
      <4>7. ids \in Surjection(1..Len(cl), ClosedIds)
        BY <4>1, <4>3 DEF Surjection
      <4> QED
        BY <4>6, <4>7 DEF Bijection
    <3>2. IsFiniteSet(1..Len(cl)) /\ Cardinality(1..Len(cl)) = Len(cl)
      <4> DEFINE n == Len(cl)
      <4>1. n \in Nat /\ n \in Int /\ 1 \in Int
        BY <2>2
      <4> HIDE DEF n
      <4>3. /\ IsFiniteSet(1..n)
            /\ Cardinality(1..n) = IF 1 > n THEN 0 ELSE n - 1 + 1
        BY <4>1, FS_Interval
      <4>2. IsFiniteSet(1..n) /\ Cardinality(1..n) = n
        BY <4>1, <4>3
      <4> QED
        BY <4>2 DEF n
    <3>3. ExistsBijection(1..Len(cl), ClosedIds)
      BY <3>1 DEF ExistsBijection
    <3> QED
      BY <3>2, <3>3, FS_Bijection
  <2>4. (1 .. call.declared) = ClosedIds \cup UNION {OpenIn(i) : i \in 1..Depth}
    <3> DEFINE opened == UNION {OpenIn(i) : i \in 1..Depth}
    <3>1. \A e \in Nat : e \in 1..call.declared <=>
                         Opened(call.frames, e) \/ Closed(cl, e)
      BY <2>1 DEF Closing
    <3>2. \A e : e \in 1..call.declared => e \in Nat
      BY <2>1 DEF CallsTypeOK
    <3>3. /\ \A e : e \in ClosedIds <=> Closed(cl, e)
          /\ \A e : e \in opened <=> Opened(call.frames, e)
          /\ \A e : Opened(call.frames, e) \/ Closed(cl, e) => e \in Nat
      BY <2>1, SetsOf
    <3> HIDE DEF opened, cl
    <3>4. (1 .. call.declared) = ClosedIds \cup opened
      BY <3>1, <3>2, <3>3
    <3> QED
      BY <3>4 DEF opened
  <2> QED
    BY <2>1, <2>2, <2>3, <2>4 DEF ClosedInReverse, Closing
<1> QED
  BY <1>1, CallsIInvHolds, PTL
=============================================================================
