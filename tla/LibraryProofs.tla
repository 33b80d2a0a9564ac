---------------------------- MODULE LibraryProofs ----------------------------
(***************************************************************************)
(* Proofs about two libraries that share no state.  Output: any streams, any *)
(* number of slots and any size of a batch.  require: any names and          *)
(* environments and any nesting of loaders.                                 *)
(***************************************************************************)
EXTENDS Files, Require, SequenceTheorems, WellFoundedInduction, TLAPS

USE FilesAssumption, RequireAssumption

Slot == [fp : Stream \cup {NoStream}, bytes : Seq(Nat), mode : {FullMode, LineMode, NoMode}]

FilesState ==
    [open : [Stream -> BOOLEAN], written : [Stream -> Nat], sent : [Stream -> Seq(Nat)],
     slots : [1..BatchSlots -> Slot], ended : BOOLEAN]

(* No two slots batch for the same stream. *)
Distinct(f) ==
    \A i, j \in 1..BatchSlots :
        f.slots[i].fp = f.slots[j].fp /\ f.slots[i].fp # NoStream => i = j

Good(f) == f \in FilesState /\ Distinct(f)

(* What has reached libc and what is on its way. *)
Out(f, s) == f.sent[s] \o Pending(f, s)

(* A file whose batch is switched off has nothing in it.                     *)
Direct(f) == \A i \in 1..BatchSlots : f.slots[i].mode = NoMode => f.slots[i].bytes = <<>>

SlotsOpen == \A i \in 1..BatchSlots : files.slots[i].fp = NoStream \/ files.open[files.slots[i].fp]

Drained == files.ended => \A i \in 1..BatchSlots : files.slots[i].bytes = <<>>

FilesIInv == Good(files) /\ Direct(files) /\ SlotsOpen /\ Drained /\ BytesInOrder

-----------------------------------------------------------------------------
LEMMA MinIn ==
    ASSUME NEW S \in SUBSET Nat, S # {}
    PROVE  Min(S) \in S
<1> DEFINE R == OpToRel(<, Nat)
<1>1. IsWellFoundedOn(R, Nat)
  BY NatLessThanWellFounded
<1>2. \A y, x \in Nat : <<y, x>> \in R <=> y < x
  BY DEF OpToRel
<1> HIDE DEF R
<1>3. PICK x \in S : \A y \in S : ~(<<y, x>> \in R)
  BY <1>1, WFMin
<1>4. ASSUME NEW y \in S PROVE x <= y
  <2>1. x \in Nat /\ y \in Nat
    OBVIOUS
  <2>2. ~(y < x)
    BY <1>2, <1>3, <2>1, Zenon
  <2> QED
    BY <2>1, <2>2
<1> QED
  BY <1>4 DEF Min

LEMMA Associative ==
    ASSUME NEW a \in Seq(Nat), NEW b \in Seq(Nat), NEW c \in Seq(Nat)
    PROVE  (a \o b) \o c = a \o (b \o c)
<1> DEFINE lhs == (a \o b) \o c
           rhs == a \o (b \o c)
<1>1. lhs \in Seq(Nat) /\ rhs \in Seq(Nat)
  OBVIOUS
<1>2. Len(lhs) = Len(rhs)
  OBVIOUS
<1>3. \A i \in 1..Len(lhs) : lhs[i] = rhs[i]
  BY SMTT(30)
<1> HIDE DEF lhs, rhs
<1>4. lhs = rhs
  BY <1>1, <1>2, <1>3, SeqEqual
<1> QED
  BY <1>4 DEF lhs, rhs

(* outbuf_find finds the slot of a stream. *)
LEMMA SlotFound ==
    ASSUME NEW f, Good(f), NEW s \in Stream
    PROVE  /\ SlotOf(f, s) \in 0..BatchSlots
           /\ SlotOf(f, s) # 0 => f.slots[SlotOf(f, s)].fp = s
           /\ \A i \in 1..BatchSlots : f.slots[i].fp = s => SlotOf(f, s) = i
<1> DEFINE X == {i \in 1..BatchSlots : f.slots[i].fp = s}
<1>1. CASE X = {}
  <2>1. SlotOf(f, s) = 0
    BY <1>1 DEF SlotOf, Max
  <2> QED
    BY <1>1, <2>1
<1>2. CASE X # {}
  <2>1. PICK i \in X : TRUE
    BY <1>2
  <2>2. X = {i}
    BY <2>1 DEF Good, Distinct
  <2>3. SlotOf(f, s) = i
    BY <2>1, <2>2 DEF SlotOf, Max
  <2> QED
    BY <2>1, <2>2, <2>3
<1> QED
  BY <1>1, <1>2

(* A step that moves bytes leaves the slots to their streams.                *)
LEMMA SameSlots ==
    ASSUME NEW f, Good(f), NEW g, g \in FilesState,
           \A i \in 1..BatchSlots : g.slots[i].fp = f.slots[i].fp
    PROVE  Good(g) /\ \A s \in Stream : SlotOf(g, s) = SlotOf(f, s)
BY DEF Good, Distinct, SlotOf

(* The bytes of a stream without a slot, and of one with slot i. *)
LEMMA PendingOf ==
    ASSUME NEW f, Good(f), NEW s \in Stream
    PROVE  /\ Pending(f, s) \in Seq(Nat) /\ f.sent[s] \in Seq(Nat)
           /\ Out(f, s) \in Seq(Nat)
           /\ SlotOf(f, s) = 0 => Pending(f, s) = <<>>
           /\ \A i \in 1..BatchSlots : SlotOf(f, s) = i => Pending(f, s) = f.slots[i].bytes
<1>1. f.sent[s] \in Seq(Nat)
  BY DEF Good, FilesState
<1>2. Pending(f, s) \in Seq(Nat)
  <2>1. CASE SlotOf(f, s) = 0
    BY <2>1 DEF Pending
  <2>2. CASE SlotOf(f, s) # 0
    <3>1. SlotOf(f, s) \in 1..BatchSlots
      BY <2>2, SlotFound
    <3>2. f.slots[SlotOf(f, s)] \in Slot
      BY <3>1 DEF Good, FilesState
    <3> QED
      BY <2>2, <3>2 DEF Pending, Slot
  <2> QED
    BY <2>1, <2>2
<1>3. Out(f, s) \in Seq(Nat)
  BY <1>1, <1>2 DEF Out
<1> QED
  BY <1>1, <1>2, <1>3 DEF Pending

(* A step that moves bytes leaves the slots to their streams, and the rest.  *)
Moved(f, g) ==
    /\ Good(g) /\ g.open = f.open /\ g.written = f.written /\ g.ended = f.ended
    /\ \A j \in 1..BatchSlots :
          g.slots[j].fp = f.slots[j].fp /\ g.slots[j].mode = f.slots[j].mode
    /\ \A u \in Stream : SlotOf(g, u) = SlotOf(f, u)

(* The other streams keep what they have. *)
Elsewhere(f, g, s) == \A u \in Stream \ {s} : Out(g, u) = Out(f, u)

(* The bytes of a slot are replaced, and those of its stream in libc.        *)
WithBytes(f, s, i, sent, bytes) == [f EXCEPT !.sent[s] = sent, !.slots[i].bytes = bytes]

LEMMA BytesStep ==
    ASSUME NEW f, Good(f), NEW s \in Stream, SlotOf(f, s) # 0,
           NEW sent \in Seq(Nat), NEW bytes \in Seq(Nat)
    PROVE  LET g == WithBytes(f, s, SlotOf(f, s), sent, bytes)
           IN  /\ Moved(f, g) /\ g.sent[s] = sent /\ Pending(g, s) = bytes
               /\ Elsewhere(f, g, s)
               /\ \A j \in 1..BatchSlots : j # SlotOf(f, s) => g.slots[j] = f.slots[j]
<1> DEFINE i == SlotOf(f, s)
           g == WithBytes(f, s, i, sent, bytes)
<1>0. i \in 1..BatchSlots
  BY SlotFound
<1>i. i = SlotOf(f, s) /\ g = WithBytes(f, s, i, sent, bytes)
  OBVIOUS
<1> HIDE DEF g, i
<1> DEFINE slots == [f.slots EXCEPT ![i] = [@ EXCEPT !.bytes = bytes]]
           sents == [f.sent EXCEPT ![s] = sent]
<1>1. f \in FilesState /\ f.slots \in [1..BatchSlots -> Slot] /\ f.sent \in [Stream -> Seq(Nat)]
  BY DEF Good, FilesState
<1>2. /\ slots \in [1..BatchSlots -> Slot]
      /\ \A j \in 1..BatchSlots : /\ slots[j].fp = f.slots[j].fp /\ slots[j].mode = f.slots[j].mode
                                  /\ slots[j].bytes = IF j = i THEN bytes ELSE f.slots[j].bytes
  BY <1>0, <1>1 DEF Slot
<1>3. sents \in [Stream -> Seq(Nat)] /\ sents[s] = sent /\ \A u \in Stream \ {s} : sents[u] = f.sent[u]
  BY <1>1
<1>4. g = [open |-> f.open, written |-> f.written, sent |-> sents, slots |-> slots,
           ended |-> f.ended]
  BY <1>1, <1>i DEF FilesState, WithBytes
<1> HIDE DEF slots, sents
<1>5. g \in FilesState
  BY <1>1, <1>2, <1>3, <1>4 DEF FilesState
<1>6. Good(g) /\ \A u \in Stream : SlotOf(g, u) = SlotOf(f, u)
  BY <1>2, <1>4, <1>5, SameSlots
<1>7. Pending(g, s) = bytes
  BY <1>0, <1>i, <1>2, <1>4, <1>6 DEF Pending
<1>8. ASSUME NEW u \in Stream \ {s} PROVE Pending(g, u) = Pending(f, u)
  <2>1. SlotOf(f, u) # i /\ SlotOf(f, u) \in 0..BatchSlots
    <3>1. f.slots[i].fp = s
      BY <1>i, SlotFound
    <3>2. SlotOf(f, u) \in 0..BatchSlots /\ (SlotOf(f, u) # 0 => f.slots[SlotOf(f, u)].fp = u)
      BY SlotFound
    <3>3. i # 0
      BY <1>0
    <3> QED
      BY <3>1, <3>2, <3>3
  <2>2. SlotOf(g, u) = SlotOf(f, u)
    BY <1>6
  <2>3. CASE SlotOf(f, u) = 0
    BY <2>2, <2>3 DEF Pending
  <2>4. CASE SlotOf(f, u) # 0
    <3>1. SlotOf(f, u) \in 1..BatchSlots
      BY <2>1, <2>4
    <3>2. slots[SlotOf(f, u)].bytes = f.slots[SlotOf(f, u)].bytes
      BY <1>2, <2>1, <3>1
    <3>3. g.slots = slots
      BY <1>4
    <3>4. Pending(f, u) = f.slots[SlotOf(f, u)].bytes
      BY <2>4 DEF Pending
    <3>5. Pending(g, u) = g.slots[SlotOf(f, u)].bytes
      BY <2>2, <2>4 DEF Pending
    <3> QED
      BY <3>2, <3>3, <3>4, <3>5
  <2> QED
    BY <2>3, <2>4
<1>9. Moved(f, g)
  BY <1>2, <1>4, <1>6 DEF Moved
<1>10. Elsewhere(f, g, s)
  <2>1. ASSUME NEW u \in Stream \ {s} PROVE Out(g, u) = Out(f, u)
    <3>1. g.sent[u] = f.sent[u]
      BY <1>3, <1>4
    <3> QED
      BY <1>8, <3>1, Zenon DEF Out
  <2> QED
    BY <2>1 DEF Elsewhere
<1>11. \A j \in 1..BatchSlots : j # i => g.slots[j] = f.slots[j]
  BY <1>0, <1>1, <1>4 DEF slots
<1>12. g.sent[s] = sent
  BY <1>3, <1>4
<1> QED
  BY <1>i, <1>7, <1>9, <1>10, <1>11, <1>12

(* outbuf_flush_fp *)
LEMMA FlushedOut ==
    ASSUME NEW f, Good(f), NEW s \in Stream
    PROVE  LET g == Flushed(f, s)
           IN  /\ Moved(f, g) /\ Pending(g, s) = <<>> /\ Out(g, s) = Out(f, s)
               /\ Elsewhere(f, g, s)
               /\ \A j \in 1..BatchSlots : g.slots[j] = f.slots[j] \/ g.slots[j].bytes = <<>>
<1> DEFINE g == Flushed(f, s)
<1>1. CASE SlotOf(f, s) = 0
  <2>1. g = f /\ Pending(f, s) = <<>>
    BY <1>1, PendingOf DEF Flushed
  <2> QED
    BY <2>1 DEF Moved, Elsewhere
<1>2. CASE SlotOf(f, s) # 0
  <2> DEFINE sent == f.sent[s] \o Pending(f, s)
             none == <<>>
  <2>1. sent \in Seq(Nat) /\ none \in Seq(Nat)
    BY PendingOf DEF Out
  <2>2. g = WithBytes(f, s, SlotOf(f, s), sent, none)
    BY <1>2 DEF Flushed, WithBytes
  <2>3. sent = Out(f, s) /\ none = <<>>
    BY DEF Out
  <2> HIDE DEF sent, none, g
  <2>4. /\ Moved(f, g) /\ g.sent[s] = sent /\ Pending(g, s) = none
        /\ Elsewhere(f, g, s)
        /\ \A j \in 1..BatchSlots : j # SlotOf(f, s) => g.slots[j] = f.slots[j]
    BY <1>2, <2>1, <2>2, BytesStep
  <2>5. Out(g, s) = Out(f, s)
    BY <2>1, <2>3, <2>4, ConcatEmptySeq DEF Out
  <2>6. g.slots[SlotOf(f, s)].bytes = <<>>
    <3>1. SlotOf(g, s) = SlotOf(f, s)
      BY <2>4 DEF Moved
    <3> QED
      BY <1>2, <2>3, <2>4, <3>1 DEF Pending
  <2> QED
    BY <2>3, <2>4, <2>5, <2>6 DEF g
<1> QED
  BY <1>1, <1>2

(* fwrite, behind what is pending. *)
LEMMA SentOut ==
    ASSUME NEW f, Good(f), NEW s \in Stream, Pending(f, s) = <<>>, NEW bytes \in Seq(Nat)
    PROVE  LET g == Sent(f, s, bytes)
           IN  /\ Moved(f, g) /\ g.slots = f.slots
               /\ Out(g, s) = Out(f, s) \o bytes /\ Elsewhere(f, g, s)
<1> DEFINE g == Sent(f, s, bytes)
<1> DEFINE all == f.sent[s] \o bytes
           sent == [f.sent EXCEPT ![s] = all]
<1>a. g = [f EXCEPT !.sent[s] = all]
  BY DEF Sent
<1>1. f \in FilesState /\ f.sent \in [Stream -> Seq(Nat)] /\ f.sent[s] \in Seq(Nat)
  BY DEF Good, FilesState
<1>2. /\ sent \in [Stream -> Seq(Nat)] /\ sent[s] = f.sent[s] \o bytes
      /\ \A u \in Stream \ {s} : sent[u] = f.sent[u]
  BY <1>1
<1> HIDE DEF all, g
<1>3. g = [open |-> f.open, written |-> f.written, sent |-> sent, slots |-> f.slots,
           ended |-> f.ended]
  BY <1>1, <1>a DEF FilesState
<1> HIDE DEF sent
<1>4. g \in FilesState
  BY <1>1, <1>2, <1>3 DEF FilesState
<1>5. Good(g) /\ \A u \in Stream : SlotOf(g, u) = SlotOf(f, u)
  BY <1>3, <1>4, SameSlots
<1>6. \A u \in Stream : Pending(g, u) = Pending(f, u)
  BY <1>3, <1>5 DEF Pending
<1>7. Out(g, s) = Out(f, s) \o bytes
  <2>1. g.sent[s] = f.sent[s] \o bytes /\ Pending(g, s) = <<>>
    BY <1>2, <1>3, <1>6
  <2>2. f.sent[s] \o bytes \in Seq(Nat)
    BY <1>1
  <2>3. Out(f, s) = f.sent[s]
    BY <1>1, ConcatEmptySeq DEF Out
  <2>4. Out(g, s) = f.sent[s] \o bytes
    BY <2>1, <2>2, ConcatEmptySeq DEF Out
  <2> QED
    BY <2>3, <2>4
<1>8. ASSUME NEW u \in Stream \ {s} PROVE Out(g, u) = Out(f, u)
  <2>1. g.sent[u] = f.sent[u] /\ Pending(g, u) = Pending(f, u)
    BY <1>2, <1>3, <1>6
  <2> QED
    BY <2>1, Zenon DEF Out
<1>9. Moved(f, g)
  BY <1>3, <1>5 DEF Moved
<1> QED
  BY <1>3, <1>7, <1>8, <1>9 DEF g, Elsewhere

(* memcpy behind the bytes of a batch. *)
Kept(f, s, bytes) == [f EXCEPT !.slots[SlotOf(f, s)].bytes = @ \o bytes]

LEMMA KeptOut ==
    ASSUME NEW f, Good(f), NEW s \in Stream, SlotOf(f, s) # 0, NEW bytes \in Seq(Nat)
    PROVE  LET g == Kept(f, s, bytes)
           IN  /\ Moved(f, g) /\ Out(g, s) = Out(f, s) \o bytes /\ Elsewhere(f, g, s)
               /\ \A j \in 1..BatchSlots : j # SlotOf(f, s) => g.slots[j] = f.slots[j]
<1> DEFINE g == Kept(f, s, bytes)
           all == Pending(f, s) \o bytes
<1>1. /\ Pending(f, s) \in Seq(Nat) /\ f.sent[s] \in Seq(Nat)
      /\ Pending(f, s) = f.slots[SlotOf(f, s)].bytes /\ SlotOf(f, s) \in 1..BatchSlots
  BY PendingOf, SlotFound
<1>2. all \in Seq(Nat)
  BY <1>1
<1> DEFINE i == SlotOf(f, s)
<1>i. i = SlotOf(f, s)
  OBVIOUS
<1>g. g = [f EXCEPT !.slots[i].bytes = all]
  BY <1>1 DEF Kept
<1> HIDE DEF all, i, g
<1>3. g = WithBytes(f, s, i, f.sent[s], all)
  <2>1. f \in FilesState /\ f.sent \in [Stream -> Seq(Nat)] /\ f.slots \in [1..BatchSlots -> Slot]
    BY DEF Good, FilesState
  <2>2. [f.sent EXCEPT ![s] = f.sent[s]] = f.sent
    BY <2>1
  <2> DEFINE slots == [f.slots EXCEPT ![i] = [@ EXCEPT !.bytes = all]]
             sent == f.sent[s]
  <2>3. g = [open |-> f.open, written |-> f.written, sent |-> f.sent, slots |-> slots,
             ended |-> f.ended]
    BY <1>g, <2>1 DEF FilesState
  <2>s. sent = f.sent[s] /\ sent \in Seq(Nat)
    BY <1>1
  <2> DEFINE w == WithBytes(f, s, i, sent, all)
             sents == [f.sent EXCEPT ![s] = sent]
  <2>w. w = WithBytes(f, s, i, sent, all)
    OBVIOUS
  <2> HIDE DEF sent, w
  <2>4. w = [open |-> f.open, written |-> f.written, sent |-> sents, slots |-> slots,
             ended |-> f.ended]
    BY <2>1, <2>w DEF FilesState, WithBytes
  <2> QED
    BY <2>2, <2>s, <2>3, <2>4, <2>w
<1>4. /\ Moved(f, g) /\ g.sent[s] = f.sent[s] /\ Pending(g, s) = all /\ Elsewhere(f, g, s)
      /\ \A j \in 1..BatchSlots : j # SlotOf(f, s) => g.slots[j] = f.slots[j]
  BY <1>1, <1>2, <1>i, <1>3, BytesStep
<1>5. Out(g, s) = Out(f, s) \o bytes
  <2>1. Out(g, s) = f.sent[s] \o (Pending(f, s) \o bytes)
    BY <1>4 DEF Out, all
  <2>2. Out(f, s) = f.sent[s] \o Pending(f, s)
    BY DEF Out
  <2>3. (f.sent[s] \o Pending(f, s)) \o bytes = f.sent[s] \o (Pending(f, s) \o bytes)
    BY <1>1, Associative, Zenon
  <2> QED
    BY <2>1, <2>2, <2>3
<1> QED
  BY <1>4, <1>5 DEF g

(* A slot given to a stream without one, given up when it is empty, or set to *)
(* another mode.                                                            *)
Rebound(f, i, r) == [f EXCEPT !.slots[i] = r]

MayTake(f, i, r) ==
    \/ r.fp = f.slots[i].fp /\ r.bytes = f.slots[i].bytes
    \/ /\ r.bytes = <<>>
       /\ f.slots[i].fp = NoStream \/ f.slots[i].bytes = <<>>
       /\ r.fp = NoStream \/ \A j \in 1..BatchSlots : f.slots[j].fp # r.fp

(* Nothing moves. *)
Kin(f, g) ==
    /\ Good(g) /\ g.open = f.open /\ g.written = f.written /\ g.ended = f.ended
    /\ \A u \in Stream : Out(g, u) = Out(f, u) /\ Pending(g, u) = Pending(f, u)

LEMMA PendingIs ==
    ASSUME NEW f, Good(f), NEW s \in Stream
    PROVE  /\ \A i \in 1..BatchSlots : f.slots[i].fp = s => Pending(f, s) = f.slots[i].bytes
           /\ (\A i \in 1..BatchSlots : f.slots[i].fp # s) => Pending(f, s) = <<>>
<1>1. ASSUME NEW i \in 1..BatchSlots, f.slots[i].fp = s PROVE Pending(f, s) = f.slots[i].bytes
  <2>1. SlotOf(f, s) = i
    BY <1>1, SlotFound
  <2> QED
    BY <2>1, PendingOf
<1>2. ASSUME \A i \in 1..BatchSlots : f.slots[i].fp # s PROVE Pending(f, s) = <<>>
  <2>1. SlotOf(f, s) = 0
    BY <1>2, SlotFound
  <2> QED
    BY <2>1, PendingOf
<1> QED
  BY <1>1, <1>2

LEMMA ReboundOut ==
    ASSUME NEW f, Good(f), NEW i \in 1..BatchSlots, NEW r \in Slot, MayTake(f, i, r)
    PROVE  LET g == Rebound(f, i, r)
           IN  /\ Kin(f, g) /\ g.slots[i] = r
               /\ \A j \in 1..BatchSlots \ {i} : g.slots[j] = f.slots[j]
<1> DEFINE g == Rebound(f, i, r)
           slots == [f.slots EXCEPT ![i] = r]
<1>1. f \in FilesState /\ f.slots \in [1..BatchSlots -> Slot] /\ Distinct(f)
  BY DEF Good, FilesState
<1>2. /\ slots \in [1..BatchSlots -> Slot] /\ slots[i] = r
      /\ \A j \in 1..BatchSlots \ {i} : slots[j] = f.slots[j]
  BY <1>1
<1>g. g = [f EXCEPT !.slots[i] = r]
  BY DEF Rebound
<1> HIDE DEF g
<1>3. g = [open |-> f.open, written |-> f.written, sent |-> f.sent, slots |-> slots,
           ended |-> f.ended]
  BY <1>1, <1>g DEF FilesState
<1> HIDE DEF slots
<1>4. g \in FilesState
  BY <1>1, <1>2, <1>3 DEF FilesState
<1>5. \A j \in 1..BatchSlots : g.slots[j] = IF j = i THEN r ELSE f.slots[j]
  BY <1>2, <1>3
<1>6. Distinct(g)
  <2>1. SUFFICES ASSUME NEW j \in 1..BatchSlots, NEW k \in 1..BatchSlots,
                        g.slots[j].fp = g.slots[k].fp, g.slots[j].fp # NoStream
                 PROVE  j = k
    BY DEF Distinct
  <2>2. CASE j # i /\ k # i
    BY <1>1, <1>5, <2>1, <2>2 DEF Distinct
  <2>3. CASE j = i /\ k # i
    BY <1>1, <1>5, <2>1, <2>3 DEF Distinct, MayTake
  <2>4. CASE j # i /\ k = i
    BY <1>1, <1>5, <2>1, <2>4 DEF Distinct, MayTake
  <2> QED
    BY <2>2, <2>3, <2>4
<1>7. Good(g)
  BY <1>4, <1>6 DEF Good
<1>8. ASSUME NEW u \in Stream PROVE Pending(g, u) = Pending(f, u)
  <2>1. CASE \E j \in 1..BatchSlots \ {i} : f.slots[j].fp = u
    <3>1. PICK j \in 1..BatchSlots \ {i} : f.slots[j].fp = u
      BY <2>1
    <3>2. g.slots[j] = f.slots[j]
      BY <1>5
    <3>3. Pending(f, u) = f.slots[j].bytes
      BY <3>1, PendingIs
    <3>4. Pending(g, u) = g.slots[j].bytes
      BY <1>7, <3>1, <3>2, PendingIs
    <3> QED
      BY <3>2, <3>3, <3>4
  <2>2. CASE \A j \in 1..BatchSlots \ {i} : f.slots[j].fp # u
    <3>1. \A j \in 1..BatchSlots \ {i} : g.slots[j].fp # u
      BY <1>5, <2>2
    <3>2. Pending(f, u) = IF f.slots[i].fp = u THEN f.slots[i].bytes ELSE <<>>
      <4>1. CASE f.slots[i].fp = u
        BY <4>1, PendingIs
      <4>2. CASE f.slots[i].fp # u
        BY <2>2, <4>2, PendingIs
      <4> QED
        BY <4>1, <4>2
    <3>3. Pending(g, u) = IF r.fp = u THEN r.bytes ELSE <<>>
      <4>1. CASE g.slots[i].fp = u
        BY <1>5, <1>7, <4>1, PendingIs
      <4>2. CASE g.slots[i].fp # u
        <5>1. \A j \in 1..BatchSlots : g.slots[j].fp # u
          BY <3>1, <4>2
        <5>2. Pending(g, u) = <<>>
          BY <1>7, <5>1, PendingIs
        <5> QED
          BY <1>5, <4>2, <5>2
      <4> QED
        BY <4>1, <4>2
    <3>4. u # NoStream
      OBVIOUS
    <3> QED
      BY <3>2, <3>3, <3>4 DEF MayTake
  <2> QED
    BY <2>1, <2>2
<1>9. \A u \in Stream : Out(g, u) = Out(f, u)
  <2>1. g.sent = f.sent
    BY <1>3
  <2> QED
    BY <1>8, <2>1, Zenon DEF Out
<1>10. g.open = f.open /\ g.written = f.written /\ g.ended = f.ended
  BY <1>3
<1>11. Kin(f, g)
  BY <1>7, <1>8, <1>9, <1>10 DEF Kin
<1> QED
  BY <1>5, <1>11 DEF g

(* outbuf_get: a stream without a slot takes a free one, if there is one.    *)
LEMMA BoundOut ==
    ASSUME NEW f, Good(f), NEW s \in Stream, NEW mode \in {FullMode, LineMode, NoMode}
    PROVE  LET g == Bound(f, s, mode)
           IN  /\ Kin(f, g)
               /\ \A j \in 1..BatchSlots :
                     \/ g.slots[j] = f.slots[j]
                   \/ (g.slots[j].fp = s /\ g.slots[j].bytes = <<>>)
<1> DEFINE free == {i \in 1..BatchSlots : f.slots[i].fp = NoStream}
           r == [fp |-> s, bytes |-> <<>>, mode |-> mode]
           g == Bound(f, s, mode)
<1> SUFFICES /\ Kin(f, g)
             /\ \A j \in 1..BatchSlots :
                   \/ g.slots[j] = f.slots[j]
                   \/ (g.slots[j].fp = s /\ g.slots[j].bytes = <<>>)
  OBVIOUS
<1>1. CASE SlotOf(f, s) # 0 \/ free = {}
  <2>1. SlotOf(f, s) # 0 \/ SlotFor(f, s) = 0
    BY <1>1 DEF SlotFor
  <2>2. g = f
    BY <2>1 DEF Bound
  <2> HIDE DEF g
  <2>3. Kin(f, f)
    BY DEF Kin
  <2> QED
    BY <2>2, <2>3
<1>2. CASE SlotOf(f, s) = 0 /\ free # {}
  <2> DEFINE i == SlotFor(f, s)
  <2>1. i = Min(free)
    BY <1>2 DEF SlotFor
  <2>2. i \in free
    BY <1>2, <2>1, MinIn
  <2>3. i \in 1..BatchSlots /\ f.slots[i].fp = NoStream
    BY <2>2
  <2>4. r \in Slot
    BY DEF Slot
  <2>5. \A j \in 1..BatchSlots : f.slots[j].fp # s
    BY <1>2, SlotFound
  <2>6. r.fp = s /\ r.bytes = <<>>
    OBVIOUS
  <2>7. g = Rebound(f, i, r)
    BY <1>2, <2>3 DEF Bound, Rebound
  <2> HIDE DEF r, i, g
  <2>8. MayTake(f, i, r)
    BY <2>3, <2>5, <2>6 DEF MayTake
  <2>9. /\ Kin(f, g) /\ g.slots[i] = r
        /\ \A j \in 1..BatchSlots \ {i} : g.slots[j] = f.slots[j]
    BY <2>3, <2>4, <2>7, <2>8, ReboundOut
  <2> QED
    BY <2>6, <2>9
<1> QED
  BY <1>1, <1>2

(* outbuf_drop_fp: the bytes leave before the slot is given up.              *)
LEMMA DroppedOut ==
    ASSUME NEW f, Good(f), NEW s \in Stream
    PROVE  LET g == Dropped(f, s)
           IN  /\ Good(g) /\ g.open = f.open /\ g.written = f.written /\ g.ended = f.ended
               /\ \A u \in Stream : Out(g, u) = Out(f, u)
               /\ \A j \in 1..BatchSlots :
                     \/ g.slots[j] = FreeSlot
                     \/ /\ g.slots[j].fp = f.slots[j].fp /\ g.slots[j].mode = f.slots[j].mode
                        /\ g.slots[j].bytes \in {f.slots[j].bytes, <<>>}
               /\ \A j \in 1..BatchSlots : g.slots[j].fp # s
<1>1. CASE SlotOf(f, s) = 0
  <2>1. Dropped(f, s) = f
    BY <1>1 DEF Dropped
  <2>2. \A j \in 1..BatchSlots : f.slots[j].fp # s
    BY <1>1, SlotFound
  <2> QED
    BY <2>1, <2>2
<1>2. CASE SlotOf(f, s) # 0
  <2> DEFINE h == Flushed(f, s)
             i == SlotOf(f, s)
             r == FreeSlot
             g == Rebound(h, i, r)
  <2>1. i \in 1..BatchSlots /\ f.slots[i].fp = s
    BY <1>2, SlotFound
  <2>2. /\ Moved(f, h) /\ Pending(h, s) = <<>> /\ Out(h, s) = Out(f, s) /\ Elsewhere(f, h, s)
        /\ \A j \in 1..BatchSlots : h.slots[j] = f.slots[j] \/ h.slots[j].bytes = <<>>
    BY FlushedOut
  <2>3. r \in Slot /\ r.fp = NoStream /\ r.bytes = <<>>
    BY DEF FreeSlot, Slot
  <2>4. Dropped(f, s) = g
    BY <1>2 DEF Dropped, Rebound
  <2>i. i = SlotOf(f, s) /\ g = Rebound(h, i, r) /\ r = FreeSlot
    OBVIOUS
  <2> HIDE DEF h, i, r, g
  <2>5. Good(h) /\ h.open = f.open /\ h.written = f.written /\ h.ended = f.ended
    BY <2>2 DEF Moved
  <2>6. \A j \in 1..BatchSlots :
          h.slots[j].fp = f.slots[j].fp /\ h.slots[j].mode = f.slots[j].mode
    BY <2>2 DEF Moved
  <2>7. h.slots[i].bytes = <<>>
    BY <2>1, <2>2, <2>5, <2>6, PendingIs
  <2>8. MayTake(h, i, r)
    BY <2>3, <2>7 DEF MayTake
  <2>9. /\ Kin(h, g) /\ g.slots[i] = r
        /\ \A j \in 1..BatchSlots \ {i} : g.slots[j] = h.slots[j]
    BY <2>1, <2>3, <2>5, <2>8, <2>i, ReboundOut
  <2>10. \A u \in Stream : Out(g, u) = Out(f, u)
    BY <2>2, <2>9 DEF Kin, Elsewhere
  <2>11. ASSUME NEW j \in 1..BatchSlots, g.slots[j] # FreeSlot
         PROVE  /\ g.slots[j].fp = f.slots[j].fp /\ g.slots[j].mode = f.slots[j].mode
                /\ g.slots[j].bytes \in {f.slots[j].bytes, <<>>}
    <3>1. g.slots[j] = h.slots[j]
      BY <2>9, <2>11, <2>i
    <3> QED
      BY <2>2, <2>6, <3>1
  <2>12. \A j \in 1..BatchSlots : g.slots[j].fp # s
    <3>1. ASSUME NEW j \in 1..BatchSlots, j # i PROVE f.slots[j].fp # s
      BY <2>1, <3>1 DEF Good, Distinct
    <3>2. r.fp # s
      BY <2>3
    <3> QED
      BY <2>6, <2>9, <3>1, <3>2
  <2> QED
    BY <2>4, <2>5, <2>9, <2>10, <2>11, <2>12 DEF Kin
<1> QED
  BY <1>1, <1>2

(* setvbuf *)
LEMMA ModeOut ==
    ASSUME NEW f, Good(f), NEW i \in 1..BatchSlots, NEW mode \in {FullMode, LineMode, NoMode}
    PROVE  LET g == [f EXCEPT !.slots[i].mode = mode]
           IN  /\ Kin(f, g)
               /\ \A j \in 1..BatchSlots : /\ g.slots[j].fp = f.slots[j].fp
                                            /\ g.slots[j].bytes = f.slots[j].bytes
               /\ \A j \in 1..BatchSlots \ {i} : g.slots[j] = f.slots[j]
<1> DEFINE r == [f.slots[i] EXCEPT !.mode = mode]
           g == [f EXCEPT !.slots[i].mode = mode]
<1>1. f \in FilesState /\ f.slots \in [1..BatchSlots -> Slot] /\ f.slots[i] \in Slot
  BY DEF Good, FilesState
<1>2. r \in Slot /\ r.fp = f.slots[i].fp /\ r.bytes = f.slots[i].bytes
  BY <1>1 DEF Slot
<1>3. g = Rebound(f, i, r)
  BY DEF Rebound
<1> HIDE DEF r, g
<1>4. MayTake(f, i, r)
  BY <1>2 DEF MayTake
<1>5. /\ Kin(f, g) /\ g.slots[i] = r
      /\ \A j \in 1..BatchSlots \ {i} : g.slots[j] = f.slots[j]
  BY <1>2, <1>3, <1>4, ReboundOut
<1> QED
  BY <1>2, <1>5 DEF g

(* Bytes are written behind those of a file, and nothing else changes.       *)
Wrote(f, g, s, bytes) ==
    Moved(f, g) /\ Direct(g) /\ Out(g, s) = Out(f, s) \o bytes /\ Elsewhere(f, g, s)

Pushed(f, g, s) ==
    Moved(f, g) /\ Direct(g) /\ Out(g, s) = Out(f, s) /\ Elsewhere(f, g, s)

LEMMA WroteTwice ==
    ASSUME NEW f, NEW g, NEW h, NEW s \in Stream, NEW bytes
    PROVE  /\ Pushed(f, g, s) /\ Wrote(g, h, s, bytes) => Wrote(f, h, s, bytes)
           /\ Wrote(f, g, s, bytes) /\ Pushed(g, h, s) => Wrote(f, h, s, bytes)
<1>1. Moved(f, g) /\ Moved(g, h) => Moved(f, h)
  BY DEF Moved
<1>2. Elsewhere(f, g, s) /\ Elsewhere(g, h, s) => Elsewhere(f, h, s)
  BY DEF Elsewhere
<1> QED
  BY <1>1, <1>2 DEF Wrote, Pushed

LEMMA FlushPushes ==
    ASSUME NEW f, Good(f), Direct(f), NEW s \in Stream
    PROVE  Pushed(f, Flushed(f, s), s) /\ Pending(Flushed(f, s), s) = <<>>
<1> DEFINE g == Flushed(f, s)
<1>1. /\ Moved(f, g) /\ Pending(g, s) = <<>> /\ Out(g, s) = Out(f, s) /\ Elsewhere(f, g, s)
      /\ \A j \in 1..BatchSlots : g.slots[j] = f.slots[j] \/ g.slots[j].bytes = <<>>
  BY FlushedOut
<1> HIDE DEF g
<1>2. Direct(g)
  BY <1>1 DEF Direct, Moved
<1> QED
  BY <1>1, <1>2 DEF Pushed, g

LEMMA SendWrites ==
    ASSUME NEW f, Good(f), Direct(f), NEW s \in Stream, Pending(f, s) = <<>>,
           NEW bytes \in Seq(Nat)
    PROVE  Wrote(f, Sent(f, s, bytes), s, bytes)
<1> DEFINE g == Sent(f, s, bytes)
<1>1. /\ Moved(f, g) /\ g.slots = f.slots
      /\ Out(g, s) = Out(f, s) \o bytes /\ Elsewhere(f, g, s)
  BY SentOut
<1> HIDE DEF g
<1>2. Direct(g)
  BY <1>1 DEF Direct
<1> QED
  BY <1>1, <1>2 DEF Wrote, g

LEMMA KeepWrites ==
    ASSUME NEW f, Good(f), Direct(f), NEW s \in Stream, SlotOf(f, s) # 0,
           f.slots[SlotOf(f, s)].mode # NoMode, NEW bytes \in Seq(Nat)
    PROVE  Wrote(f, Kept(f, s, bytes), s, bytes)
<1> DEFINE g == Kept(f, s, bytes)
<1>1. /\ Moved(f, g) /\ Out(g, s) = Out(f, s) \o bytes /\ Elsewhere(f, g, s)
      /\ \A j \in 1..BatchSlots : j # SlotOf(f, s) => g.slots[j] = f.slots[j]
  BY KeptOut
<1> HIDE DEF g
<1>2. Direct(g)
  BY <1>1 DEF Direct, Moved
<1> QED
  BY <1>1, <1>2 DEF Wrote, g

(* outbuf_write: whichever way the bytes take, they follow what was there.   *)
LEMMA BatchedWrites ==
    ASSUME NEW f, Good(f), Direct(f), NEW s \in Stream, NEW bytes \in Seq(Nat),
           NEW line \in BOOLEAN
    PROVE  Wrote(f, Batched(f, s, bytes, line), s, bytes)
<1> DEFINE i == SlotOf(f, s)
           g == Batched(f, s, bytes, line)
           h == Flushed(f, s)
           room == IF Len(Pending(f, s)) + Len(bytes) > BatchCap THEN h ELSE f
           kept == [room EXCEPT !.slots[i].bytes = @ \o bytes]
<1>1. CASE i = 0 \/ f.slots[i].mode = NoMode
  <2>1. g = Sent(f, s, bytes)
    BY <1>1 DEF Batched
  <2>2. Pending(f, s) = <<>>
    <3>1. CASE i = 0
      BY <3>1, PendingOf
    <3>2. CASE i # 0
      <4>1. i \in 1..BatchSlots
        BY <3>2, SlotFound
      <4> QED
        BY <1>1, <3>2, <4>1, PendingOf DEF Direct
    <3> QED
      BY <3>1, <3>2
  <2> QED
    BY <2>1, <2>2, SendWrites
<1>2. CASE i # 0 /\ f.slots[i].mode # NoMode /\ Len(bytes) >= BatchCap
  <2>1. g = Sent(h, s, bytes)
    BY <1>2 DEF Batched
  <2>2. Pushed(f, h, s) /\ Pending(h, s) = <<>>
    BY FlushPushes
  <2> HIDE DEF g, h
  <2>3. Wrote(h, Sent(h, s, bytes), s, bytes)
    BY <2>2, SendWrites DEF Pushed, Moved
  <2> QED
    BY <2>1, <2>2, <2>3, WroteTwice DEF g
<1>3. CASE i # 0 /\ f.slots[i].mode # NoMode /\ ~(Len(bytes) >= BatchCap)
  <2>1. Pushed(f, room, s)
    <3>1. Pushed(f, h, s)
      BY FlushPushes
    <3>2. Pushed(f, f, s)
      BY DEF Pushed, Moved, Elsewhere
    <3> QED
      BY <3>1, <3>2
  <2>2. g = kept \/ g = Flushed(kept, s)
    BY <1>3 DEF Batched
  <2> HIDE DEF room
  <2>3. i \in 1..BatchSlots
    BY <1>3, SlotFound
  <2>4. Good(room) /\ Direct(room) /\ SlotOf(room, s) = i /\ room.slots[i].mode # NoMode
    BY <1>3, <2>1, <2>3 DEF Pushed, Moved
  <2>5. kept = Kept(room, s, bytes)
    BY <2>4 DEF Kept
  <2> HIDE DEF i, kept, g
  <2>6. Wrote(room, kept, s, bytes)
    BY <1>3, <2>4, <2>5, KeepWrites
  <2>7. Wrote(f, kept, s, bytes)
    BY <2>1, <2>6, WroteTwice
  <2>8. Wrote(f, Flushed(kept, s), s, bytes)
    <3>1. Good(kept) /\ Direct(kept)
      BY <2>6 DEF Wrote, Moved
    <3>2. Pushed(kept, Flushed(kept, s), s)
      BY <3>1, FlushPushes
    <3> QED
      BY <2>7, <3>2, WroteTwice
  <2> QED
    BY <2>2, <2>7, <2>8 DEF g
<1> QED
  BY <1>1, <1>2, <1>3

-----------------------------------------------------------------------------
(* The bytes 1..w, and then w + 1 .. w + n.                                   *)
LEMMA Continued ==
    ASSUME NEW w \in Nat, NEW n \in Nat
    PROVE  [i \in 1..w |-> i] \o [i \in 1..n |-> w + i] = [i \in 1 .. w + n |-> i]
<1> DEFINE a == [i \in 1..w |-> i]
           b == [i \in 1..n |-> w + i]
           c == [i \in 1 .. w + n |-> i]
<1>1. a \in Seq(Nat) /\ Len(a) = w /\ b \in Seq(Nat) /\ Len(b) = n
  OBVIOUS
<1>2. c \in Seq(Nat) /\ Len(c) = w + n /\ \A i \in 1 .. w + n : c[i] = i
  OBVIOUS
<1>3. (\A i \in 1..w : a[i] = i) /\ (\A i \in 1..n : b[i] = w + i)
  OBVIOUS
<1> HIDE DEF a, b, c
<1>4. a \o b \in Seq(Nat) /\ Len(a \o b) = w + n
  BY <1>1
<1>5. ASSUME NEW i \in 1 .. w + n PROVE (a \o b)[i] = c[i]
  <2>1. CASE i \in 1..w
    BY <1>1, <1>2, <1>3, <2>1
  <2>2. CASE i \notin 1..w
    <3>1. i - w \in 1..n
      BY <2>2
    <3>2. b[i - w] = i
      BY <1>3, <3>1
    <3> QED
      BY <1>1, <1>2, <2>2, <3>2
  <2> QED
    BY <2>1, <2>2
<1>6. a \o b = c
  BY <1>2, <1>4, <1>5, SeqEqual
<1> QED
  BY <1>6 DEF a, b, c

(* What the descriptor of a file says does not move its bytes.               *)
LEMMA HeaderOnly ==
    ASSUME NEW f, Good(f), NEW open \in [Stream -> BOOLEAN], NEW written \in [Stream -> Nat], NEW g,
           g = [open |-> open, written |-> written, sent |-> f.sent, slots |-> f.slots,
                ended |-> f.ended]
    PROVE  Good(g) /\ \A u \in Stream : Out(g, u) = Out(f, u)
<1>1. g.sent = f.sent /\ g.slots = f.slots
  OBVIOUS
<1>2. g \in FilesState
  BY DEF Good, FilesState
<1>3. Good(g) /\ \A u \in Stream : SlotOf(g, u) = SlotOf(f, u)
  BY <1>1, <1>2, SameSlots
<1> QED
  BY <1>1, <1>3 DEF Out, Pending

LEMMA InitHolds == FilesInit => FilesIInv
<1> SUFFICES ASSUME FilesInit PROVE FilesIInv
  OBVIOUS
<1>1. files = [open |-> [s \in Stream |-> s = StdStream], written |-> [s \in Stream |-> 0],
               sent |-> [s \in Stream |-> <<>>], slots |-> [i \in 1..BatchSlots |-> FreeSlot],
               ended |-> FALSE]
  BY DEF FilesInit
<1>2. FreeSlot \in Slot /\ FreeSlot.fp = NoStream /\ FreeSlot.bytes = <<>>
  BY DEF FreeSlot, Slot
<1>3. \A i \in 1..BatchSlots : files.slots[i] = FreeSlot
  BY <1>1
<1>4. Good(files)
  <2>1. [i \in 1..BatchSlots |-> FreeSlot] \in [1..BatchSlots -> Slot]
    BY <1>2
  <2>2. files \in FilesState
    BY <1>1, <2>1 DEF FilesState
  <2> QED
    BY <1>2, <1>3, <2>2 DEF Good, Distinct
<1>5. Direct(files) /\ SlotsOpen /\ Drained
  BY <1>1, <1>2, <1>3 DEF Direct, SlotsOpen, Drained
<1>6. ASSUME NEW s \in Stream PROVE InOrder(s, Out(files, s))
  <2>1. Pending(files, s) = <<>>
    BY <1>2, <1>3, <1>4, PendingIs
  <2>2. Out(files, s) = <<>>
    BY <1>1, <2>1 DEF Out
  <2>3. files.written[s] = 0
    BY <1>1
  <2> QED
    BY <2>2, <2>3 DEF InOrder
<1> QED
  BY <1>4, <1>5, <1>6 DEF FilesIInv, BytesInOrder, Out

(* io.open: no batch is left of the file the address belonged to.            *)
LEMMA OpenHolds == FilesIInv /\ (\E s \in Stream : OpenFile(s)) => FilesIInv'
<1> SUFFICES ASSUME FilesIInv, NEW s \in Stream, OpenFile(s) PROVE FilesIInv'
  OBVIOUS
<1> DEFINE open == [files.open EXCEPT ![s] = TRUE]
           written == [files.written EXCEPT ![s] = 0]
           sent == [files.sent EXCEPT ![s] = <<>>]
<1>1. Good(files) /\ files \in FilesState /\ ~files.open[s] /\ ~files.ended
  BY DEF FilesIInv, Good, OpenFile
<1>2. files' = [open |-> open, written |-> written, sent |-> sent, slots |-> files.slots,
                ended |-> files.ended]
  BY <1>1 DEF OpenFile, FilesState
<1>3. /\ open \in [Stream -> BOOLEAN] /\ open[s]
      /\ \A u \in Stream \ {s} : open[u] = files.open[u]
  BY <1>1 DEF FilesState
<1>4. /\ written \in [Stream -> Nat] /\ written[s] = 0
      /\ \A u \in Stream \ {s} : written[u] = files.written[u]
  BY <1>1 DEF FilesState
<1>5. /\ sent \in [Stream -> Seq(Nat)] /\ sent[s] = <<>>
      /\ \A u \in Stream \ {s} : sent[u] = files.sent[u]
  BY <1>1 DEF FilesState
<1> HIDE DEF open, written, sent
<1>6. files' \in FilesState
  BY <1>1, <1>2, <1>3, <1>4, <1>5 DEF FilesState
<1>7. Good(files') /\ \A u \in Stream : SlotOf(files', u) = SlotOf(files, u)
  BY <1>1, <1>2, <1>6, SameSlots
<1>8. \A i \in 1..BatchSlots : files.slots[i].fp # s
  BY <1>1 DEF FilesIInv, SlotsOpen
<1>9. \A u \in Stream : Pending(files', u) = Pending(files, u)
  BY <1>2, <1>7 DEF Pending
<1>10. Direct(files') /\ SlotsOpen' /\ Drained'
  BY <1>1, <1>2, <1>3 DEF FilesIInv, Direct, SlotsOpen, Drained, Good, FilesState, Slot
<1>11. ASSUME NEW u \in Stream PROVE InOrder(u, Out(files, u))'
  <2>1. CASE u = s
    <3>1. Pending(files', u) = <<>>
      BY <1>1, <1>8, <1>9, <2>1, PendingIs
    <3>2. Out(files', u) = <<>> /\ files'.written[u] = 0
      BY <1>2, <1>4, <1>5, <2>1, <3>1 DEF Out
    <3> QED
      BY <3>2 DEF InOrder
  <2>2. CASE u # s
    <3>1. Out(files', u) = Out(files, u)
      BY <1>2, <1>5, <1>9, <2>2, Zenon DEF Out
    <3>2. files'.written[u] = files.written[u]
      BY <1>2, <1>4, <2>2
    <3> QED
      BY <3>1, <3>2 DEF FilesIInv, BytesInOrder, InOrder, Out
  <2> QED
    BY <2>1, <2>2
<1> QED
  BY <1>7, <1>10, <1>11 DEF FilesIInv, BytesInOrder, Out

(* A step that leaves what is written and what is open, and moves no byte    *)
(* out of its order.                                                        *)
LEMMA QuietHolds ==
    ASSUME FilesIInv, ~files.ended, Good(files'), Direct(files'), files'.open = files.open,
           files'.written = files.written, files'.ended = files.ended,
           \A u \in Stream : Out(files', u) = Out(files, u),
           \A j \in 1..BatchSlots :
               \/ files'.slots[j].fp = files.slots[j].fp
               \/ files.open[files'.slots[j].fp]
    PROVE  FilesIInv'
<1>1. SlotsOpen' /\ Drained'
  BY DEF FilesIInv, SlotsOpen, Drained
<1>2. ASSUME NEW u \in Stream PROVE InOrder(u, Out(files, u))'
  BY DEF FilesIInv, BytesInOrder, InOrder, Out
<1> QED
  BY <1>1, <1>2 DEF FilesIInv, BytesInOrder, Out

LEMMA FlushHolds == FilesIInv /\ (\E s \in Stream : FlushFile(s)) => FilesIInv'
<1> SUFFICES ASSUME FilesIInv, NEW s \in Stream, FlushFile(s) PROVE FilesIInv'
  OBVIOUS
<1>1. Good(files) /\ Direct(files) /\ ~files.ended /\ files' = Flushed(files, s)
  BY DEF FilesIInv, FlushFile, Usable
<1>2. Pushed(files, files', s)
  BY <1>1, FlushPushes
<1>3. \A u \in Stream : Out(files', u) = Out(files, u)
  BY <1>2 DEF Pushed, Elsewhere
<1> QED
  BY <1>1, <1>2, <1>3, QuietHolds DEF Pushed, Moved

LEMMA BufferingHolds ==
    FilesIInv /\ (\E s \in Stream : \E mode \in {FullMode, LineMode, NoMode} : SetBuffering(s, mode))
    => FilesIInv'
<1> SUFFICES ASSUME FilesIInv, NEW s \in Stream, NEW mode \in {FullMode, LineMode, NoMode},
                    SetBuffering(s, mode)
             PROVE  FilesIInv'
  OBVIOUS
<1> DEFINE h == Flushed(files, s)
           f == Bound(h, s, mode)
           i == SlotOf(f, s)
           g == [f EXCEPT !.slots[i].mode = mode]
<1>1. Good(files) /\ Direct(files) /\ ~files.ended /\ files.open[s]
  BY DEF FilesIInv, SetBuffering, Usable
<1>2. files' = IF i = 0 THEN f ELSE g
  BY DEF SetBuffering
<1>3. Pushed(files, h, s) /\ Pending(h, s) = <<>>
  BY <1>1, FlushPushes
<1> HIDE DEF h
<1>4. Good(h) /\ Direct(h)
  BY <1>3 DEF Pushed, Moved
<1>5. /\ Kin(h, f)
      /\ \A j \in 1..BatchSlots :
            \/ f.slots[j] = h.slots[j]
            \/ (f.slots[j].fp = s /\ f.slots[j].bytes = <<>>)
  BY <1>4, BoundOut
<1>g. ASSUME i # 0
      PROVE  /\ Kin(f, g) /\ i \in 1..BatchSlots
             /\ \A j \in 1..BatchSlots : /\ g.slots[j].fp = f.slots[j].fp
                                          /\ g.slots[j].bytes = f.slots[j].bytes
             /\ \A j \in 1..BatchSlots \ {i} : g.slots[j] = f.slots[j]
             /\ f.slots[i].bytes = <<>>
  <2>1. Good(f) /\ Pending(f, s) = <<>>
    BY <1>3, <1>5 DEF Kin
  <2> HIDE DEF f
  <2>2. i \in 1..BatchSlots
    BY <1>g, <2>1, SlotFound
  <2>3. f.slots[i].bytes = <<>>
    BY <2>1, <2>2, PendingOf
  <2> HIDE DEF i
  <2>4. /\ Kin(f, g)
        /\ \A j \in 1..BatchSlots : /\ g.slots[j].fp = f.slots[j].fp
                                     /\ g.slots[j].bytes = f.slots[j].bytes
        /\ \A j \in 1..BatchSlots \ {i} : g.slots[j] = f.slots[j]
    BY ZenonT(40), <2>1, <2>2, ModeOut
  <2> QED
    BY <2>2, <2>3, <2>4
<1> HIDE DEF f, g, i
<1>6. Direct(f)
  BY <1>4, <1>5 DEF Direct
<1>7. ASSUME i # 0 PROVE Direct(g)
  BY <1>6, <1>7, <1>g DEF Direct
<1>8. Good(files') /\ Direct(files')
  BY <1>2, <1>5, <1>6, <1>7, <1>g DEF Kin
<1>9. /\ files'.open = files.open /\ files'.written = files.written /\ files'.ended = files.ended
      /\ \A u \in Stream : Out(files', u) = Out(files, u)
  <2>1. /\ h.open = files.open /\ h.written = files.written /\ h.ended = files.ended
        /\ \A u \in Stream : Out(h, u) = Out(files, u)
    BY <1>3 DEF Pushed, Moved, Elsewhere
  <2>2. /\ f.open = files.open /\ f.written = files.written /\ f.ended = files.ended
        /\ \A u \in Stream : Out(f, u) = Out(files, u)
    BY <1>5, <2>1 DEF Kin
  <2>3. CASE i = 0
    BY <1>2, <2>2, <2>3
  <2>4. CASE i # 0
    BY <1>2, <1>g, <2>2, <2>4 DEF Kin
  <2> QED
    BY <2>3, <2>4
<1>10. ASSUME NEW j \in 1..BatchSlots
       PROVE  files'.slots[j].fp = files.slots[j].fp \/ files.open[files'.slots[j].fp]
  <2>1. h.slots[j].fp = files.slots[j].fp
    BY <1>3 DEF Pushed, Moved
  <2>2. f.slots[j].fp \in {files.slots[j].fp, s}
    BY <1>5, <2>1
  <2>3. files'.slots[j].fp = f.slots[j].fp
    BY <1>2, <1>g
  <2> QED
    BY <1>1, <2>2, <2>3
<1> QED
  BY <1>1, <1>8, <1>9, <1>10, QuietHolds

(* file:close gives up the batch of the file, and no other.                  *)
LEMMA CloseHolds == FilesIInv /\ (\E s \in Stream : CloseFile(s)) => FilesIInv'
<1> SUFFICES ASSUME FilesIInv, NEW s \in Stream, CloseFile(s) PROVE FilesIInv'
  OBVIOUS
<1> DEFINE g == Dropped(files, s)
           open == [u \in Stream |-> IF u = s THEN FALSE
                                   ELSE (u = Nowhere /\ s = StdStream) \/ files.open[u]]
<1>1. Good(files) /\ Direct(files) /\ ~files.ended /\ files.open \in [Stream -> BOOLEAN]
  BY DEF FilesIInv, CloseFile, Usable, Good, FilesState
<1>2. /\ Good(g) /\ g.open = files.open /\ g.written = files.written /\ g.ended = files.ended
      /\ \A u \in Stream : Out(g, u) = Out(files, u)
      /\ \A j \in 1..BatchSlots :
            \/ g.slots[j] = FreeSlot
            \/ /\ g.slots[j].fp = files.slots[j].fp /\ g.slots[j].mode = files.slots[j].mode
               /\ g.slots[j].bytes \in {files.slots[j].bytes, <<>>}
      /\ \A j \in 1..BatchSlots : g.slots[j].fp # s
  BY <1>1, DroppedOut
<1>3. files' = [g EXCEPT !.open = [u \in Stream |-> IF u = s THEN FALSE
                                       ELSE (u = Nowhere /\ s = StdStream) \/ @[u]]]
  BY DEF CloseFile
<1> HIDE DEF g
<1>4. files' = [open |-> open, written |-> g.written, sent |-> g.sent, slots |-> g.slots,
                ended |-> g.ended]
  BY <1>2, <1>3 DEF Good, FilesState
<1>5. open \in [Stream -> BOOLEAN] /\ \A u \in Stream \ {s} : files.open[u] => open[u]
  BY <1>1
<1> HIDE DEF open
<1>6. Good(files') /\ \A u \in Stream : Out(files', u) = Out(g, u)
  <2>1. g.written \in [Stream -> Nat]
    BY <1>2 DEF Good, FilesState
  <2> QED
    BY <1>2, <1>4, <1>5, <2>1, HeaderOnly
<1>7. files'.slots = g.slots /\ files'.open = open /\ files'.written = files.written
      /\ ~files'.ended
  BY <1>1, <1>2, <1>4
<1>8. Direct(files')
  BY <1>1, <1>2, <1>7 DEF Direct, FreeSlot
<1>9. SlotsOpen'
  <2>1. ASSUME NEW j \in 1..BatchSlots, g.slots[j].fp # NoStream PROVE open[g.slots[j].fp]
    <3>1. g.slots[j].fp = files.slots[j].fp
      BY <1>2, <2>1 DEF FreeSlot
    <3>2. g.slots[j].fp \in Stream \ {s}
      BY <1>2, <2>1 DEF Good, FilesState, Slot
    <3>3. files.open[files.slots[j].fp]
      BY <2>1, <3>1 DEF FilesIInv, SlotsOpen
    <3> QED
      BY <1>5, <3>1, <3>2, <3>3
  <2> QED
    BY <1>7, <2>1 DEF SlotsOpen
<1>10. ASSUME NEW u \in Stream PROVE InOrder(u, Out(files, u))'
  BY <1>2, <1>6, <1>7 DEF FilesIInv, BytesInOrder, InOrder, Out
<1> QED
  BY <1>6, <1>7, <1>8, <1>9, <1>10 DEF FilesIInv, BytesInOrder, Out, Drained

(* A write continues the bytes of its file where they ended.                 *)
LEMMA WriteHolds ==
    FilesIInv /\ (\E s \in Stream : \E n \in 1 .. BatchCap + 1, line \in BOOLEAN : Write(s, n, line))
    => FilesIInv'
<1> SUFFICES ASSUME FilesIInv, NEW s \in Stream, NEW n \in 1 .. BatchCap + 1, NEW line \in BOOLEAN,
                    Write(s, n, line)
             PROVE  FilesIInv'
  OBVIOUS
<1> DEFINE w == files.written[s]
           bytes == [i \in 1..n |-> w + i]
           written == [files.written EXCEPT ![s] = w + n]
<1>1. /\ Good(files) /\ Direct(files) /\ ~files.ended /\ files.open[s]
      /\ files.written \in [Stream -> Nat] /\ n \in Nat
  BY DEF FilesIInv, Write, Usable, Good, FilesState
<1>2. w \in Nat /\ bytes \in Seq(Nat) /\ w + n \in Nat
  BY <1>1
<1>3. /\ written \in [Stream -> Nat] /\ written[s] = w + n
      /\ \A u \in Stream \ {s} : written[u] = files.written[u]
  BY <1>1, <1>2
<1>4. PICK mode \in DefaultModes(s) :
          files' = [Batched(Bound(files, s, mode), s, bytes, line) EXCEPT !.written[s] = @ + n]
  BY DEF Write
<1>5. mode \in {FullMode, LineMode, NoMode}
  BY DEF DefaultModes
<1> DEFINE f == Bound(files, s, mode)
           g == Batched(f, s, bytes, line)
<1>w. w = files.written[s]
  OBVIOUS
<1>b. bytes = [i \in 1..n |-> w + i]
  OBVIOUS
<1> HIDE DEF bytes, w
<1>6. /\ Kin(files, f)
      /\ \A j \in 1..BatchSlots :
            \/ f.slots[j] = files.slots[j]
            \/ (f.slots[j].fp = s /\ f.slots[j].bytes = <<>>)
  BY <1>1, <1>5, BoundOut
<1>g. files' = [g EXCEPT !.written[s] = @ + n]
  BY <1>4
<1> HIDE DEF f
<1>7. Good(f) /\ Direct(f)
  BY <1>1, <1>6 DEF Kin, Direct
<1>8. Wrote(f, g, s, bytes)
  BY <1>2, <1>7, BatchedWrites
<1> HIDE DEF g
<1>9. /\ Good(g) /\ Direct(g) /\ g.open = files.open /\ g.written = files.written
      /\ g.ended = files.ended /\ \A j \in 1..BatchSlots : g.slots[j].fp = f.slots[j].fp
  BY <1>6, <1>8 DEF Kin, Wrote, Moved
<1>10. files' = [open |-> g.open, written |-> written, sent |-> g.sent, slots |-> g.slots,
                 ended |-> g.ended]
  <2> DEFINE k == g.written[s] + n
  <2>1. k = w + n /\ files' = [g EXCEPT !.written[s] = k]
    BY <1>9, <1>g, <1>w
  <2> HIDE DEF k
  <2>2. g \in FilesState
    BY <1>9 DEF Good
  <2>3. files' = [open |-> g.open, written |-> [g.written EXCEPT ![s] = k], sent |-> g.sent,
                  slots |-> g.slots, ended |-> g.ended]
    BY <2>1, <2>2 DEF FilesState
  <2> QED
    BY <1>9, <2>1, <2>3
<1> HIDE DEF written
<1>11. Good(files') /\ \A u \in Stream : Out(files', u) = Out(g, u)
  <2>1. g.open \in [Stream -> BOOLEAN]
    BY <1>9 DEF Good, FilesState
  <2> QED
    BY <1>3, <1>9, <1>10, <2>1, HeaderOnly
<1>12. files'.slots = g.slots /\ files'.open = files.open /\ files'.written = written
       /\ ~files'.ended
  BY <1>1, <1>9, <1>10
<1>13. Direct(files') /\ Drained'
  BY <1>9, <1>12 DEF Direct, Drained
<1>14. SlotsOpen'
  <2>1. ASSUME NEW j \in 1..BatchSlots, g.slots[j].fp # NoStream PROVE files.open[g.slots[j].fp]
    <3>1. g.slots[j].fp = files.slots[j].fp \/ g.slots[j].fp = s
      BY <1>6, <1>9
    <3> QED
      BY <1>1, <2>1, <3>1 DEF FilesIInv, SlotsOpen
  <2> QED
    BY <1>12, <2>1 DEF SlotsOpen
<1>15. ASSUME NEW u \in Stream PROVE InOrder(u, Out(files, u))'
  <2>1. CASE u = s
    <3>1. Out(files', s) = Out(files, s) \o bytes
      BY <1>6, <1>8, <1>11 DEF Wrote, Kin
    <3>2. Out(files, s) = [i \in 1..w |-> i]
      BY <1>w DEF FilesIInv, BytesInOrder, InOrder, Out
    <3>3. Out(files', s) = [i \in 1 .. w + n |-> i]
      BY <1>1, <1>2, <1>b, <3>1, <3>2, Continued
    <3> QED
      BY <1>3, <1>12, <2>1, <3>3 DEF InOrder
  <2>2. CASE u # s
    <3>1. Out(files', u) = Out(files, u)
      BY <1>6, <1>8, <1>11, <2>2 DEF Wrote, Elsewhere, Kin
    <3>2. files'.written[u] = files.written[u]
      BY <1>3, <1>12, <2>2
    <3> QED
      BY <3>1, <3>2 DEF FilesIInv, BytesInOrder, InOrder, Out
  <2> QED
    BY <2>1, <2>2
<1> QED
  BY <1>11, <1>13, <1>14, <1>15 DEF FilesIInv, BytesInOrder, Out

(* The end of the process sends what is pending.                             *)
LEMMA ExitHolds == FilesIInv /\ Exit => FilesIInv'
<1> SUFFICES ASSUME FilesIInv, Exit PROVE FilesIInv'
  OBVIOUS
<1> DEFINE sent == [s \in Stream |-> files.sent[s] \o Pending(files, s)]
           slots == [i \in 1..BatchSlots |-> [files.slots[i] EXCEPT !.bytes = <<>>]]
<1>1. Good(files) /\ files \in FilesState /\ files.slots \in [1..BatchSlots -> Slot]
  BY DEF FilesIInv, Good, FilesState
<1>2. files' = [open |-> files.open, written |-> files.written, sent |-> sent, slots |-> slots,
                ended |-> TRUE]
  BY <1>1 DEF Exit, FilesState
<1>3. \A s \in Stream : sent[s] = Out(files, s) /\ Out(files, s) \in Seq(Nat)
  BY <1>1, PendingOf DEF Out
<1>4. sent \in [Stream -> Seq(Nat)]
  BY <1>3
<1>5. \A i \in 1..BatchSlots : /\ slots[i] \in Slot /\ slots[i].fp = files.slots[i].fp
                               /\ slots[i].bytes = <<>>
  <2>1. SUFFICES ASSUME NEW i \in 1..BatchSlots
                 PROVE  /\ slots[i] \in Slot /\ slots[i].fp = files.slots[i].fp
                        /\ slots[i].bytes = <<>>
    OBVIOUS
  <2> DEFINE r == files.slots[i]
  <2>2. r \in Slot /\ slots[i] = [r EXCEPT !.bytes = <<>>]
    BY <1>1
  <2>3. r = files.slots[i]
    OBVIOUS
  <2> HIDE DEF r, slots
  <2>4. slots[i] = [fp |-> r.fp, bytes |-> <<>>, mode |-> r.mode]
    BY <2>2 DEF Slot
  <2>5. slots[i].fp = r.fp /\ slots[i].bytes = <<>> /\ slots[i].mode = r.mode
    BY <2>4
  <2>6. slots[i] \in Slot
    <3>1. r.fp \in Stream \cup {NoStream} /\ r.mode \in {FullMode, LineMode, NoMode}
      BY <2>2 DEF Slot
    <3> DEFINE none == <<>>
    <3>2. none \in Seq(Nat) /\ slots[i] = [fp |-> r.fp, bytes |-> none, mode |-> r.mode]
      BY <2>4
    <3> HIDE DEF none
    <3> QED
      BY <3>1, <3>2 DEF Slot
  <2> QED
    BY <2>3, <2>5, <2>6
<1>6. slots \in [1..BatchSlots -> Slot]
  BY <1>5
<1> HIDE DEF sent, slots
<1>7. files' \in FilesState
  BY <1>1, <1>2, <1>4, <1>6 DEF FilesState
<1>8. Good(files') /\ \A u \in Stream : SlotOf(files', u) = SlotOf(files, u)
  BY <1>1, <1>2, <1>5, <1>7, SameSlots
<1>9. Direct(files') /\ SlotsOpen' /\ Drained'
  BY <1>2, <1>5 DEF FilesIInv, Direct, SlotsOpen, Drained
<1>10. ASSUME NEW u \in Stream PROVE InOrder(u, Out(files, u))'
  <2>1. Pending(files', u) = <<>>
    <3>1. \A i \in 1..BatchSlots : files'.slots[i].bytes = <<>>
      BY <1>2, <1>5
    <3> QED
      BY <1>8, <3>1, PendingIs
  <2>2. Out(files', u) = Out(files, u)
    <3>1. files'.sent[u] = Out(files, u) /\ Out(files, u) \in Seq(Nat)
      BY <1>2, <1>3
    <3> QED
      BY <2>1, <3>1, ConcatEmptySeq DEF Out
  <2>3. files'.written = files.written
    BY <1>2
  <2> QED
    BY <2>2, <2>3 DEF FilesIInv, BytesInOrder, InOrder, Out
<1> QED
  BY <1>8, <1>9, <1>10 DEF FilesIInv, BytesInOrder, Out

LEMMA FilesIInvHolds == FilesSpec => []FilesIInv
<1>1. FilesInit => FilesIInv
  BY InitHolds
<1>2. FilesIInv /\ [FilesNext]_files => FilesIInv'
  <2>1. ASSUME FilesIInv, UNCHANGED files PROVE FilesIInv'
    BY <2>1 DEF FilesIInv, Good, Distinct, Direct, SlotsOpen, Drained, BytesInOrder, InOrder,
                Pending, SlotOf
  <2>2. ASSUME FilesIInv, FilesNext PROVE FilesIInv'
    BY <2>2, OpenHolds, FlushHolds, CloseHolds, WriteHolds, BufferingHolds, ExitHolds DEF FilesNext
  <2> QED
    BY <2>1, <2>2
<1> QED
  BY <1>1, <1>2, PTL DEF FilesSpec

(* What has reached a file and what waits for it is what was written, in     *)
(* order, for any number of streams, slots and bytes in a batch.            *)
THEOREM OrderKept == FilesSpec => []BytesInOrder
<1>1. FilesIInv => BytesInOrder
  BY DEF FilesIInv
<1> QED
  BY <1>1, FilesIInvHolds, PTL

(* A closed file has all its bytes, and every file when the process ends.    *)
THEOREM AllDelivered == FilesSpec => []NothingLost
<1>1. FilesIInv => NothingLost
  <2>1. SUFFICES ASSUME FilesIInv, NEW s \in Stream, ~files.open[s] \/ files.ended
                 PROVE  InOrder(s, files.sent[s]) /\ Pending(files, s) = <<>>
    BY DEF NothingLost
  <2>2. Good(files) /\ files.sent[s] \in Seq(Nat)
    BY <2>1 DEF FilesIInv, Good, FilesState
  <2>3. Pending(files, s) = <<>>
    <3>1. CASE ~files.open[s]
      <4>1. \A i \in 1..BatchSlots : files.slots[i].fp # s
        BY <2>1, <3>1 DEF FilesIInv, SlotsOpen
      <4> QED
        BY <2>2, <4>1, PendingIs
    <3>2. CASE files.ended
      BY <2>1, <2>2, <3>2, PendingIs DEF FilesIInv, Drained
    <3> QED
      BY <2>1, <3>1, <3>2
  <2>4. files.sent[s] \o Pending(files, s) = files.sent[s]
    BY <2>2, <2>3, ConcatEmptySeq
  <2> QED
    BY <2>1, <2>3, <2>4 DEF FilesIInv, BytesInOrder
<1> QED
  BY <1>1, FilesIInvHolds, PTL

-----------------------------------------------------------------------------
Loader == [name : Name, saved : Env, env : Env]

ReqTypeOK ==
    req \in [loaded : [Name -> Int], preload : SUBSET Name, running : Seq(Loader),
             G : Env, loads : Nat, got : [Name -> SUBSET Int], fresh : SUBSET Name]

(* Each loader saved the environment of the one it was started by.           *)
EnvChained ==
    \A i \in 1 .. Len(req.running) :
        req.running[i].saved = IF i = 1 THEN RealG ELSE req.running[i - 1].env

(* Of a name that only require stores under, at most one loader runs, and     *)
(* while it runs nothing was returned; what was returned since is the entry. *)
LoadedOnce ==
    \A n \in req.fresh :
        /\ \A i, j \in 1 .. Len(req.running) :
               req.running[i].name = n /\ req.running[j].name = n => i = j
        /\ Loading(n) => req.loaded[n] = NotLoaded
        /\ req.got[n] \subseteq {req.loaded[n]} \ {NotLoaded}

ReqIInv == ReqTypeOK /\ EnvOfInnermost /\ EnvChained /\ LoadedOnce

-----------------------------------------------------------------------------
LEMMA InitReqIInv == RequireInit => ReqIInv
<1> SUFFICES ASSUME RequireInit PROVE ReqIInv
  OBVIOUS
<1>1. ReqTypeOK
  BY DEF RequireInit, ReqTypeOK, NotLoaded
<1>2. Len(req.running) = 0 /\ DOMAIN req.running = {}
  BY DEF RequireInit
<1> QED
  BY <1>1, <1>2 DEF RequireInit, ReqIInv, EnvOfInnermost, EnvChained, LoadedOnce, Loading

(* A step that starts and ends no loader and stores under no name that only   *)
(* require stores under.                                                    *)
LEMMA SideStep ==
    ASSUME ReqIInv, ReqTypeOK', req'.running = req.running, req'.G = req.G,
           req'.fresh \subseteq req.fresh,
           \A n \in req'.fresh :
              req'.loaded[n] = req.loaded[n]
              /\ req'.got[n] \subseteq req.got[n] \cup ({req.loaded[n]} \ {NotLoaded})
    PROVE  ReqIInv'
BY DEF ReqIInv, EnvOfInnermost, EnvChained, LoadedOnce, Loading, Innermost

LEMMA StartLoaderStep ==
    ASSUME ReqIInv, NEW n \in Name, NEW env \in Env, StartLoader(n, env)
    PROVE  ReqIInv'
<1> DEFINE new == [name |-> n, saved |-> req.G, env |-> env]
           old == req.running
           fresh == IF Loading(n) THEN req.fresh \ {n} ELSE req.fresh
<1>a. /\ old \in Seq(Loader) /\ new \in Loader /\ ReqTypeOK /\ fresh \subseteq req.fresh
      /\ Append(old, new) \in Seq(Loader)
  BY DEF ReqIInv, ReqTypeOK, Loader
<1>b. req' = [req EXCEPT !.running = Append(@, new), !.G = env, !.loads = @ + 1, !.fresh = fresh]
  BY DEF StartLoader
<1> HIDE DEF new, fresh
<1>c. req' = [loaded |-> req.loaded, preload |-> req.preload, running |-> Append(old, new),
              G |-> env, loads |-> req.loads + 1, got |-> req.got, fresh |-> fresh]
  BY <1>a, <1>b DEF ReqTypeOK
<1>0. /\ req'.running = Append(old, new) /\ req'.G = env /\ req'.loaded = req.loaded
      /\ req'.got = req.got /\ req'.fresh = fresh
  BY <1>c
<1>1. ReqTypeOK'
  BY <1>a, <1>c DEF ReqTypeOK
<1>2. /\ Len(req'.running) = Len(old) + 1 /\ req'.running[Len(old) + 1] = new
      /\ \A i \in 1 .. Len(old) : req'.running[i] = old[i]
      /\ DOMAIN req'.running = 1 .. Len(old) + 1 /\ DOMAIN old = 1 .. Len(old)
  BY <1>0, <1>a
<1>d. req'.running # <<>>
  BY <1>2, <1>a
<1>3. EnvOfInnermost'
  BY <1>0, <1>2, <1>d DEF EnvOfInnermost, Innermost, new
<1>4. EnvChained'
  BY <1>0, <1>2 DEF ReqIInv, EnvChained, EnvOfInnermost, Innermost, new
<1>5. LoadedOnce'
  <2> SUFFICES ASSUME NEW m \in req'.fresh
               PROVE  /\ \A i, j \in 1 .. Len(req'.running) :
                           req'.running[i].name = m /\ req'.running[j].name = m => i = j
                      /\ Loading(m)' => req'.loaded[m] = NotLoaded
                      /\ req'.got[m] \subseteq {req'.loaded[m]} \ {NotLoaded}
    BY DEF LoadedOnce
  <2>1. /\ m \in req.fresh /\ (m = n => ~Loading(n))
        /\ \A i, j \in 1 .. Len(old) : old[i].name = m /\ old[j].name = m => i = j
        /\ Loading(m) => req.loaded[m] = NotLoaded
        /\ req.got[m] \subseteq {req.loaded[m]} \ {NotLoaded}
    BY <1>0 DEF ReqIInv, LoadedOnce, fresh
  <2>2. req.loaded[n] = NotLoaded
    BY DEF StartLoader
  <2>3. Loading(m)' => Loading(m) \/ m = n
    BY <1>2 DEF Loading, new
  <2>4. m = n => \A i \in 1 .. Len(old) : old[i].name # m
    BY <1>2, <2>1 DEF Loading
  <2> QED
    BY <1>0, <1>2, <2>1, <2>2, <2>3, <2>4 DEF new
<1> QED
  BY <1>1, <1>3, <1>4, <1>5 DEF ReqIInv

(* Loaders leave, by an error or, the innermost one, with a result.          *)
LEMMA LoadersLeave ==
    ASSUME ReqIInv, ReqTypeOK', NEW depth \in Nat, depth < Len(req.running),
           req'.running = SubSeq(req.running, 1, depth),
           req'.G = req.running[depth + 1].saved, LoadedOnce'
    PROVE  ReqIInv'
<1>0. req.running \in Seq(Loader)
  BY DEF ReqIInv, ReqTypeOK
<1>1. /\ Len(req'.running) = depth
      /\ \A i \in 1 .. depth : req'.running[i] = req.running[i]
  BY <1>0
<1>2. EnvChained'
  <2> DEFINE old == req.running
             new == req'.running
  <2>1. Len(old) \in Nat
    BY <1>0
  <2>2. \A i \in 1 .. Len(old) :
            old[i].saved = IF i = 1 THEN RealG ELSE old[i - 1].env
    BY DEF ReqIInv, EnvChained
  <2>3. Len(new) = depth /\ \A i \in 1 .. depth : new[i] = old[i]
    BY <1>1
  <2> HIDE DEF old, new
  <2>4. ASSUME NEW i \in 1 .. depth
        PROVE  new[i].saved = IF i = 1 THEN RealG ELSE new[i - 1].env
    <3>1. i \in 1 .. Len(old) /\ (i # 1 => i - 1 \in 1 .. depth)
      BY <2>1 DEF old
    <3>2. new[i] = old[i] /\ (i # 1 => new[i - 1] = old[i - 1])
      BY <2>3, <3>1
    <3>3. old[i].saved = IF i = 1 THEN RealG ELSE old[i - 1].env
      BY <2>2, <3>1
    <3> QED
      BY <3>2, <3>3
  <2> QED
    BY <2>3, <2>4 DEF EnvChained, new
<1>3. req.running[depth + 1].saved = IF depth = 0 THEN RealG ELSE req.running[depth].env
  BY <1>0 DEF ReqIInv, EnvChained
<1>4. req'.running = <<>> <=> depth = 0
  BY <1>0, <1>1
<1>5. EnvOfInnermost'
  BY <1>0, <1>1, <1>3, <1>4 DEF EnvOfInnermost, Innermost
<1> QED
  BY <1>2, <1>5 DEF ReqIInv

LEMMA FailLoadersStep ==
    ASSUME ReqIInv, NEW depth \in Nat, FailLoaders(depth)
    PROVE  ReqIInv'
<1>0. req.running \in Seq(Loader) /\ depth < Len(req.running)
  BY DEF ReqIInv, ReqTypeOK, FailLoaders
<1> DEFINE kept == SubSeq(req.running, 1, depth)
           G == req.running[depth + 1].saved
<1>a. kept \in Seq(Loader) /\ G \in Env
  <2>1. req.running[depth + 1] \in Loader
    BY <1>0
  <2>2. kept \in Seq(Loader)
    BY <1>0
  <2> QED
    BY <2>1, <2>2 DEF Loader
<1>b. req' = [req EXCEPT !.running = kept, !.G = G]
  BY DEF FailLoaders
<1> HIDE DEF kept, G
<1>1. /\ req'.running = kept /\ req'.fresh = req.fresh
      /\ req'.loaded = req.loaded /\ req'.got = req.got /\ req'.G = G
  BY <1>b DEF ReqIInv, ReqTypeOK
<1>3. ReqTypeOK'
  BY <1>a, <1>b DEF ReqIInv, ReqTypeOK
<1> USE DEF kept, G
<1>4. /\ Len(req'.running) = depth /\ DOMAIN req'.running = 1 .. depth
      /\ DOMAIN req.running = 1 .. Len(req.running)
      /\ \A i \in 1 .. depth : req'.running[i] = req.running[i]
  BY <1>0, <1>1
<1>5. \A n \in Name : Loading(n)' => Loading(n)
  BY <1>0, <1>4 DEF Loading
<1>6. LoadedOnce'
  <2> SUFFICES ASSUME NEW n \in req'.fresh
               PROVE  /\ \A i, j \in 1 .. depth :
                           req'.running[i].name = n /\ req'.running[j].name = n => i = j
                      /\ Loading(n)' => req'.loaded[n] = NotLoaded
                      /\ req'.got[n] \subseteq {req'.loaded[n]} \ {NotLoaded}
    BY <1>4 DEF LoadedOnce
  <2>1. /\ n \in Name
        /\ \A i, j \in 1 .. Len(req.running) :
              req.running[i].name = n /\ req.running[j].name = n => i = j
        /\ Loading(n) => req.loaded[n] = NotLoaded
        /\ req.got[n] \subseteq {req.loaded[n]} \ {NotLoaded}
    BY <1>1 DEF ReqIInv, ReqTypeOK, LoadedOnce
  <2>2. \A i \in 1 .. depth :
           i \in 1 .. Len(req.running) /\ req'.running[i].name = req.running[i].name
    BY <1>0, <1>4
  <2> HIDE DEF kept, G
  <2> QED
    BY <1>1, <1>5, <2>1, <2>2
<1> QED
  BY <1>0, <1>1, <1>3, <1>6, LoadersLeave

LEMMA EndLoaderStep ==
    ASSUME ReqIInv, NEW v \in Int, EndLoader(v)
    PROVE  ReqIInv'
<1> DEFINE top == Len(req.running)
           n == Innermost.name
           result == IF v = NotLoaded THEN True ELSE v
<1>0. /\ req.running \in Seq(Loader) /\ top \in Nat \ {0}
      /\ n \in Name /\ result \in Int \ {NotLoaded} /\ Innermost = req.running[top]
      /\ Innermost.saved \in Env
  <2>1. req.running \in Seq(Loader) /\ top \in Nat \ {0}
    BY DEF ReqIInv, ReqTypeOK, EndLoader
  <2>2. Innermost = req.running[top] /\ Innermost \in Loader
    BY <2>1 DEF Innermost
  <2>3. n \in Name /\ Innermost.saved \in Env
    BY <2>2 DEF Loader
  <2>4. result \in Int \ {NotLoaded}
    BY DEF NotLoaded, True
  <2> QED
    BY <2>1, <2>2, <2>3, <2>4
<1> DEFINE loaded == [req.loaded EXCEPT ![n] = result]
           got == [req.got EXCEPT ![n] = @ \cup {result}]
           kept == SubSeq(req.running, 1, top - 1)
<1>a. /\ loaded \in [Name -> Int] /\ got \in [Name -> SUBSET Int]
      /\ kept \in Seq(Loader) /\ Innermost.saved \in Env
  BY <1>0 DEF ReqIInv, ReqTypeOK
<1>b. req' = [req EXCEPT !.running = kept, !.G = Innermost.saved,
                         !.loaded[n] = result, !.got[n] = @ \cup {result}]
  BY DEF EndLoader, Front
<1> HIDE DEF kept, n, result
<1>c. req' = [loaded |-> loaded, preload |-> req.preload, running |-> kept,
              G |-> Innermost.saved, loads |-> req.loads, got |-> got, fresh |-> req.fresh]
  BY <1>b DEF ReqIInv, ReqTypeOK
<1> HIDE DEF loaded, got
<1>3. ReqTypeOK'
  BY <1>a, <1>c DEF ReqIInv, ReqTypeOK
<1>1. /\ req'.running = kept /\ req'.fresh = req.fresh
      /\ req'.loaded = loaded /\ req'.got = got /\ req'.G = Innermost.saved
  BY <1>c
<1> USE DEF kept, n, loaded, got
<1>2. /\ Len(req'.running) = top - 1 /\ DOMAIN req'.running = 1 .. top - 1
      /\ DOMAIN req.running = 1 .. top /\ req'.running \in Seq(Loader)
      /\ \A i \in 1 .. top - 1 : req'.running[i] = req.running[i]
  BY <1>0, <1>1
<1>4. LoadedOnce'
  <2> SUFFICES ASSUME NEW m \in req'.fresh
               PROVE  /\ \A i, j \in 1 .. top - 1 :
                           req'.running[i].name = m /\ req'.running[j].name = m => i = j
                      /\ Loading(m)' => req'.loaded[m] = NotLoaded
                      /\ req'.got[m] \subseteq {req'.loaded[m]} \ {NotLoaded}
    BY <1>2 DEF LoadedOnce
  <2>1. /\ m \in req.fresh /\ m \in Name
        /\ \A i, j \in 1 .. top : req.running[i].name = m /\ req.running[j].name = m => i = j
        /\ Loading(m) => req.loaded[m] = NotLoaded
        /\ req.got[m] \subseteq {req.loaded[m]} \ {NotLoaded}
    BY <1>1 DEF ReqIInv, ReqTypeOK, LoadedOnce
  <2>2. CASE m = n
    <3>1. Loading(m)
      BY SMTT(30), <1>0, <1>2, <2>2 DEF Loading
    <3>2. ASSUME NEW i \in 1 .. top - 1, req'.running[i].name = m PROVE FALSE
      <4>0. i \in 1 .. top /\ top \in 1 .. top /\ i # top
        BY <1>0
      <4>1. req.running[i].name = m /\ req.running[top].name = m
        BY <1>0, <1>2, <2>2, <3>2
      <4> QED
        BY <2>1, <4>0, <4>1
    <3>3. ~Loading(m)'
      BY <1>2, <3>2 DEF Loading
    <3>4. loaded[m] = result /\ got[m] = req.got[m] \cup {result} /\ req.got[m] = {}
      BY <2>1, <2>2, <3>1 DEF ReqIInv, ReqTypeOK
    <3> QED
      BY <1>0, <1>1, <3>2, <3>3, <3>4
  <2>3. CASE m # n
    <3>1. Loading(m)' => Loading(m)
      BY <1>0, <1>2 DEF Loading
    <3>2. loaded[m] = req.loaded[m] /\ got[m] = req.got[m]
      BY <2>1, <2>3 DEF ReqIInv, ReqTypeOK
    <3>3. \A i \in 1 .. top - 1 : i \in 1 .. top /\ req'.running[i].name = req.running[i].name
      BY <1>0, <1>2
    <3> QED
      BY ZenonT(40), <1>0, <1>1, <2>1, <3>1, <3>2, <3>3
  <2> QED
    BY <2>2, <2>3
<1>5. top - 1 \in Nat /\ top - 1 < Len(req.running) /\ (top - 1) + 1 = top
  BY <1>0
<1>6. /\ req'.running = SubSeq(req.running, 1, top - 1)
      /\ req'.G = req.running[(top - 1) + 1].saved
  BY <1>0, <1>1, <1>5
<1> HIDE DEF kept, top
<1> QED
  BY <1>3, <1>4, <1>5, <1>6, LoadersLeave

LEMMA NextReqIInv ==
    ASSUME ReqIInv, [RequireNext]_req
    PROVE  ReqIInv'
<1>0. ReqTypeOK
  BY DEF ReqIInv
<1>1. ASSUME NEW n \in Name, RequireLoaded(n) PROVE ReqIInv'
  <2>1. ReqTypeOK'
    BY ZenonT(40), <1>0, <1>1 DEF ReqTypeOK, RequireLoaded
  <2> QED
    BY <1>0, <1>1, <2>1, SideStep DEF ReqTypeOK, RequireLoaded
<1>2. ASSUME NEW n \in Name, AssignPreload(n) PROVE ReqIInv'
  <2>1. ReqTypeOK'
    BY <1>0, <1>2 DEF ReqTypeOK, AssignPreload
  <2> QED
    BY <1>0, <1>2, <2>1, SideStep DEF ReqTypeOK, AssignPreload
<1>3. ASSUME NEW n \in Name, NEW env \in Env \cup {req.G}, StartLoader(n, env) PROVE ReqIInv'
  BY <1>0, <1>3, StartLoaderStep DEF ReqTypeOK
<1>4. ASSUME NEW n \in Name, NEW v \in {NotLoaded, MaxLoads + 1}, AssignLoaded(n, v)
      PROVE  ReqIInv'
  <2>1. v \in Int /\ [req.loaded EXCEPT ![n] = v] \in [Name -> Int]
    BY <1>0 DEF ReqTypeOK, NotLoaded
  <2>2. req' = [loaded |-> [req.loaded EXCEPT ![n] = v], preload |-> req.preload,
                running |-> req.running, G |-> req.G, loads |-> req.loads,
                got |-> req.got, fresh |-> req.fresh \ {n}]
    BY <1>0, <1>4 DEF ReqTypeOK, AssignLoaded
  <2>3. ReqTypeOK'
    BY <1>0, <2>1, <2>2 DEF ReqTypeOK
  <2> QED
    BY <1>0, <2>2, <2>3, SideStep DEF ReqTypeOK
<1>5. CASE EndLoader(NotLoaded) \/ EndLoader(req.loads)
  BY <1>0, <1>5, EndLoaderStep DEF ReqTypeOK, NotLoaded
<1>6. ASSUME NEW depth \in 0 .. MaxLoads, FailLoaders(depth) PROVE ReqIInv'
  BY <1>6, FailLoadersStep
<1>7. CASE UNCHANGED req
  BY <1>0, <1>7, SideStep DEF ReqTypeOK
<1> QED
  BY <1>1, <1>2, <1>3, <1>4, <1>5, <1>6, <1>7 DEF RequireNext

LEMMA ReqIInvHolds == RequireSpec => []ReqIInv
BY InitReqIInv, NextReqIInv, PTL DEF RequireSpec

(* Whatever loaders have ended or failed, and at whichever depth an error was *)
(* caught, the program runs under the environment of the innermost loader    *)
(* (L->_G in package.cpp).                                                  *)
THEOREM EnvironmentRestored == RequireSpec => []EnvOfInnermost
<1>1. ReqIInv => EnvOfInnermost
  BY DEF ReqIInv
<1> QED
  BY ReqIInvHolds, <1>1, PTL

(* require returns one value for a name, if nobody else stores under it and    *)
(* no loader requires its own name.                                         *)
THEOREM LoadedOnceOnly == RequireSpec => []OneInstance
<1>1. ReqIInv => OneInstance
  BY DEF ReqIInv, ReqTypeOK, LoadedOnce, OneInstance
<1> QED
  BY ReqIInvHolds, <1>1, PTL
=============================================================================
