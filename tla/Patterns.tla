------------------------------ MODULE Patterns ------------------------------
(***************************************************************************)
(* Pattern matching of the string library: match and the functions it calls, *)
(* and the searches built on it (find, gmatch, gsub). A pattern is the        *)
(* sequence of its items, so that its text is parsed already; a text is a    *)
(* sequence of characters, and a position in it 1 .. Len + 1. What calls itself  *)
(* in the code is a recursive function here. Calls pass on the captures, which *)
(* the code keeps in MatchState and puts back itself when an attempt fails.    *)
(***************************************************************************)
EXTENDS Integers, Sequences

CONSTANT Spaces      \* the characters of "%s"

\* Items: a set of characters with its suffix, "(", "()", ")", "$", "%n",
\* "%bxy" and "%f[set]".
Single(set, rep) == [op |-> "single", set |-> set, rep |-> rep]
Item(op) == [op |-> op]
Back(n) == [op |-> "back", n |-> n]
Balance(x, y) == [op |-> "balance", x |-> x, y |-> y]
Frontier(set) == [op |-> "frontier", set |-> set]

Unfinished == -1
Position == -2

\* What match returns: a position, or 0 for NULL, and the captures it leaves.
At(s, cap) == [s |-> s, cap |-> cap]
Null(cap) == [s |-> 0, cap |-> cap]

Positions(src) == 1 .. Len(src) + 1
Captures(src) == [init : Positions(src), len : {Position, Unfinished} \cup 0 .. Len(src)]
States(src) == [s : Positions(src), cap : Seq(Captures(src))]

CharAt(src, s) == IF s \in DOMAIN src THEN src[s] ELSE "NUL"

SingleMatch(src, s, item) == s \in DOMAIN src /\ src[s] \in item.set

\* capture_to_close: the innermost capture that is still open.
ToClose(cap) ==
    CHOOSE l \in DOMAIN cap :
        cap[l].len = Unfinished /\ \A k \in DOMAIN cap : k > l => cap[k].len # Unfinished

\* match_capture: the text of capture n again.
MatchBack(src, s, c) ==
    IF Len(src) + 1 - s >= c.len /\ SubSeq(src, c.init, c.init + c.len - 1)
                                     = SubSeq(src, s, s + c.len - 1)
    THEN s + c.len ELSE 0

\* matchbalance: the first position where as many y as x have been met.
MatchBalance(src, s, item) ==
    LET depth[n \in s .. Len(src)] ==
            IF n = s THEN 1
            ELSE depth[n - 1] + (IF src[n] = item.y THEN -1
                                 ELSE IF src[n] = item.x THEN 1 ELSE 0)
        ends == {n \in s + 1 .. Len(src) : src[n] = item.y /\ depth[n] = 0}
    IN  IF CharAt(src, s) # item.x \/ ends = {} THEN 0
        ELSE (CHOOSE n \in ends : \A k \in ends : n <= k) + 1

\* Mutant: the level stays when the rest does not match.
StartCaptureKept(rest, m, what) == rest[At(m.s, Append(m.cap, [init |-> m.s, len |-> what]))]

\* start_capture: the level goes back when the rest does not match.
StartCapture(rest, m, what) ==
    LET r == rest[At(m.s, Append(m.cap, [init |-> m.s, len |-> what]))]
    IN  IF r.s = 0 THEN Null(SubSeq(r.cap, 1, Len(r.cap) - 1)) ELSE r

\* end_capture: the capture is open again when the rest does not match.
EndCapture(rest, m) ==
    LET l == ToClose(m.cap)
        r == rest[At(m.s, [m.cap EXCEPT ![l].len = m.s - m.cap[l].init])]
    IN  IF r.s = 0 THEN Null([r.cap EXCEPT ![l].len = Unfinished]) ELSE r

\* The most characters of the item's set there are from s on.
Most(src, s, item) ==
    LET takes == {i \in 0 .. Len(src) + 1 - s :
                      \A k \in 0 .. i - 1 : SingleMatch(src, s + k, item)}
    IN  CHOOSE i \in takes : \A k \in takes : k <= i

\* max_expand and min_expand: the positions at which they try the rest.
MaxExpand(src, s, item) ==
    LET most == Most(src, s, item) IN [k \in 1 .. most + 1 |-> s + most + 1 - k]
MinExpand(src, s, item) == [k \in 1 .. Most(src, s, item) + 1 |-> s + k - 1]

\* The same for every suffix: the default branch of match.
Tried(src, s, item) ==
    IF ~SingleMatch(src, s, item)
    THEN IF item.rep \in {"*", "?", "-"} THEN <<s>> ELSE <<>>
    ELSE CASE item.rep = "?" -> <<s + 1, s>>
           [] item.rep = "+" -> MaxExpand(src, s + 1, item)
           [] item.rep = "*" -> MaxExpand(src, s, item)
           [] item.rep = "-" -> MinExpand(src, s, item)
           [] OTHER -> <<s + 1>>

\* Their loops: the first attempt that succeeds; the captures that one leaves
\* when it fails are those the next begins with.
FirstMatch(rest, tried, cap) ==
    LET after[k \in 0 .. Len(tried)] ==
            IF k = 0 THEN Null(cap)
            ELSE IF after[k - 1].s # 0 THEN after[k - 1]
            ELSE rest[At(tried[k], after[k - 1].cap)]
    IN  after[Len(tried)]

\* One item of the pattern; rest is what match returns for the items behind it.
MatchItem(src, item, rest, m) ==
    LET Goto(e) == IF e = 0 THEN Null(m.cap) ELSE rest[At(e, m.cap)]
    IN  CASE item.op = "(" -> StartCapture(rest, m, Unfinished)
          [] item.op = "()" -> StartCapture(rest, m, Position)
          [] item.op = ")" -> EndCapture(rest, m)
          [] item.op = "$" -> IF m.s = Len(src) + 1 THEN m ELSE Null(m.cap)
          [] item.op = "back" -> Goto(MatchBack(src, m.s, m.cap[item.n]))
          [] item.op = "balance" -> Goto(MatchBalance(src, m.s, item))
          [] item.op = "frontier" ->
               Goto(IF CharAt(src, m.s - 1) \notin item.set
                       /\ CharAt(src, m.s) \in item.set THEN m.s ELSE 0)
          [] OTHER -> FirstMatch(rest, Tried(src, m.s, item), m.cap)

\* match, for each position in the pattern.
Match(src, pat) ==
    LET match[p \in 1 .. Len(pat) + 1] ==
            [m \in States(src) |-> IF p > Len(pat) THEN m
                                   ELSE MatchItem(src, pat[p], match[p + 1], m)]
    IN  match

----------------------------------------------------------------------------
(* The searches. anchor says that the pattern began with '^'.                *)

MatchAt(src, pat, s) == Match(src, pat)[1][At(s, <<>>)]

Literal(item) == item.op = "single" /\ item.rep = "" /\ \E c \in item.set : item.set = {c}
FirstByte(pat) == CHOOSE c \in pat[1].set : TRUE

\* Mutant: a literal followed by a suffix counts as the first byte.
CanSkipRepeated(pat, anchor) ==
    ~anchor /\ pat # <<>> /\ pat[1].op = "single" /\ \E c \in pat[1].set : pat[1].set = {c}

\* literal_first_byte: a search may skip to the next occurrence of it.
CanSkip(pat, anchor) == ~anchor /\ pat # <<>> /\ Literal(pat[1])

NextByte(src, s, c) ==
    LET later == {n \in s + 1 .. Len(src) : src[n] = c}
    IN  IF later = {} THEN 0 ELSE CHOOSE n \in later : \A k \in later : n <= k

\* lmemfind: the search for a pattern without special characters.
FindPlain(src, pat, init) ==
    LET find[s1 \in Positions(src)] ==
            LET first == {n \in s1 .. Len(src) + 1 - Len(pat) : src[n] = FirstByte(pat)}
                n == CHOOSE n \in first : \A k \in first : n <= k
            IN  IF first = {} THEN 0
                ELSE IF \A k \in 1 .. Len(pat) - 1 : src[n + k] \in pat[k + 1].set THEN n
                ELSE find[n + 1]
    IN  IF pat = <<>> THEN init ELSE find[init]

NoSpecials(pat) == \A p \in DOMAIN pat : Literal(pat[p])

Found(start, r) == [start |-> start, end |-> r.s, cap |-> r.cap]
Missing == [start |-> 0, end |-> 0, cap |-> <<>>]

\* The loop over the starts: the first one with a match, or 0.
Scan(src, pat, anchor, init) ==
    LET scan[s1 \in Positions(src)] ==
            LET next == IF CanSkip(pat, anchor) /\ s1 <= Len(src)
                        THEN NextByte(src, s1, FirstByte(pat)) ELSE s1 + 1
            IN  IF MatchAt(src, pat, s1).s # 0 THEN s1
                ELSE IF anchor \/ next = 0 \/ next > Len(src) + 1 THEN 0 ELSE scan[next]
    IN  scan[init]

\* The shortcut of "%s*()".
FindSpaces(src, pat, init) ==
    LET e == init + Most(src, init, pat[1]) IN At(e, <<[init |-> e, len |-> Position]>>)

\* How str_find_aux may search. The items do not tell how they are written, nor
\* whether find or match is called: match scans for literals too, and find does
\* when one is escaped; the plain argument makes a literal of every character.
SearchedBy(pat, anchor) ==
    {"scan"}
        \cup (IF ~anchor /\ NoSpecials(pat) THEN {"plain"} ELSE {})
        \cup (IF ~anchor /\ pat = <<Single(Spaces, "*"), Item("()")>> THEN {"spaces"} ELSE {})

\* str_find_aux from init, the result of posrelat.
Find(src, pat, anchor, init, by) ==
    LET s == CASE by = "plain" -> FindPlain(src, pat, init)
               [] by = "spaces" -> init
               [] OTHER -> Scan(src, pat, anchor, init)
        r == CASE by = "plain" -> At(s + Len(pat), <<>>)
               [] by = "spaces" -> FindSpaces(src, pat, init)
               [] OTHER -> MatchAt(src, pat, s)
    IN  IF init > Len(src) + 1 \/ s = 0 THEN Missing ELSE Found(s, r)

\* gmatch_aux, called until it finds nothing: the matches it returns, after one
\* that ended at last, or all of them (0).
Gmatch(src, pat) ==
    LET gmatch[last \in 0 .. Len(src) + 1] ==
            LET from == IF last = 0 THEN 1 ELSE last
                hits == {s \in from .. Len(src) + 1 : MatchAt(src, pat, s).s \notin {0, last}}
                s == CHOOSE n \in hits : \A k \in hits : n <= k
                e == MatchAt(src, pat, s).s
            IN  IF hits = {} THEN <<>> ELSE <<[from |-> s, to |-> e]>> \o gmatch[e]
    IN  gmatch[0]

\* Mutant: an empty match right after the last one is accepted.
SubstitutesTwice(src, pat, pos, last) ==
    MatchAt(src, pat, pos).s # 0 /\ (pos <= Len(src) \/ last # pos)

\* The condition of gsub's loop for a replacement at pos.
Substitutes(src, pat, pos, last) == MatchAt(src, pat, pos).s \notin {0, last}

\* What gsub appends: a stretch of the text, or what replaces it.
Kept(from, to) == [kind |-> "kept", from |-> from, to |-> to]
New(from, to) == [kind |-> "new", from |-> from, to |-> to]

\* The tail of the text, behind the loop.
Remaining(src, pos) == IF pos <= Len(src) THEN <<Kept(pos, Len(src) + 1)>> ELSE <<>>

\* gsub: the pieces of the result when it may still replace n matches.
Gsub(src, pat, anchor, max) ==
    LET gsub[t \in [n : 0 .. max, pos : Positions(src), last : 0 .. Len(src) + 1]] ==
            LET e == MatchAt(src, pat, t.pos).s
                next == NextByte(src, t.pos, FirstByte(pat))
                span == IF ~CanSkip(pat, anchor) THEN t.pos + 1
                        ELSE IF next = 0 THEN Len(src) + 1 ELSE next
                Rest(n, pos, last) ==
                    IF anchor THEN Remaining(src, pos)
                    ELSE gsub[[n |-> n, pos |-> pos, last |-> last]]
            IN  IF t.n = 0 THEN Remaining(src, t.pos)
                ELSE IF Substitutes(src, pat, t.pos, t.last)
                THEN <<New(t.pos, e)>> \o Rest(t.n - 1, e, e)
                ELSE IF t.pos <= Len(src) THEN <<Kept(t.pos, span)>> \o Rest(t.n, span, t.last)
                ELSE <<>>
    IN  gsub[[n |-> max, pos |-> 1, last |-> 0]]

----------------------------------------------------------------------------
(* Positions given by the program: posrelat and getendpos.                   *)

PosRelat(pos, len) ==
    IF pos > 0 THEN pos ELSE IF pos = 0 \/ pos < -len THEN 1 ELSE len + pos + 1

\* Mutant: a position before the text counts as its first character.
EndPosFirst(pos, len) ==
    IF pos > len THEN len ELSE IF pos >= 0 THEN pos
    ELSE IF pos < -len THEN 1 ELSE len + pos + 1

GetEndPos(pos, len) ==
    IF pos > len THEN len ELSE IF pos >= 0 THEN pos
    ELSE IF pos < -len THEN 0 ELSE len + pos + 1

\* string.sub: the range it copies, after its shortcut for plain positions.
Sub(i, j, len) ==
    IF i >= 1 /\ j >= i /\ j <= len THEN [from |-> i, to |-> j]
    ELSE [from |-> PosRelat(i, len), to |-> GetEndPos(j, len)]

\* string.byte: the range it reads; the end defaults to the start as given.
Byte(i, j, len) == [from |-> PosRelat(i, len), to |-> GetEndPos(j, len)]
=============================================================================
