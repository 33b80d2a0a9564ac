--------------------------- MODULE PatternsProps ---------------------------
(***************************************************************************)
(* What pattern matching must find. The reference does not search: a way to  *)
(* match gives every item the number of characters it takes, and of all ways *)
(* that work the preferred one is that in which the earliest item takes the  *)
(* most, or the fewest when its suffix is '-'.                                *)
(***************************************************************************)
EXTENDS Patterns, Question, FiniteSets

CONSTANTS Chars, Items, Longer,    \* items, and some patterns of more than MaxItems
          MaxText, MaxItems, MaxPos

\* What a pattern may be made of; "%1" is the only "%n".
AllItems == [op : {"single"}, set : SUBSET Chars, rep : {"", "?", "*", "+", "-"}]
                \cup [op : {"(", "()", ")", "$"}]
                \cup [op : {"back"}, n : {1}]
                \cup [op : {"balance"}, x : Chars, y : Chars]
                \cup [op : {"frontier"}, set : SUBSET (Chars \cup {"NUL"})]

Texts(max) == UNION {[1 .. n -> Chars] : n \in 0 .. max}

Opens(pat, p) == {q \in 1 .. p : pat[q].op = "("}
Closes(pat, p) == {q \in 1 .. p : pat[q].op = ")"}

\* Parentheses pair, '$' is last, and "%1" comes after the first pair.
WellFormed(pat) ==
    /\ \A p \in DOMAIN pat : Cardinality(Closes(pat, p)) <= Cardinality(Opens(pat, p))
    /\ Cardinality(Closes(pat, Len(pat))) = Cardinality(Opens(pat, Len(pat)))
    /\ \A p \in DOMAIN pat :
           /\ pat[p].op = "$" => p = Len(pat)
           /\ pat[p].op = "back" =>
                  /\ \A q \in 1 .. p : pat[q].op # "()"
                  /\ pat[1].op = "("
                  /\ Closes(pat, p) # {} /\ \A q \in 2 .. p : pat[q].op # "("

ASSUME PatternsAssumption ==
    /\ MaxText \in Nat /\ MaxItems \in Nat /\ MaxPos \in Nat
    /\ Items \subseteq AllItems
    /\ \A pat \in Longer : pat \in Seq(AllItems) /\ WellFormed(pat)

Wanted == {pat \in UNION {[1 .. n -> Items] : n \in 0 .. MaxItems} : WellFormed(pat)}

PatternQuestions ==
    [kind : {"pattern"}, src : Texts(MaxText), pat : Wanted]
        \cup [kind : {"pattern"}, src : Texts(MaxText + 1), pat : Longer]
RangeQuestions == [kind : {"range"}, i : -MaxPos .. MaxPos, j : -MaxPos .. MaxPos,
                   len : 0 .. MaxPos - 2]

PatternsNext == Ask(PatternQuestions) \/ Ask(RangeQuestions)

PatternsSpec == Quiet /\ [][PatternsNext]_asked

Takes(rep, n) == CASE rep = "" -> n = 1 [] rep = "?" -> n <= 1
                   [] rep = "+" -> n >= 1 [] OTHER -> TRUE

\* The state behind an item that takes n characters.
WayItem(src, i, n, m) ==
    LET When(c, e) == IF c THEN At(e, m.cap) ELSE Null(<<>>)
        l == ToClose(m.cap)
        again == m.cap[i.n]
    IN  CASE i.op = "(" -> At(m.s, Append(m.cap, [init |-> m.s, len |-> Unfinished]))
          [] i.op = "()" -> At(m.s, Append(m.cap, [init |-> m.s, len |-> Position]))
          [] i.op = ")" -> At(m.s, [m.cap EXCEPT ![l].len = m.s - m.cap[l].init])
          [] i.op = "$" -> When(m.s = Len(src) + 1, m.s)
          [] i.op = "back" ->
               When(/\ m.s + again.len <= Len(src) + 1
                    /\ \A k \in 0 .. again.len - 1 : src[m.s + k] = src[again.init + k],
                    m.s + again.len)
          [] i.op = "balance" -> When(MatchBalance(src, m.s, i) # 0, MatchBalance(src, m.s, i))
          [] i.op = "frontier" ->
               When(CharAt(src, m.s - 1) \notin i.set /\ CharAt(src, m.s) \in i.set, m.s)
          [] OTHER ->
               When(/\ Takes(i.rep, n) /\ m.s + n <= Len(src) + 1
                    /\ \A k \in 0 .. n - 1 : src[m.s + k] \in i.set,
                    m.s + n)

\* The states behind each item when item p takes v[p] characters.
Way(src, pat, s, v) ==
    LET way[p \in 0 .. Len(pat)] ==
            IF p = 0 THEN At(s, <<>>)
            ELSE IF way[p - 1].s = 0 THEN Null(<<>>)
            ELSE WayItem(src, pat[p], v[p], way[p - 1])
    IN  way

End(src, pat, s, v) == Way(src, pat, s, v)[Len(pat)]

Prefers(pat, v, w) ==
    v = w \/ \E p \in DOMAIN pat :
                /\ \A q \in 1 .. p - 1 : v[q] = w[q]
                /\ IF pat[p].op = "single" /\ pat[p].rep = "-" THEN v[p] < w[p] ELSE v[p] > w[p]

Best(src, pat, s) ==
    LET ways == {v \in [DOMAIN pat -> 0 .. Len(src) + 1 - s] :
                    /\ \A p \in DOMAIN pat : pat[p].op # "single" => v[p] = 0
                    /\ End(src, pat, s, v).s # 0}
    IN  IF ways = {} THEN Null(<<>>)
        ELSE End(src, pat, s, CHOOSE v \in ways : \A w \in ways : Prefers(pat, v, w))

(* match backtracks through the suffixes and the captures to the preferred   *)
(* way and no other, and leaves the captures of that way; after a failure it *)
(* leaves none.                                                              *)
MatchPreferred ==
    Of("pattern") =>
        \A s \in 1 .. Len(asked.src) + 1 :
            MatchAt(asked.src, asked.pat, s) = Best(asked.src, asked.pat, s)

(* string.find and string.match: from every start, the leftmost match,       *)
(* whether the search is for plain text, takes the shortcut of "%s*()",      *)
(* skips to the first byte, or is anchored.                                  *)
FindLeftmost ==
    Of("pattern") =>
        \A init \in 1 .. Len(asked.src) + 1, anchor \in BOOLEAN :
          \A by \in SearchedBy(asked.pat, anchor) :
            LET r == Find(asked.src, asked.pat, anchor, init, by)
                Starts == IF anchor THEN {init} ELSE init .. Len(asked.src) + 1
                hits == {s \in Starts : MatchAt(asked.src, asked.pat, s).s # 0}
            IN  IF hits = {} THEN r = Missing
                ELSE /\ r.start \in hits /\ \A s \in hits : r.start <= s
                     /\ [s |-> r.end, cap |-> r.cap] = MatchAt(asked.src, asked.pat, r.start)

\* The pieces lead from one position to another.
Tiles(pieces, from, to) ==
    /\ pieces # <<>> => pieces[1].from = from
    /\ \A k \in 1 .. Len(pieces) - 1 : pieces[k].to = pieces[k + 1].from
    /\ (IF pieces = <<>> THEN from ELSE pieces[Len(pieces)].to) = to

\* The new ones stand for the first max matches of a list.
NewIn(pieces, n) == {k \in 1 .. n : pieces[k].kind = "new"}
Replaces(pieces, matches, max) ==
    /\ Cardinality(NewIn(pieces, Len(pieces)))
           = IF max < Len(matches) THEN max ELSE Len(matches)
    /\ \A k \in NewIn(pieces, Len(pieces)) :
           [from |-> pieces[k].from, to |-> pieces[k].to] = matches[Cardinality(NewIn(pieces, k))]

(* string.gsub: its pieces tile the text; what it replaces are the matches   *)
(* gmatch iterates over, as many of them as it was asked for, and only the   *)
(* first of an anchored pattern, if it is at the start.                      *)
GsubTiles ==
    Of("pattern") =>
        \A n \in 0 .. Len(asked.src) + 1, anchor \in BOOLEAN :
            LET pieces == Gsub(asked.src, asked.pat, anchor, n)
                all == Gmatch(asked.src, asked.pat)
                wanted == IF ~anchor THEN all
                          ELSE IF all # <<>> /\ all[1].from = 1 THEN SubSeq(all, 1, 1) ELSE <<>>
            IN  Tiles(pieces, 1, Len(asked.src) + 1) /\ Replaces(pieces, wanted, n)

(* posrelat and getendpos: the characters string.sub copies and string.byte  *)
(* reads are those of the text between the positions counted from the left,  *)
(* or from the right when negative, and nothing outside it.                  *)
RangeInside ==
    Of("range") =>
        LET Counted(k) == IF k < 0 THEN asked.len + 1 + k ELSE k
            inside == {n \in 1 .. asked.len : Counted(asked.i) <= n /\ n <= Counted(asked.j)}
            Copied(r) == r.from .. r.to
        IN  /\ Copied(Sub(asked.i, asked.j, asked.len)) = inside
            /\ Copied(Byte(asked.i, asked.j, asked.len)) = inside
=============================================================================
