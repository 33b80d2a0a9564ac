------------------------------ MODULE MCValues ------------------------------
(***************************************************************************)
(* Every question of the modules about values, put once.                     *)
(***************************************************************************)
EXTENDS NumbersProps, PatternsProps

MCChars == {"a", "b"}
MCSpaces == {"a"}
MCItems ==
    {Single({"a"}, rep) : rep \in {"", "*", "+"}}
        \cup {Single({"a", "b"}, rep) : rep \in {"*", "-"}}
        \cup {Single({"b"}, ""), Single({"b"}, "?")}
        \cup {Item(op) : op \in {"(", "()", ")", "$"}}
        \cup {Back(1), Balance("a", "b"), Frontier({"b"}), Frontier({"a", "NUL"})}
MCLonger ==
    LET any(rep) == Single({"a", "b"}, rep)
        as(rep) == Single({"a"}, rep)
        open == Item("(")
        close == Item(")")
    IN  {<<open, any("-"), close, Back(1)>>,
         <<open, as("*"), close, as("*"), Back(1)>>,
         <<open, any("*"), open, Single({"b"}, "?"), close, close, Item("$")>>,
         <<open, as("+"), close, open, any("-"), close, Single({"b"}, "")>>,
         <<any("*"), Item("()"), Single({"b"}, "+"), as("?"), Item("$")>>}

Next ==
    \/ NumbersNext
    \/ PatternsNext

Spec == Quiet /\ [][Next]_asked
=============================================================================
