-------------------------------- MODULE MCGC --------------------------------
(***************************************************************************)
(* Instances of GC for TLC.  The runs about the program and the collector   *)
(* start from Init.  The runs about finalizers start from a program that    *)
(* has already built a table d whose metatable m holds the closure f under  *)
(* "__gc", and holds d in a local variable; getting there takes a dozen     *)
(* steps of the program and up to two minors, which Init would have to search.    *)
(***************************************************************************)
EXTENDS GCProps, TLC

CONSTANTS g, a, d, m, f, v, c1, nil,
    Shape       \* what the finalized table looks like

InHeap == {g, d, m, f} \cup (CASE Shape = "child" -> {v}
                                [] Shape = "chain" -> {a}
                                [] OTHER -> {})

(* "young": nothing was collected yet.  "child": m and f have grown old, and *)
(* d.child = v.  "chain": d is the metatable of a, and the program holds a    *)
(* only, as it may hold an object of a class whose metatable is m.          *)
WarmInit ==
    /\ where = [o \in Obj |-> IF o \in InHeap THEN "heap" ELSE "pool"]
    /\ age = [o \in Obj |-> IF o \in {d, v} \/ Shape # "child" THEN "young" ELSE "old"]
    /\ fields = [o \in Obj |-> CASE o = m -> {f}
                                 [] o = d /\ Shape = "child" -> {v}
                                 [] OTHER -> {}]
    /\ meta = [o \in Obj |-> CASE o = d -> m
                               [] o = a /\ Shape = "chain" -> d
                               [] OTHER -> Nil]
    /\ caps = [o \in Obj |-> {}]
    /\ cell = [c \in Cell |-> Nil]
    /\ rem = {} /\ remCell = {} /\ pinned = {} /\ recent = {}
    /\ stack = IF Shape = "chain" THEN {a} ELSE {d}
    /\ mode = "generational" /\ phase = "idle" /\ full = FALSE /\ running = Nil

WarmSpec == WarmInit /\ [][Next]_vars
=============================================================================
