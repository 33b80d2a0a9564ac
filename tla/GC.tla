--------------------------------- MODULE GC ---------------------------------
(***************************************************************************)
(* The generational collector of the clx runtime (src/runtime/gc.cpp), its  *)
(* allocation sites (state.cpp) and its write barriers (clx_runtime.h,      *)
(* clx.h).  One Lua program runs on the main thread; coroutines are added   *)
(* by CoroutineRoots.                                                       *)
(*                                                                          *)
(* Objects are tables (fields, an optional metatable) and closures, which   *)
(* reach their captured variables through cells.  Marking and sweeping are  *)
(* one step each, as nothing runs between them; draining the finalizer list *)
(* runs Lua code, so every finalizer is two steps, and what the finalizer   *)
(* does to the heap happens between them.  Byte counts are abstracted: a    *)
(* collection may start whenever the code would let one start.              *)
(***************************************************************************)
EXTENDS Reachability, FiniteSets, Integers

CONSTANTS
    Fun,        \* the objects that are closures (LCFunction); the rest are tables
    Cell,       \* captured-variable cells (LUpValue)
    Global,     \* the global table _G
    Nil,
    ProgOps,    \* what the program does to the heap between collections
    FinOps,     \* what finalizers do to it (see Runs)
    Metas,      \* the tables the program uses as metatables
    Modes,      \* collector modes the program selects
    MaxStack,   \* bound: values held in root frames
    MaxFields   \* bound: children stored in one table

ASSUME FunAssumption == Fun \subseteq Obj
ASSUME GlobalAssumption == Global \in Obj \ Fun
ASSUME NilAssumption == Nil \notin Obj
ASSUME OpsAssumption ==
    /\ ProgOps \subseteq {"rewire", "return", "alloc"}
    /\ FinOps \subseteq {"rewire", "return", "alloc", "keep"}
ASSUME MetasAssumption == Metas \subseteq Obj \ Fun
ASSUME ModesAssumption == Modes \subseteq {"generational", "incremental"}

VARIABLES
    where,      \* "pool" free list, "heap" either allocation chain, "fin" gc_finalizable
    age,        \* LHeader::age, kept while the object is pooled
    fields,     \* array and hash part of a table
    meta,       \* LTableExt::metatable
    caps,       \* LCFunction::gc_cells
    cell,       \* what each cell holds
    rem,        \* gc_remembered, the objects flagged LFLAG_REMEMBERED
    remCell,    \* gc_remembered_cells
    pinned,     \* gc_pinned, the objects flagged LFLAG_GC_PIN
    recent,     \* gc_recent: allocated since the previous collection
    stack,      \* values aliased by the root frames (top_root chain)
    mode,       \* gc_mode
    phase,      \* what of a collection is still to be done
    full,       \* a full collection follows the minor being drained
    running     \* the object whose __gc is executing, or Nil

heapVars == <<where, age, fields, meta, caps, cell>>
gcVars == <<rem, remCell, pinned, recent>>
ctlVars == <<mode, phase, full, running>>
vars == <<heapVars, gcVars, stack, ctlVars>>

Tables == Obj \ Fun

TypeOK ==
    /\ where \in [Obj -> {"pool", "heap", "fin"}]
    /\ age \in [Obj -> {"young", "survivor", "old"}]
    /\ fields \in [Obj -> SUBSET Obj]
    /\ meta \in [Obj -> Obj \cup {Nil}]
    /\ caps \in [Obj -> SUBSET Cell]
    /\ cell \in [Cell -> Obj \cup {Nil}]
    /\ \A o \in Tables : caps[o] = {}
    /\ \A o \in Fun : fields[o] = {} /\ meta[o] = Nil
    /\ rem \subseteq Obj /\ pinned \subseteq Obj /\ recent \subseteq Obj
    /\ remCell \subseteq Cell
    /\ stack \subseteq Obj
    /\ mode \in {"generational", "incremental"}
    /\ phase \in {"idle", "minorDrain", "major", "majorDrain"}
    /\ full \in BOOLEAN
    /\ running \in Obj \cup {Nil}

-----------------------------------------------------------------------------
(* The object graph. *)

Heap == {o \in Obj : where[o] = "heap"}
Pool == {o \in Obj : where[o] = "pool"}

NonOld(S) == {o \in S : age[o] # "old"}

(* LCFunction::env, _G unless the program gave the closure another table. *)
Env(o) == IF o \in Fun /\ where[o] # "pool" THEN {Global} ELSE {}

Kids(o) ==
    (fields[o] \cup {meta[o]} \cup {cell[c] : c \in caps[o]} \cup Env(o)) \ {Nil}

KidsMap == [o \in Obj |-> Kids(o)]

Roots == {Global} \cup stack

(* What the program can still use. *)
Live == Closure(Roots, KidsMap)

(* The closures a metatable holds; the code looks one up under "__gc". *)
GcFun(o) == IF meta[o] = Nil THEN {} ELSE fields[meta[o]] \cap Fun

-----------------------------------------------------------------------------
(* Who runs: the program between collections, and during a drain the       *)
(* finalizer, as far as the constants say they do such a thing: "rewire"    *)
(* stores and assigns, "return" ends a block, "alloc" creates objects,      *)
(* "keep" leaves something only the finalizer holds to the program.         *)

Runs(op) ==
    \/ phase = "idle" /\ op \in ProgOps
    \/ running # Nil /\ op \in FinOps

(* Mutant: a barrier that, like setmetatable's, looks for young values only. *)
BarrierForYoung(owner, v) ==
    IF age[owner] # "young" /\ age[v] = "young" THEN rem \cup {owner} ELSE rem

(* gc_barrier_table + gc_barrier_header: an old or survivor owner that gets *)
(* a non-old value is remembered.                                           *)
Barrier(owner, v) ==
    IF age[owner] # "young" /\ age[v] # "old" THEN rem \cup {owner} ELSE rem

(* t[k] = v *)
Store(o, v) ==
    /\ Runs("rewire")
    /\ v \notin fields[o]
    /\ Cardinality(fields[o]) < MaxFields
    /\ fields' = [fields EXCEPT ![o] = @ \cup {v}]
    /\ rem' = Barrier(o, v)
    /\ UNCHANGED <<where, age, meta, caps, cell, remCell, pinned, recent, stack, ctlVars>>

(* t[k] = nil *)
Erase(o, v) ==
    /\ Runs("rewire")
    /\ fields' = [fields EXCEPT ![o] = @ \ {v}]
    /\ UNCHANGED <<where, age, meta, caps, cell, gcVars, stack, ctlVars>>

(* setmetatable: its barrier looks only for a young metatable of an old    *)
(* table; a survivor metatable is left to the protect pass of a minor.      *)
SetMeta(o, m) ==
    /\ Runs("rewire")
    /\ m # meta[o]
    /\ meta' = [meta EXCEPT ![o] = m]
    /\ rem' = IF m # Nil /\ age[o] = "old" /\ age[m] = "young"
              THEN rem \cup {o} ELSE rem
    /\ UNCHANGED <<where, age, fields, caps, cell, remCell, pinned, recent, stack, ctlVars>>

(* Mutant: a cell barrier that looks for young values only. *)
UpvalStoreForYoung(f, c, v) ==
    /\ Runs("rewire")
    /\ v # cell[c]
    /\ cell' = [cell EXCEPT ![c] = v]
    /\ remCell' = IF age[v] = "young" THEN remCell \cup {c} ELSE remCell
    /\ UNCHANGED <<where, age, fields, meta, caps, rem, pinned, recent, stack, ctlVars>>

(* upval_store + gc_barrier_cell: a captured variable is assigned. *)
UpvalStore(f, c, v) ==
    /\ Runs("rewire")
    /\ v # cell[c]
    /\ cell' = [cell EXCEPT ![c] = v]
    /\ remCell' = IF age[v] # "old" THEN remCell \cup {c} ELSE remCell
    /\ UNCHANGED <<where, age, fields, meta, caps, rem, pinned, recent, stack, ctlVars>>

(* A local variable takes a value the program can reach; a block ends. *)
Push(v) ==
    /\ Runs("rewire")
    /\ v \notin stack
    /\ Cardinality(stack) < MaxStack
    /\ stack' = stack \cup {v}
    /\ UNCHANGED <<heapVars, gcVars, ctlVars>>

Pop(v) ==
    /\ Runs("return")
    /\ stack' = stack \ {v}
    /\ UNCHANGED <<heapVars, gcVars, ctlVars>>

(* What a finalizer gets hold of: its argument, what it captured, and what  *)
(* either leads to.                                                         *)
HeldByFinalizer == Closure({running} \cup GcFun(running), KidsMap)

(* A finalizer leaves something it holds where the program finds it. *)
Keep(v) ==
    /\ running # Nil /\ "keep" \in FinOps
    /\ v \in HeldByFinalizer \ stack /\ Cardinality(stack) < MaxStack
    /\ stack' = stack \cup {v}
    /\ UNCHANGED <<heapVars, gcVars, ctlVars>>

(* What allocation does to every object: taken from a free list (a fresh    *)
(* object is one that was never used), young, unmarked, pinned when it is   *)
(* recycled from an older object while a collection is under way.           *)
Allocate(o) ==
    /\ o \in Pool /\ Cardinality(stack) < MaxStack
    /\ where' = [where EXCEPT ![o] = "heap"]
    /\ age' = [age EXCEPT ![o] = "young"]
    /\ pinned' = IF age[o] # "young" /\ phase # "idle" THEN pinned \cup {o} ELSE pinned
    /\ recent' = recent \cup {o}
    /\ stack' = stack \cup {o}

CreateTable(o) ==
    /\ Runs("alloc")
    /\ Allocate(o)
    /\ fields' = [fields EXCEPT ![o] = {}]
    /\ meta' = [meta EXCEPT ![o] = Nil]
    /\ UNCHANGED <<caps, cell, rem, remCell, ctlVars>>

(* A closure captures a variable that holds v: in a cell of its own, or in  *)
(* the cell it shares with a closure that captured the same variable.       *)
CreateClosure(f, c, v) ==
    /\ Runs("alloc")
    /\ \/ c \notin remCell /\ \A h \in Obj : c \notin caps[h]
       \/ v = cell[c] /\ \E h \in Live : c \in caps[h]
    /\ Allocate(f)
    /\ caps' = [caps EXCEPT ![f] = {c}]
    /\ cell' = [cell EXCEPT ![c] = v]
    /\ UNCHANGED <<fields, meta, rem, remCell, ctlVars>>

SetMode(m) ==
    /\ phase = "idle" /\ m \in Modes \ {mode}
    /\ mode' = m
    /\ UNCHANGED <<heapVars, gcVars, stack, phase, full, running>>

-----------------------------------------------------------------------------
(* gc_dispose_swept: a swept table with a metatable goes to gc_finalizable, *)
(* everything else to its free list.  Flags are cleared.                    *)

Disposed(D) ==
    [o \in Obj |-> IF o \notin D THEN where[o]
                   ELSE IF meta[o] # Nil THEN "fin" ELSE "pool"]

Sweep(D) ==
    LET gone == {o \in D : meta[o] = Nil}
    IN  /\ where' = Disposed(D)
        /\ fields' = [o \in Obj |-> IF o \in gone THEN {} ELSE fields[o]]
        /\ caps' = [o \in Obj |-> IF o \in gone THEN {} ELSE caps[o]]
        /\ UNCHANGED meta

(* A cell lives as long as a closure or gc_remembered_cells shares it. *)
ReleaseCells ==
    cell' = [c \in Cell |-> IF c \in remCell' \/ \E o \in Obj : c \in caps'[o]
                            THEN cell[c] ELSE Nil]

NextAge(a) == IF a = "young" THEN "survivor" ELSE "old"

(* Metatables of the listed tables (metatabled_tables). *)
MetaOf(S) == {meta[o] : o \in S} \ {Nil}

(* A promoted object is scanned when the sweep comes to it: it is           *)
(* remembered if it then has a non-old child.  A child promoted in the same *)
(* sweep counts or not, depending on which of the two comes first.          *)
SurelyRemembered(scanned, newAge) ==
    {o \in scanned : \E k \in Kids(o) : newAge[k] # "old"}

PerhapsRemembered(scanned, promoted) ==
    {o \in scanned : (Kids(o) \ {o}) \cap promoted # {}}

(***************************************************************************)
(* gc_minor: mark the young objects from the roots, the remembered owners   *)
(* and the remembered cells, protect the metatables of unmarked tables,     *)
(* sweep the young chain, drop the remembered entries and the pins that     *)
(* are no longer needed.                                                    *)
(***************************************************************************)
YoungKids == [o \in Obj |-> IF age[o] = "old" THEN {} ELSE NonOld(Kids(o))]

MinorSeeds ==
    NonOld(Roots \cup rem \cup ({cell[c] : c \in remCell} \ {Nil}))
        \cup UNION {NonOld(Kids(o)) : o \in {x \in rem : age[x] = "old"}}

MinorReached == Closure(MinorSeeds, YoungKids)

(* Mutant: no protect pass. *)
NothingProtected == {}

MinorProtected ==
    NonOld(MetaOf(Heap \ MinorReached))

MinorMarked == Closure(MinorReached \cup MinorProtected, YoungKids)

MinorDead ==
    {o \in NonOld(Heap) \ MinorMarked :
        age[o] = "survivor" \/ o \notin pinned \cup rem}

(* Mutant: an old owner is forgotten once its children were traced. *)
ForgetOldOwners == {o \in rem : age[o] # "old"}

(* Entries kept: non-old objects, old owners that still have a young child. *)
StillRemembered ==
    {o \in rem : age[o] # "old" \/ NonOld(Kids(o)) # {}}

Minor(wantFull) ==
    /\ phase = "idle" /\ mode = "generational"
    /\ LET marked == Heap \cap MinorMarked
           promoted == {o \in marked : age[o] = "survivor"}
           dead == MinorDead
       IN
       /\ age' = [o \in Obj |-> IF o \in marked THEN NextAge(age[o]) ELSE age[o]]
       /\ Sweep(dead)
       /\ \E spurious \in SUBSET PerhapsRemembered(promoted, promoted) :
             rem' = StillRemembered \cup SurelyRemembered(promoted, age') \cup spurious
       /\ phase' = IF \E o \in dead : meta[o] # Nil THEN "minorDrain"
                   ELSE IF wantFull THEN "major" ELSE "idle"
    /\ remCell' = {c \in remCell : cell[c] # Nil /\ age'[cell[c]] # "old"}
    /\ ReleaseCells
    /\ pinned' = {}
    /\ recent' = {}
    /\ full' = wantFull
    /\ UNCHANGED <<stack, mode, running>>

(***************************************************************************)
(* collect_garbage_full with its gc_step loop: mark from the roots and from *)
(* gc_recent, mark with 2 what the metatables of dead tables hold (through  *)
(* tables only), drop the remembered entries this proves dead, sweep both   *)
(* chains.  In generational mode every survivor of the sweep becomes old    *)
(* unless it is remembered or pinned, but only one that was a survivor is   *)
(* scanned for young children.                                              *)
(***************************************************************************)
MajorReached == Closure(Roots \cup recent, KidsMap)

DeadWithMeta == {o \in Heap \ MajorReached : meta[o] # Nil}

(* A table already marked as another one's metatable when the pass comes to *)
(* it is passed over: of those that are not, the first comes after no table  *)
(* whose metatable it is, and so on.                                        *)
PassedOver(skip) ==
    LET taken == DeadWithMeta \ skip
    IN  /\ skip \subseteq MetaOf(taken)
        /\ \A T \in SUBSET taken \ {{}} :
               \E o \in T : meta[o] \notin T \ {o}

ProtectKids ==
    [o \in Obj |-> IF o \in Fun \cup MajorReached THEN {} ELSE fields[o] \ MajorReached]

MajorProtected(skip) ==
    Closure(MetaOf(DeadWithMeta \ skip) \ MajorReached, ProtectKids)

(* Mutant: a full collection leaves gc_remembered as it is. *)
KeepAllRemembered(marked) == rem

(* Entries kept: those the mark reached.  The sweep spares them. *)
KeptRemembered(marked) == rem \cap marked

MajorSweep(skip) ==
    LET marked == MajorReached \cup MajorProtected(skip)
        spared == KeptRemembered(marked) \cup pinned
        dead == Heap \ (marked \cup spared)
        promoted == IF mode = "generational" THEN NonOld(Heap \ (dead \cup spared)) ELSE {}
        scanned == {o \in promoted \cap MajorReached : age[o] = "survivor"}
    IN
    /\ age' = [o \in Obj |-> IF o \in promoted THEN "old" ELSE age[o]]
    /\ Sweep(dead)
    /\ \E spurious \in SUBSET PerhapsRemembered(scanned, promoted) :
          rem' = KeptRemembered(marked) \cup SurelyRemembered(scanned, age') \cup spurious
    /\ remCell' = {c \in remCell : cell[c] \in marked}
    /\ ReleaseCells
    /\ phase' = IF \E o \in dead : meta[o] # Nil THEN "majorDrain" ELSE "idle"

Major ==
    /\ \/ phase = "major"
       \/ phase = "idle" /\ mode = "incremental"
    /\ \E skip \in SUBSET DeadWithMeta : PassedOver(skip) /\ MajorSweep(skip)
    /\ recent' = {}
    /\ full' = FALSE
    /\ UNCHANGED <<pinned, stack, mode, running>>

(***************************************************************************)
(* gc_drain_finalizables: call __gc of each listed table, then free it.     *)
(***************************************************************************)
Finalizable == {o \in Obj : where[o] = "fin"}

AfterDrain == IF phase = "minorDrain" /\ full THEN "major" ELSE "idle"

Freed(o) ==
    /\ where' = [where EXCEPT ![o] = "pool"]
    /\ fields' = [fields EXCEPT ![o] = {}]
    /\ meta' = [meta EXCEPT ![o] = Nil]
    /\ caps' = [caps EXCEPT ![o] = {}]
    /\ phase' = IF Finalizable = {o} THEN AfterDrain ELSE phase
    /\ UNCHANGED <<age, cell, gcVars, stack, mode, full>>

RunFinalizer(o) ==
    /\ running = Nil /\ GcFun(o) # {}
    /\ running' = o
    /\ UNCHANGED <<heapVars, gcVars, stack, mode, phase, full>>

FreeWithoutFinalizer(o) ==
    /\ running = Nil /\ GcFun(o) = {}
    /\ Freed(o)
    /\ UNCHANGED running

EndFinalizer ==
    /\ running # Nil
    /\ Freed(running)
    /\ running' = Nil

-----------------------------------------------------------------------------
Init ==
    /\ where = [o \in Obj |-> IF o = Global THEN "heap" ELSE "pool"]
    /\ age = [o \in Obj |-> "young"]
    /\ fields = [o \in Obj |-> {}]
    /\ meta = [o \in Obj |-> Nil]
    /\ caps = [o \in Obj |-> {}]
    /\ cell = [c \in Cell |-> Nil]
    /\ rem = {} /\ remCell = {} /\ pinned = {} /\ recent = {Global}
    /\ stack = {}
    /\ mode = "generational" /\ phase = "idle" /\ full = FALSE /\ running = Nil

Program ==
    \/ \E o \in Live \ Fun : \/ \E v \in Live : Store(o, v)
                            \/ \E v \in fields[o] : Erase(o, v)
                            \/ \E m \in (Live \cap Metas) \cup {Nil} : SetMeta(o, m)
    \/ \E f \in Live : \E c \in caps[f], v \in Live : UpvalStore(f, c, v)
    \/ \E f \in Fun, c \in Cell : \E v \in Live : CreateClosure(f, c, v)
    \/ \E o \in Tables : CreateTable(o)
    \/ \E v \in Live : Push(v)
    \/ \E v \in stack : Pop(v)
    \/ \E v \in Obj : Keep(v)
    \/ \E m \in Modes : SetMode(m)

Collector ==
    \/ \E wantFull \in BOOLEAN : Minor(wantFull)
    \/ Major
    \/ \E o \in Finalizable : RunFinalizer(o) \/ FreeWithoutFinalizer(o)
    \/ EndFinalizer

Next == Program \/ Collector

Spec == Init /\ [][Next]_vars
=============================================================================
