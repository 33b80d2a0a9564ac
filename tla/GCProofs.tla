------------------------------ MODULE GCProofs ------------------------------
(***************************************************************************)
(* Proofs about the collector, for every set of objects and cells, and for  *)
(* programs whose finalizers rewire the heap but neither allocate nor store *)
(* their argument.                                                          *)
(***************************************************************************)
EXTENDS GCProps, TLAPS

(* A marking pass marks its seeds. *)
LEMMA ClosureSeeds ==
    ASSUME NEW S \in SUBSET Obj, NEW kids
    PROVE  S \subseteq Closure(S, kids) /\ Closure(S, kids) \subseteq Obj
BY DEF Closure

(* A marking pass marks every child of what it marks. *)
LEMMA ClosureClosed ==
    ASSUME NEW S \in SUBSET Obj, NEW kids \in [Obj -> SUBSET Obj]
    PROVE  Closed(Closure(S, kids), kids)
<1> SUFFICES ASSUME NEW x \in Closure(S, kids), NEW y \in kids[x],
                    NEW M \in SUBSET Obj, S \subseteq M, Closed(M, kids)
             PROVE  y \in M
  BY DEF Closed, Closure
<1>1. x \in M
  BY DEF Closure
<1> QED
  BY <1>1 DEF Closed

(* A marking pass marks nothing outside a set that holds the seeds and is  *)
(* closed under children.                                                   *)
LEMMA ClosureLeast ==
    ASSUME NEW S, NEW kids, NEW M \in SUBSET Obj, S \subseteq M, Closed(M, kids)
    PROVE  Closure(S, kids) \subseteq M
BY DEF Closure

-----------------------------------------------------------------------------
LEMMA KidsType ==
    ASSUME TypeOK
    PROVE  /\ KidsMap \in [Obj -> SUBSET Obj]
           /\ \A o \in Obj : KidsMap[o] = Kids(o) /\ Kids(o) \subseteq Obj
BY GlobalAssumption DEF TypeOK, KidsMap, Kids, Env

LEMMA LiveBasics ==
    ASSUME TypeOK
    PROVE  /\ Live \subseteq Obj
           /\ Global \in Live /\ stack \subseteq Live
           /\ \A o \in Live : Kids(o) \subseteq Live
<1>1. Roots \in SUBSET Obj
  BY GlobalAssumption DEF TypeOK, Roots
<1>2. Roots \subseteq Live /\ Live \subseteq Obj
  BY <1>1, ClosureSeeds DEF Live
<1>3. Closed(Live, KidsMap)
  BY <1>1, KidsType, ClosureClosed DEF Live
<1> QED
  BY <1>2, <1>3, KidsType DEF Closed, Roots

(* What the program can use after a step that hands it nothing it could    *)
(* not reach before, except what is in E.                                   *)
LEMMA LiveAfter ==
    ASSUME TypeOK, TypeOK', NEW E \in SUBSET Obj,
           stack' \subseteq Live \cup E,
           \A x \in Live \cup E : Kids(x)' \subseteq Live \cup E
    PROVE  Live' \subseteq Live \cup E
<1>1. Live \subseteq Obj /\ Global \in Live
  BY LiveBasics
<1>2. Roots' \subseteq Live \cup E
  BY <1>1 DEF Roots
<1>3. Closed(Live \cup E, KidsMap')
  BY <1>1, KidsType DEF Closed, KidsMap
<1>4. Closure(Roots', KidsMap') \subseteq Live \cup E
  BY <1>1, <1>2, <1>3, ClosureLeast
<1> QED
  BY <1>4 DEF Live

-----------------------------------------------------------------------------
(* The finalizers the proofs are about. *)
TameFinalizers == FinOps \subseteq {"rewire", "return"}

(* A step of the program or a finalizer that neither allocates nor frees:  *)
(* the invariant survives when everything handed out was usable before and *)
(* every barrier did its work.                                              *)
LEMMA MutatorStep ==
    ASSUME IInv, TypeOK',
           UNCHANGED <<where, age, pinned, mode, phase, full, running>>,
           stack' \subseteq Live,
           \A x \in Live : Kids(x)' \subseteq Live,
           \A x \in Live : age[x] = "old" =>
              /\ \A k \in NonOld(fields'[x]) : x \in rem' \/ k \in rem'
              /\ \A c \in caps'[x] : cell'[c] # Nil /\ age[cell'[c]] # "old" =>
                    x \in rem' \/ c \in remCell' \/ cell'[c] \in rem'
    PROVE  IInv'
<1>1. Live' \subseteq Live
  BY LiveAfter DEF IInv
<1>2. (Live \subseteq Heap)'
  BY <1>1 DEF IInv, Heap
<1>3. RememberedComplete'
  BY <1>1 DEF IInv, RememberedComplete, NonOld
<1>4. AgedBeforeMajor'
  BY <1>1 DEF IInv, AgedBeforeMajor
<1>5. RunningIsFinalizable'
  BY DEF IInv, RunningIsFinalizable, Finalizable
<1> QED
  BY <1>2, <1>3, <1>4, <1>5 DEF IInv

LEMMA StoreStep ==
    ASSUME IInv, NEW o \in Live \ Fun, NEW v \in Live, Store(o, v)
    PROVE  IInv' /\ \A x \in Obj : Kids(x)' \subseteq Kids(x) \cup Live
<1> USE DEF Store, ctlVars
<1>0. TypeOK /\ Live \subseteq Obj /\ o \in Obj /\ v \in Obj
  BY LiveBasics DEF IInv
<1>1. TypeOK'
  BY <1>0 DEF TypeOK, Barrier, Tables
<1>2. \A x \in Obj : Kids(x)' \subseteq Kids(x) \cup {v}
  BY <1>0 DEF Kids, Env, TypeOK
<1>3. \A x \in Live : Kids(x)' \subseteq Live
  BY <1>0, <1>2, LiveBasics
<1>4. stack' \subseteq Live
  BY <1>0, LiveBasics
<1>5. ASSUME NEW x \in Live, age[x] = "old"
      PROVE  /\ \A k \in NonOld(fields'[x]) : x \in rem' \/ k \in rem'
             /\ \A c \in caps'[x] : cell'[c] # Nil /\ age[cell'[c]] # "old" =>
                   x \in rem' \/ c \in remCell' \/ cell'[c] \in rem'
  <2>1. rem \subseteq rem'
    BY DEF Barrier
  <2>2. \A k \in NonOld(fields'[x]) : x \in rem' \/ k \in rem'
    BY <1>0, <1>5, <2>1 DEF IInv, RememberedComplete, NonOld, Barrier, TypeOK
  <2> QED
    BY <1>5, <2>1, <2>2 DEF IInv, RememberedComplete
<1> QED
  BY <1>1, <1>2, <1>3, <1>4, <1>5, MutatorStep

LEMMA EraseStep ==
    ASSUME IInv, NEW o \in Live \ Fun, NEW v \in fields[o], Erase(o, v)
    PROVE  IInv' /\ \A x \in Obj : Kids(x)' \subseteq Kids(x) \cup Live
<1> USE DEF Erase, ctlVars, gcVars
<1>0. TypeOK /\ Live \subseteq Obj /\ o \in Obj
  BY LiveBasics DEF IInv
<1>1. TypeOK'
  BY <1>0 DEF TypeOK, Tables
<1>2. \A x \in Obj : Kids(x)' \subseteq Kids(x)
  BY <1>0 DEF Kids, Env, TypeOK
<1>3. \A x \in Live : Kids(x)' \subseteq Live
  BY <1>0, <1>2, LiveBasics
<1>4. stack' \subseteq Live
  BY <1>0, LiveBasics
<1>5. \A x \in Obj : fields'[x] \subseteq fields[x]
  BY <1>0 DEF TypeOK
<1> QED
  BY <1>0, <1>1, <1>2, <1>3, <1>4, <1>5, MutatorStep DEF IInv, RememberedComplete, NonOld

LEMMA SetMetaStep ==
    ASSUME IInv, NEW o \in Live \ Fun, NEW m \in Live \cup {Nil}, SetMeta(o, m)
    PROVE  IInv' /\ \A x \in Obj : Kids(x)' \subseteq Kids(x) \cup Live
<1> USE DEF SetMeta, ctlVars
<1>0. TypeOK /\ Live \subseteq Obj /\ o \in Obj /\ m \in Obj \cup {Nil}
  BY LiveBasics DEF IInv
<1>1. TypeOK'
  BY <1>0 DEF TypeOK, Tables
<1>2. \A x \in Obj : Kids(x)' \subseteq Kids(x) \cup ({m} \ {Nil})
  BY <1>0 DEF Kids, Env, TypeOK
<1>3. \A x \in Live : Kids(x)' \subseteq Live
  BY <1>0, <1>2, LiveBasics
<1>4. stack' \subseteq Live
  BY <1>0, LiveBasics
<1>5. rem \subseteq rem'
  OBVIOUS
<1> QED
  BY <1>0, <1>1, <1>2, <1>3, <1>4, <1>5, MutatorStep DEF IInv, RememberedComplete

LEMMA UpvalStoreStep ==
    ASSUME IInv, NEW f \in Live, NEW c \in caps[f], NEW v \in Live, UpvalStore(f, c, v)
    PROVE  IInv' /\ \A x \in Obj : Kids(x)' \subseteq Kids(x) \cup Live
<1> USE DEF UpvalStore, ctlVars
<1>0. TypeOK /\ Live \subseteq Obj /\ v \in Obj /\ f \in Obj
  BY LiveBasics DEF IInv
<1>1. c \in Cell
  BY <1>0 DEF TypeOK
<1>2. TypeOK'
  BY <1>0, <1>1 DEF TypeOK, Tables
<1>3. \A x \in Obj : Kids(x)' \subseteq Kids(x) \cup {v}
  BY <1>0, <1>1 DEF Kids, Env, TypeOK
<1>4. \A x \in Live : Kids(x)' \subseteq Live
  BY <1>0, <1>3, LiveBasics
<1>5. stack' \subseteq Live
  BY <1>0, LiveBasics
<1>6. ASSUME NEW x \in Live, age[x] = "old", NEW e \in caps'[x],
             cell'[e] # Nil, age[cell'[e]] # "old"
      PROVE  x \in rem' \/ e \in remCell' \/ cell'[e] \in rem'
  <2>1. e \in Cell /\ e \in caps[x]
    BY <1>0, <1>6 DEF TypeOK
  <2>2. CASE e = c
    BY <1>0, <1>1, <1>6, <2>2 DEF TypeOK
  <2>3. CASE e # c
    BY <1>0, <1>1, <1>6, <2>1, <2>3 DEF TypeOK, IInv, RememberedComplete
  <2> QED
    BY <2>2, <2>3
<1> QED
  BY <1>0, <1>2, <1>3, <1>4, <1>5, <1>6, MutatorStep DEF IInv, RememberedComplete

LEMMA StackStep ==
    ASSUME IInv, stack' \subseteq Live, UNCHANGED <<heapVars, gcVars, ctlVars>>
    PROVE  IInv' /\ \A x \in Obj : Kids(x)' \subseteq Kids(x) \cup Live
<1> USE DEF heapVars, gcVars, ctlVars
<1>0. TypeOK /\ Live \subseteq Obj
  BY LiveBasics DEF IInv
<1>1. TypeOK'
  BY <1>0 DEF TypeOK, Tables
<1>2. \A x \in Obj : Kids(x)' = Kids(x)
  BY DEF Kids, Env
<1>3. \A x \in Live : Kids(x)' \subseteq Live
  BY <1>0, <1>2, LiveBasics
<1> QED
  BY <1>0, <1>1, <1>2, <1>3, MutatorStep DEF IInv, RememberedComplete

(* A step that allocates o with children the program can already use. *)
LEMMA AllocateStep ==
    ASSUME IInv, TypeOK', NEW o \in Pool, phase = "idle",
           Allocate(o), UNCHANGED <<rem, remCell, mode, phase, full, running>>,
           Kids(o)' \subseteq Live,
           \A x \in Obj \ {o} :
              /\ Kids(x)' = Kids(x) /\ fields'[x] = fields[x] /\ caps'[x] = caps[x]
              /\ \A c \in caps[x] : cell'[c] = cell[c]
    PROVE  IInv'
<1>0. TypeOK /\ Live \subseteq Obj /\ o \in Obj /\ o \notin Live
  BY LiveBasics DEF IInv, Pool, Heap
<1>1. \A x \in Live : Kids(x)' \subseteq Live
  BY <1>0, LiveBasics
<1>2. Live' \subseteq Live \cup {o}
  <2>1. stack' \subseteq Live \cup {o}
    BY <1>0, LiveBasics DEF Allocate
  <2>2. \A x \in Live \cup {o} : Kids(x)' \subseteq Live \cup {o}
    BY <1>1
  <2> QED
    BY <1>0, <2>1, <2>2, LiveAfter
<1>3. (Live \subseteq Heap)'
  BY <1>0, <1>2 DEF IInv, Heap, Allocate, TypeOK
<1>4. RememberedComplete'
  <2> SUFFICES ASSUME NEW x \in Live', age'[x] = "old"
               PROVE  /\ \A k \in NonOld(fields[x])' : x \in rem' \/ k \in rem'
                      /\ \A c \in caps'[x] : cell'[c] # Nil /\ age'[cell'[c]] # "old" =>
                            x \in rem' \/ c \in remCell' \/ cell'[c] \in rem'
    BY DEF RememberedComplete
  <2>1. x \in Live /\ x # o /\ age[x] = "old"
    BY <1>0, <1>2 DEF Allocate, TypeOK
  <2>2. fields[x] \subseteq Live /\ \A c \in caps[x] : cell[c] # Nil => cell[c] \in Live
    BY <1>0, <2>1, LiveBasics, NilAssumption DEF Kids, Env, TypeOK
  <2>3. \A k \in Live : age'[k] = age[k]
    BY <1>0 DEF Allocate, TypeOK
  <2> QED
    BY <1>0, <2>1, <2>2, <2>3 DEF IInv, RememberedComplete, NonOld
<1>5. AgedBeforeMajor'
  BY DEF AgedBeforeMajor
<1>6. RunningIsFinalizable'
  BY <1>0 DEF IInv, RunningIsFinalizable, Finalizable, Allocate, Pool, TypeOK
<1>7. (pinned = {})'
  BY DEF IInv, Allocate
<1> QED
  BY <1>3, <1>4, <1>5, <1>6, <1>7 DEF IInv

LEMMA AllocatesWhenIdle ==
    ASSUME TameFinalizers, Runs("alloc")
    PROVE  phase = "idle"
BY DEF TameFinalizers, Runs

LEMMA CreateTableStep ==
    ASSUME IInv, TameFinalizers, NEW o \in Tables, CreateTable(o)
    PROVE  /\ IInv' /\ o \in Pool /\ Kids(o)' \subseteq Live
           /\ \A x \in Obj \ {o} : Kids(x)' = Kids(x)
<1> USE DEF CreateTable, Allocate, ctlVars
<1>0. TypeOK /\ o \in Obj /\ o \in Pool /\ phase = "idle"
  BY AllocatesWhenIdle DEF IInv, Tables
<1>1. TypeOK'
  BY <1>0 DEF TypeOK, Tables
<1>2. Kids(o)' = {}
  BY <1>0, <1>1 DEF Kids, Env, TypeOK, Tables
<1>3. ASSUME NEW x \in Obj \ {o}
      PROVE  /\ Kids(x)' = Kids(x) /\ fields'[x] = fields[x] /\ caps'[x] = caps[x]
             /\ \A c \in caps[x] : cell'[c] = cell[c]
  BY <1>0 DEF Kids, Env, TypeOK
<1> QED
  BY <1>0, <1>1, <1>2, <1>3, AllocateStep

LEMMA CreateClosureStep ==
    ASSUME IInv, TameFinalizers, NEW f \in Fun, NEW c \in Cell, NEW v \in Live,
           CreateClosure(f, c, v)
    PROVE  /\ IInv' /\ f \in Pool /\ Kids(f)' \subseteq Live
           /\ \A x \in Obj \ {f} : Kids(x)' = Kids(x)
<1> USE DEF CreateClosure, Allocate, ctlVars
<1>0. TypeOK /\ f \in Obj /\ f \in Pool /\ phase = "idle" /\ v \in Obj
  BY AllocatesWhenIdle, LiveBasics, FunAssumption DEF IInv
<1>1. TypeOK'
  BY <1>0 DEF TypeOK, Tables
<1>2. Kids(f)' \subseteq {v, Global}
  BY <1>0, <1>1 DEF Kids, Env, TypeOK
<1>3. ASSUME NEW x \in Obj \ {f}
      PROVE  /\ Kids(x)' = Kids(x) /\ fields'[x] = fields[x] /\ caps'[x] = caps[x]
             /\ \A e \in caps[x] : cell'[e] = cell[e]
  <2>1. \A e \in caps[x] : cell'[e] = cell[e]
    BY <1>0 DEF TypeOK
  <2> QED
    BY <1>0, <2>1 DEF Kids, Env, TypeOK
<1> QED
  BY <1>0, <1>1, <1>2, <1>3, LiveBasics, AllocateStep

-----------------------------------------------------------------------------
(* Sweeping objects the program cannot use changes nothing it can see. *)
LEMMA SweepKeepsLive ==
    ASSUME TypeOK, TypeOK', NEW D \in SUBSET Heap, D \cap Live = {},
           Sweep(D), ReleaseCells, UNCHANGED stack
    PROVE  /\ Live' \subseteq Live
           /\ \A x \in Live : /\ Kids(x)' = Kids(x)
                              /\ fields'[x] = fields[x] /\ caps'[x] = caps[x]
                              /\ \A c \in caps[x] : cell'[c] = cell[c]
           /\ Finalizable \subseteq Finalizable'
           /\ \A x \in Obj \ D : where'[x] = where[x]
<1>0. Live \subseteq Obj
  BY LiveBasics
<1>1. ASSUME NEW x \in Live
      PROVE  /\ Kids(x)' = Kids(x)
             /\ fields'[x] = fields[x] /\ caps'[x] = caps[x]
             /\ \A c \in caps[x] : cell'[c] = cell[c]
  <2>1. fields'[x] = fields[x] /\ caps'[x] = caps[x] /\ meta'[x] = meta[x]
    BY <1>0, <1>1 DEF Sweep
  <2>2. \A c \in caps[x] : cell'[c] = cell[c]
    BY <1>0, <1>1, <2>1 DEF ReleaseCells, TypeOK
  <2>3. where'[x] = where[x]
    BY <1>0, <1>1 DEF Sweep, Disposed
  <2> QED
    BY <2>1, <2>2, <2>3 DEF Kids, Env
<1>2. Live' \subseteq Live
  BY <1>0, <1>1, LiveBasics, LiveAfter
<1>3. \A x \in Obj \ D : where'[x] = where[x]
  BY DEF Sweep, Disposed
<1>4. Finalizable \subseteq Finalizable'
  BY <1>3 DEF Finalizable, Heap
<1> QED
  BY <1>1, <1>2, <1>3, <1>4

(* After a sweep that frees nothing the program can use, the rest of the   *)
(* invariant is a matter of ages and of the remembered set.                 *)
LEMMA SweepStep ==
    ASSUME IInv, TypeOK', NEW D \in SUBSET Heap, D \cap Live = {},
           Sweep(D), ReleaseCells, UNCHANGED <<stack, running>>, pinned' = {},
           \A x \in Live : age'[x] = "old" =>
              /\ \A k \in fields[x] : age'[k] # "old" => x \in rem' \/ k \in rem'
              /\ \A c \in caps[x] : cell[c] # Nil /\ age'[cell[c]] # "old" =>
                    x \in rem' \/ c \in remCell' \/ cell[c] \in rem',
           phase' = "major" \/ (phase' = "minorDrain" /\ full') =>
              mode' = "generational" /\ \A x \in Live : age'[x] # "young"
    PROVE  IInv'
<1>0. TypeOK /\ Live \subseteq Obj
  BY LiveBasics DEF IInv
<1>1. /\ Live' \subseteq Live
      /\ \A x \in Live : /\ fields'[x] = fields[x] /\ caps'[x] = caps[x]
                         /\ \A c \in caps[x] : cell'[c] = cell[c]
      /\ Finalizable \subseteq Finalizable'
      /\ \A x \in Obj \ D : where'[x] = where[x]
  BY <1>0, SweepKeepsLive
<1>2. (Live \subseteq Heap)'
  BY <1>0, <1>1 DEF IInv, Heap
<1>3. RememberedComplete'
  BY <1>0, <1>1 DEF RememberedComplete, NonOld
<1>4. AgedBeforeMajor'
  BY <1>1 DEF AgedBeforeMajor
<1>5. RunningIsFinalizable'
  BY <1>1 DEF IInv, RunningIsFinalizable
<1> QED
  BY <1>2, <1>3, <1>4, <1>5 DEF IInv

-----------------------------------------------------------------------------
(* A minor collection.  It marks the young objects the program can use: the *)
(* old objects it can use, with the objects marked, are closed under        *)
(* children, because the remembered set covers the old ones.                *)
LEMMA MinorMarkedYoung ==
    ASSUME TypeOK
    PROVE  /\ MinorReached \subseteq NonOld(Obj) /\ MinorMarked \subseteq NonOld(Obj)
           /\ MinorSeeds \subseteq MinorReached
           /\ MinorReached \cup MinorProtected \subseteq MinorMarked
           /\ Closed(MinorMarked, YoungKids)
<1>1. YoungKids \in [Obj -> SUBSET Obj] /\ Closed(NonOld(Obj), YoungKids)
  BY KidsType DEF YoungKids, NonOld, Closed
<1>2. MinorSeeds \subseteq NonOld(Obj)
  <2>1. Roots \subseteq Obj /\ rem \subseteq Obj /\ {cell[c] : c \in remCell} \ {Nil} \subseteq Obj
    BY GlobalAssumption DEF TypeOK, Roots
  <2>2. \A o \in rem : NonOld(Kids(o)) \subseteq NonOld(Obj)
    BY <2>1, KidsType DEF NonOld
  <2>3. UNION {NonOld(Kids(o)) : o \in {x \in rem : age[x] = "old"}} \subseteq NonOld(Obj)
    BY <2>2
  <2> QED
    BY <2>1, <2>3 DEF MinorSeeds, NonOld
<1>3. MinorReached \subseteq NonOld(Obj) /\ MinorSeeds \subseteq MinorReached
  BY <1>1, <1>2, ClosureSeeds, ClosureLeast DEF MinorReached, NonOld
<1>4. MinorProtected \subseteq NonOld(Obj)
  BY DEF MinorProtected, MetaOf, Heap, NonOld, TypeOK
<1>5. MinorReached \cup MinorProtected \in SUBSET Obj
  BY <1>3, <1>4 DEF NonOld
<1>6. MinorMarked \subseteq NonOld(Obj)
  BY <1>1, <1>3, <1>4, <1>5, ClosureLeast DEF MinorMarked, NonOld
<1>7. MinorReached \cup MinorProtected \subseteq MinorMarked /\ Closed(MinorMarked, YoungKids)
  BY <1>1, <1>5, ClosureSeeds, ClosureClosed DEF MinorMarked
<1> QED
  BY <1>3, <1>6, <1>7

LEMMA MinorMarksLive ==
    ASSUME IInv
    PROVE  \A o \in Live : age[o] # "old" => o \in MinorMarked
<1> DEFINE M == {o \in Live : age[o] = "old" \/ o \in MinorMarked}
<1>0. TypeOK /\ Live \subseteq Obj
  BY LiveBasics DEF IInv
<1>1. Roots \subseteq M
  <2>1. Roots \subseteq Live
    BY <1>0, LiveBasics DEF Roots
  <2>2. NonOld(Roots) \subseteq MinorMarked
    <3>1. NonOld(Roots) \subseteq MinorSeeds
      BY DEF MinorSeeds, NonOld
    <3> QED
      BY <1>0, <3>1, MinorMarkedYoung
  <2> QED
    BY <2>1, <2>2 DEF NonOld
<1>2. ASSUME NEW x \in M, NEW k \in Kids(x), age[k] # "old"
      PROVE  k \in MinorMarked
  <2>0. x \in Obj /\ x \in Live /\ k \in Obj /\ k \in Live
    BY <1>0, LiveBasics
  <2>1. CASE age[x] # "old"
    <3>1. x \in MinorMarked /\ k \in YoungKids[x]
      BY <1>2, <2>0, <2>1 DEF YoungKids, NonOld
    <3> QED
      BY <1>0, <3>1, MinorMarkedYoung DEF Closed
  <2>2. CASE age[x] = "old"
    <3>1. CASE x \in rem
      <4>1. NonOld(Kids(x)) \subseteq MinorSeeds
        BY <2>2, <3>1 DEF MinorSeeds
      <4> QED
        BY <1>0, <1>2, <4>1, MinorMarkedYoung DEF NonOld
    <3>2. CASE k \in rem
      <4>1. k \in MinorSeeds
        BY <1>2, <3>2 DEF MinorSeeds, NonOld
      <4> QED
        BY <1>0, <4>1, MinorMarkedYoung
    <3>3. CASE k = meta[x]
      <4>1. x \in Heap \ MinorReached
        BY <1>0, <2>0, <2>2, MinorMarkedYoung DEF IInv, NonOld
      <4>2. k # Nil
        BY <2>0, NilAssumption
      <4>3. k \in MetaOf(Heap \ MinorReached)
        BY <3>3, <4>1, <4>2 DEF MetaOf
      <4>4. k \in MinorProtected
        BY <1>2, <4>3 DEF MinorProtected, NonOld
      <4> QED
        BY <1>0, <4>4, MinorMarkedYoung
    <3>4. CASE \E c \in remCell : cell[c] = k
      <4>1. k \in {cell[c] : c \in remCell} \ {Nil}
        BY <2>0, <3>4, NilAssumption
      <4>2. k \in MinorSeeds
        BY <1>2, <4>1 DEF MinorSeeds, NonOld
      <4> QED
        BY <1>0, <4>2, MinorMarkedYoung
    <3>5. CASE k \in fields[x]
      BY <1>2, <2>0, <2>2, <3>1, <3>2, <3>5 DEF IInv, RememberedComplete, NonOld
    <3>6. CASE \E c \in caps[x] : cell[c] = k
      BY <1>2, <2>0, <2>2, <3>1, <3>2, <3>4, <3>6, NilAssumption DEF IInv, RememberedComplete
    <3>7. CASE k = Global
      <4>1. k \in MinorSeeds
        BY <1>2, <2>0, <3>7 DEF MinorSeeds, NonOld, Roots
      <4> QED
        BY <1>0, <4>1, MinorMarkedYoung
    <3> QED
      BY <1>2, <3>3, <3>5, <3>6, <3>7 DEF Kids, Env
  <2> QED
    BY <2>1, <2>2
<1>3. Closed(M, KidsMap)
  <2>1. \A x \in M : Kids(x) \subseteq M
    BY <1>0, <1>2, LiveBasics
  <2> QED
    BY <1>0, <2>1, KidsType DEF Closed
<1>4. M \in SUBSET Obj
  BY <1>0
<1>5. Live \subseteq M
  BY <1>1, <1>3, <1>4, ClosureLeast DEF Live
<1> QED
  BY <1>5

LEMMA MinorStep ==
    ASSUME IInv, NEW wantFull \in BOOLEAN, Minor(wantFull)
    PROVE  IInv' /\ MinorDead \in SUBSET Heap /\ MinorDead \cap Live = {}
<1> DEFINE marked == Heap \cap MinorMarked
           promoted == {o \in marked : age[o] = "survivor"}
<1>0. TypeOK /\ Live \subseteq Obj /\ Live \subseteq Heap /\ Heap \subseteq Obj
  BY LiveBasics DEF IInv, Heap
<1>1. /\ age' = [o \in Obj |-> IF o \in marked THEN NextAge(age[o]) ELSE age[o]]
      /\ Sweep(MinorDead)
      /\ rem' \subseteq StillRemembered \cup promoted
      /\ StillRemembered \cup SurelyRemembered(promoted, age') \subseteq rem'
      /\ phase' \in {"minorDrain", "major", "idle"}
      /\ wantFull \/ phase' \in {"minorDrain", "idle"}
      /\ remCell' = {c \in remCell : cell[c] # Nil /\ age'[cell[c]] # "old"}
      /\ ReleaseCells /\ pinned' = {} /\ recent' = {} /\ full' = wantFull
      /\ UNCHANGED <<stack, mode, running>>
      /\ mode = "generational"
  BY DEF Minor, SurelyRemembered, PerhapsRemembered
<1>2. \A o \in Live : age[o] # "old" => o \in marked
  BY <1>0, MinorMarksLive
<1>3. MinorDead \in SUBSET Heap /\ MinorDead \cap Live = {}
  BY <1>0, <1>2 DEF MinorDead, NonOld
<1>4. TypeOK'
  <2>1. age' \in [Obj -> {"young", "survivor", "old"}]
    BY <1>0, <1>1 DEF TypeOK, NextAge
  <2>2. /\ where' \in [Obj -> {"pool", "heap", "fin"}]
        /\ fields' \in [Obj -> SUBSET Obj] /\ caps' \in [Obj -> SUBSET Cell]
        /\ meta' \in [Obj -> Obj \cup {Nil}]
        /\ \A o \in Tables : caps'[o] = {}
        /\ \A o \in Fun : fields'[o] = {} /\ meta'[o] = Nil
    BY <1>0, <1>1, FunAssumption DEF TypeOK, Sweep, Disposed, Tables
  <2>3. cell' \in [Cell -> Obj \cup {Nil}]
    BY <1>0, <1>1 DEF TypeOK, ReleaseCells
  <2>4. rem' \subseteq Obj
    BY <1>0, <1>1 DEF TypeOK, StillRemembered
  <2>5. UNCHANGED <<stack, mode, running>> /\ remCell' \subseteq Cell
    BY <1>0, <1>1 DEF TypeOK
  <2> QED
    BY <1>0, <1>1, <2>1, <2>2, <2>3, <2>4, <2>5 DEF TypeOK
<1>5. \A o \in Obj : age'[o] # "old" => age[o] # "old"
  <2>1. \A o \in marked : age[o] # "old"
    BY <1>0, MinorMarkedYoung DEF NonOld
  <2> QED
    BY <1>1, <2>1 DEF NextAge
<1>6. ASSUME NEW x \in Live, age'[x] = "old"
      PROVE  /\ \A k \in fields[x] : age'[k] # "old" => x \in rem' \/ k \in rem'
             /\ \A c \in caps[x] : cell[c] # Nil /\ age'[cell[c]] # "old" =>
                   x \in rem' \/ c \in remCell' \/ cell[c] \in rem'
  <2>0. /\ x \in Obj /\ Kids(x) \subseteq Obj
        /\ fields[x] \subseteq Kids(x)
        /\ \A c \in caps[x] : cell[c] # Nil => cell[c] \in Kids(x)
    BY <1>0, LiveBasics, NilAssumption DEF Kids, Env, TypeOK
  <2>1. CASE age[x] = "old"
    <3>1. \A k \in Kids(x) : age'[k] # "old" /\ x \in rem => x \in rem'
      BY <1>1, <1>5, <2>0 DEF StillRemembered, NonOld
    <3>2. \A k \in Kids(x) : age'[k] # "old" /\ k \in rem => k \in rem'
      BY <1>1, <1>5, <2>0 DEF StillRemembered
    <3>3. \A k \in fields[x] : age'[k] # "old" => x \in rem' \/ k \in rem'
      BY <1>5, <2>0, <2>1, <3>1, <3>2 DEF IInv, RememberedComplete, NonOld
    <3>4. \A c \in caps[x] : cell[c] # Nil /\ age'[cell[c]] # "old" =>
                   x \in rem' \/ c \in remCell' \/ cell[c] \in rem'
      BY <1>1, <1>5, <2>0, <2>1, <3>1, <3>2 DEF IInv, RememberedComplete
    <3> QED
      BY <3>3, <3>4
  <2>2. CASE age[x] # "old"
    <3>1. x \in promoted
      BY <1>0, <1>1, <1>2, <1>6, <2>0, <2>2 DEF NextAge, TypeOK
    <3>2. \A k \in Kids(x) : age'[k] # "old" => x \in rem'
      BY <1>1, <3>1 DEF SurelyRemembered
    <3> QED
      BY <2>0, <3>2
  <2> QED
    BY <2>1, <2>2
<1>7. ASSUME phase' = "major" \/ (phase' = "minorDrain" /\ full')
      PROVE  mode' = "generational" /\ \A x \in Live : age'[x] # "young"
  BY <1>0, <1>1, <1>2 DEF NextAge, TypeOK
<1> QED
  BY <1>1, <1>3, <1>4, <1>6, <1>7, SweepStep

-----------------------------------------------------------------------------
(* A full collection marks everything the program can use; what it makes    *)
(* old without scanning was young, and nothing the program can use is.      *)
LEMMA MajorMarksLive ==
    ASSUME TypeOK
    PROVE  Live \subseteq MajorReached /\ MajorReached \subseteq Obj
<1>1. Roots \cup recent \in SUBSET Obj /\ Roots \subseteq Roots \cup recent
  BY GlobalAssumption DEF TypeOK, Roots
<1>2. /\ Roots \cup recent \subseteq MajorReached
      /\ MajorReached \subseteq Obj
      /\ Closed(MajorReached, KidsMap)
  BY <1>1, KidsType, ClosureSeeds, ClosureClosed DEF MajorReached
<1>3. Roots \subseteq MajorReached /\ MajorReached \in SUBSET Obj
  BY <1>1, <1>2
<1>4. Live \subseteq MajorReached
  BY <1>2, <1>3, ClosureLeast DEF Live
<1> QED
  BY <1>2, <1>4

LEMMA MajorStep ==
    ASSUME IInv, Major
    PROVE  /\ IInv'
           /\ \E D \in SUBSET Heap :
                D \cap Live = {} /\ Sweep(D) /\ ReleaseCells /\ UNCHANGED stack
<1>1. PICK skip \in SUBSET DeadWithMeta : MajorSweep(skip)
  BY DEF Major
<1> DEFINE marked == MajorReached \cup MajorProtected(skip)
           spared == KeptRemembered(marked) \cup pinned
           dead == Heap \ (marked \cup spared)
           promoted == IF mode = "generational" THEN NonOld(Heap \ (dead \cup spared)) ELSE {}
           scanned == {o \in promoted \cap MajorReached : age[o] = "survivor"}
<1>2. /\ age' = [o \in Obj |-> IF o \in promoted THEN "old" ELSE age[o]]
      /\ Sweep(dead) /\ ReleaseCells
      /\ rem' \subseteq KeptRemembered(marked) \cup scanned
      /\ KeptRemembered(marked) \cup SurelyRemembered(scanned, age') \subseteq rem'
      /\ remCell' = {c \in remCell : cell[c] \in marked}
      /\ phase' \in {"majorDrain", "idle"}
      /\ recent' = {} /\ full' = FALSE
      /\ UNCHANGED <<pinned, stack, mode, running>>
      /\ phase = "major" \/ (phase = "idle" /\ mode = "incremental")
  BY ZenonT(40), <1>1 DEF Major, MajorSweep, SurelyRemembered, PerhapsRemembered
<1>0. TypeOK /\ Live \subseteq Obj /\ Live \subseteq Heap /\ Heap \subseteq Obj
  BY LiveBasics DEF IInv, Heap
<1>3. Live \subseteq marked
  BY <1>0, MajorMarksLive
<1>4. dead \in SUBSET Heap /\ dead \cap Live = {}
  BY <1>3
<1>5. TypeOK'
  <2>1. age' \in [Obj -> {"young", "survivor", "old"}]
    BY <1>0, <1>2 DEF TypeOK
  <2>2. /\ where' \in [Obj -> {"pool", "heap", "fin"}]
        /\ fields' \in [Obj -> SUBSET Obj] /\ caps' \in [Obj -> SUBSET Cell]
        /\ meta' \in [Obj -> Obj \cup {Nil}]
        /\ \A o \in Tables : caps'[o] = {}
        /\ \A o \in Fun : fields'[o] = {} /\ meta'[o] = Nil
    BY <1>0, <1>2, FunAssumption DEF TypeOK, Sweep, Disposed, Tables
  <2>3. cell' \in [Cell -> Obj \cup {Nil}]
    BY <1>0, <1>2 DEF TypeOK, ReleaseCells
  <2>4. rem' \subseteq Obj
    BY <1>0, <1>2, MajorMarksLive DEF TypeOK, KeptRemembered
  <2>5. UNCHANGED <<pinned, stack, mode, running>> /\ remCell' \subseteq Cell
    BY <1>0, <1>2 DEF TypeOK
  <2> QED
    BY <1>0, <1>2, <2>1, <2>2, <2>3, <2>4, <2>5 DEF TypeOK
<1>6. \A o \in Obj : age'[o] # "old" => age[o] # "old"
  BY <1>2
<1>7. ASSUME NEW x \in Live, age'[x] = "old"
      PROVE  /\ \A k \in fields[x] : age'[k] # "old" => x \in rem' \/ k \in rem'
             /\ \A c \in caps[x] : cell[c] # Nil /\ age'[cell[c]] # "old" =>
                   x \in rem' \/ c \in remCell' \/ cell[c] \in rem'
  <2>0. /\ x \in Obj /\ Kids(x) \subseteq Live
        /\ fields[x] \subseteq Kids(x)
        /\ \A c \in caps[x] : cell[c] # Nil => cell[c] \in Kids(x)
    BY <1>0, LiveBasics, NilAssumption DEF Kids, Env, TypeOK
  <2>1. CASE age[x] = "old"
    <3>1. \A y \in Live : y \in rem => y \in rem'
      BY <1>2, <1>3 DEF KeptRemembered
    <3>2. \A k \in fields[x] : age'[k] # "old" => x \in rem' \/ k \in rem'
      BY <1>0, <1>6, <2>0, <2>1, <3>1 DEF IInv, RememberedComplete, NonOld
    <3>3. \A c \in caps[x] : cell[c] # Nil /\ age'[cell[c]] # "old" =>
                   x \in rem' \/ c \in remCell' \/ cell[c] \in rem'
      <4>1. \A c \in caps[x] : cell[c] # Nil /\ c \in remCell => c \in remCell'
        BY <1>2, <1>3, <2>0
      <4> QED
        BY <1>0, <1>6, <2>0, <2>1, <3>1, <4>1 DEF IInv, RememberedComplete
    <3> QED
      BY <3>2, <3>3
  <2>2. CASE age[x] # "old"
    <3>1. x \in promoted /\ phase = "major"
      BY <1>2, <1>7, <2>0, <2>2
    <3>2. age[x] = "survivor"
      BY <1>0, <2>0, <2>2, <3>1 DEF IInv, AgedBeforeMajor, TypeOK
    <3>3. x \in scanned
      BY <1>0, <3>1, <3>2, MajorMarksLive
    <3>4. \A k \in Kids(x) : age'[k] # "old" => x \in rem'
      BY <1>2, <3>3 DEF SurelyRemembered
    <3> QED
      BY <2>0, <3>4
  <2> QED
    BY <2>1, <2>2
<1>8. IInv'
  BY <1>2, <1>4, <1>5, <1>7, SweepStep DEF IInv
<1> QED
  BY <1>2, <1>4, <1>8

-----------------------------------------------------------------------------
(* Freeing a drained table, which the program cannot use. *)
LEMMA FreedStep ==
    ASSUME IInv, NEW o \in Finalizable, Freed(o), running' = Nil
    PROVE  IInv' /\ o \notin Live /\ o \in Obj
<1> USE DEF Freed, gcVars
<1>0. TypeOK /\ Live \subseteq Obj /\ o \in Obj /\ o \notin Live
  BY LiveBasics DEF IInv, Finalizable, Heap
<1>1. TypeOK'
  BY <1>0 DEF TypeOK, AfterDrain, Tables
<1>2. \A x \in Live : Kids(x)' = Kids(x) /\ fields'[x] = fields[x] /\ caps'[x] = caps[x]
  BY <1>0 DEF Kids, Env, TypeOK
<1>3. Live' \subseteq Live
  BY <1>0, <1>1, <1>2, LiveBasics, LiveAfter
<1>4. (Live \subseteq Heap)'
  BY <1>0, <1>3 DEF IInv, Heap, TypeOK
<1>5. RememberedComplete'
  BY <1>0, <1>2, <1>3 DEF IInv, RememberedComplete, NonOld
<1>6. AgedBeforeMajor'
  BY <1>3 DEF IInv, AgedBeforeMajor, AfterDrain
<1>7. RunningIsFinalizable' /\ (pinned = {})'
  BY DEF RunningIsFinalizable, IInv
<1> QED
  BY <1>0, <1>1, <1>4, <1>5, <1>6, <1>7 DEF IInv

LEMMA RunFinalizerStep ==
    ASSUME IInv, NEW o \in Finalizable, RunFinalizer(o)
    PROVE  IInv'
<1> USE DEF RunFinalizer, heapVars, gcVars
<1>0. TypeOK /\ Live \subseteq Obj /\ o \in Obj
  BY LiveBasics DEF IInv, Finalizable
<1>1. TypeOK'
  BY <1>0 DEF TypeOK
<1>2. \A x \in Live : Kids(x)' = Kids(x)
  BY DEF Kids, Env
<1>3. Live' \subseteq Live
  BY <1>0, <1>1, <1>2, LiveBasics, LiveAfter
<1>4. /\ (Live \subseteq Heap)' /\ RememberedComplete'
      /\ AgedBeforeMajor' /\ (pinned = {})'
  BY <1>3 DEF IInv, Heap, RememberedComplete, AgedBeforeMajor, NonOld
<1>5. RunningIsFinalizable'
  BY DEF RunningIsFinalizable, Finalizable
<1> QED
  BY <1>1, <1>4, <1>5 DEF IInv

LEMMA SetModeStep ==
    ASSUME IInv, NEW m \in Modes, SetMode(m)
    PROVE  IInv'
<1> USE DEF SetMode, heapVars, gcVars
<1>0. TypeOK /\ Live \subseteq Obj
  BY LiveBasics DEF IInv
<1>1. TypeOK'
  BY <1>0, ModesAssumption DEF TypeOK
<1>2. \A x \in Live : Kids(x)' = Kids(x)
  BY DEF Kids, Env
<1>3. Live' \subseteq Live
  BY <1>0, <1>1, <1>2, LiveBasics, LiveAfter
<1> QED
  BY <1>1, <1>3 DEF IInv, Heap, RememberedComplete, AgedBeforeMajor,
                    RunningIsFinalizable, Finalizable, NonOld

-----------------------------------------------------------------------------
LEMMA InitIInv == Init => IInv
<1> SUFFICES ASSUME Init PROVE IInv
  OBVIOUS
<1> USE DEF Init
<1>1. TypeOK
  BY GlobalAssumption, FunAssumption DEF TypeOK, Tables
<1>2. \A o \in Obj : Kids(o) = {}
  BY GlobalAssumption DEF Kids, Env
<1>3. Live \subseteq {Global}
  <2>1. Roots = {Global} /\ {Global} \in SUBSET Obj
    BY GlobalAssumption DEF Roots
  <2>2. Closed({Global}, KidsMap)
    BY <1>2, GlobalAssumption DEF Closed, KidsMap
  <2> QED
    BY <2>1, <2>2, ClosureLeast DEF Live
<1>4. Live \subseteq Heap /\ RememberedComplete
  BY <1>3, GlobalAssumption DEF Heap, RememberedComplete
<1> QED
  BY <1>1, <1>4 DEF IInv, AgedBeforeMajor, RunningIsFinalizable

LEMMA NextIInv ==
    ASSUME TameFinalizers, IInv, [Next]_vars
    PROVE  IInv'
<1>0. TypeOK /\ Live \subseteq Obj /\ stack \subseteq Live
  BY LiveBasics DEF IInv
<1>1. ASSUME NEW o \in Live \ Fun, NEW v \in Live, Store(o, v) PROVE IInv'
  BY <1>1, StoreStep
<1>2. ASSUME NEW o \in Live \ Fun, NEW v \in fields[o], Erase(o, v) PROVE IInv'
  BY <1>2, EraseStep
<1>3. ASSUME NEW o \in Live \ Fun, NEW m \in (Live \cap Metas) \cup {Nil}, SetMeta(o, m)
      PROVE  IInv'
  BY <1>3, SetMetaStep
<1>4. ASSUME NEW f \in Live, NEW c \in caps[f], NEW v \in Live, UpvalStore(f, c, v)
      PROVE  IInv'
  BY <1>4, UpvalStoreStep
<1>5. ASSUME NEW f \in Fun, NEW c \in Cell, NEW v \in Live, CreateClosure(f, c, v)
      PROVE  IInv'
  BY <1>5, CreateClosureStep
<1>6. ASSUME NEW o \in Tables, CreateTable(o) PROVE IInv'
  BY <1>6, CreateTableStep
<1>7. ASSUME NEW v \in Live, Push(v) PROVE IInv'
  BY <1>0, <1>7, StackStep DEF Push
<1>8. ASSUME NEW v \in stack, Pop(v) PROVE IInv'
  BY <1>0, <1>8, StackStep DEF Pop
<1>9. ASSUME NEW v \in Obj, Keep(v) PROVE IInv'
  BY <1>9 DEF Keep, TameFinalizers
<1>10. ASSUME NEW m \in Modes, SetMode(m) PROVE IInv'
  BY <1>10, SetModeStep
<1>11. ASSUME NEW wantFull \in BOOLEAN, Minor(wantFull) PROVE IInv'
  BY <1>11, MinorStep
<1>12. CASE Major
  BY <1>12, MajorStep
<1>13. ASSUME NEW o \in Finalizable, RunFinalizer(o) PROVE IInv'
  BY <1>13, RunFinalizerStep
<1>14. ASSUME NEW o \in Finalizable, FreeWithoutFinalizer(o) PROVE IInv'
  BY <1>14, FreedStep DEF FreeWithoutFinalizer
<1>15. CASE EndFinalizer
  BY <1>15, FreedStep DEF EndFinalizer, IInv, RunningIsFinalizable
<1>16. CASE UNCHANGED vars
  <2>1. /\ UNCHANGED <<heapVars, gcVars, ctlVars>> /\ stack' \subseteq Live
    BY <1>0, <1>16 DEF vars
  <2> QED
    BY <2>1, StackStep
<1>17. CASE Program
  BY <1>1, <1>2, <1>3, <1>4, <1>5, <1>6, <1>7, <1>8, <1>9, <1>10, <1>17 DEF Program
<1>18. CASE Collector
  BY <1>11, <1>12, <1>13, <1>14, <1>15, <1>18 DEF Collector
<1> QED
  BY <1>16, <1>17, <1>18 DEF Next

(* The inductive invariant: what the program can use is in the heap, and    *)
(* every young object an old one keeps is covered by the remembered set     *)
(* (gc_barrier_table, gc_barrier_cell, gc_minor, collect_garbage_full).     *)
THEOREM IInvHolds == TameFinalizers /\ Spec => []IInv
<1>1. TameFinalizers /\ IInv /\ [Next]_vars => IInv'
  BY NextIInv
<1>2. TameFinalizers => TameFinalizers'
  BY DEF TameFinalizers
<1> QED
  BY InitIInv, <1>1, <1>2, PTL DEF Spec

(* No collection frees a value the program still uses: nothing reachable   *)
(* is ever on a free list.                                                  *)
THEOREM NothingLiveFreed == TameFinalizers /\ Spec => []NoLiveFreed
<1>1. IInv => NoLiveFreed
  BY DEF IInv, NoLiveFreed, Heap, Pool
<1> QED
  BY IInvHolds, <1>1, PTL

-----------------------------------------------------------------------------
(* Every step keeps the types, whatever the finalizers do. *)
LEMMA SweptTypes ==
    ASSUME TypeOK, NEW D, Sweep(D), ReleaseCells
    PROVE  /\ where' \in [Obj -> {"pool", "heap", "fin"}]
           /\ fields' \in [Obj -> SUBSET Obj] /\ caps' \in [Obj -> SUBSET Cell]
           /\ meta' \in [Obj -> Obj \cup {Nil}]
           /\ cell' \in [Cell -> Obj \cup {Nil}]
           /\ \A o \in Tables : caps'[o] = {}
           /\ \A o \in Fun : fields'[o] = {} /\ meta'[o] = Nil
<1>1. cell' \in [Cell -> Obj \cup {Nil}]
  BY DEF TypeOK, ReleaseCells
<1> QED
  BY <1>1, FunAssumption DEF TypeOK, Sweep, Disposed, Tables

LEMMA MinorTypes ==
    ASSUME TypeOK, NEW wantFull \in BOOLEAN, Minor(wantFull)
    PROVE  TypeOK'
<1> DEFINE marked == Heap \cap MinorMarked
           promoted == {o \in marked : age[o] = "survivor"}
<1>1. /\ age' = [o \in Obj |-> IF o \in marked THEN NextAge(age[o]) ELSE age[o]]
      /\ Sweep(MinorDead) /\ ReleaseCells
      /\ rem' \subseteq StillRemembered \cup promoted
      /\ phase' \in {"minorDrain", "major", "idle"}
      /\ remCell' \subseteq remCell
      /\ pinned' = {} /\ recent' = {} /\ full' = wantFull
      /\ UNCHANGED <<stack, mode, running>>
  BY DEF Minor, SurelyRemembered, PerhapsRemembered
<1>2. age' \in [Obj -> {"young", "survivor", "old"}]
  BY <1>1 DEF TypeOK, NextAge
<1>3. rem' \subseteq Obj
  BY <1>1 DEF TypeOK, StillRemembered, Heap
<1> QED
  BY <1>1, <1>2, <1>3, SweptTypes DEF TypeOK

LEMMA MajorTypes ==
    ASSUME TypeOK, Major
    PROVE  TypeOK'
<1>1. PICK skip \in SUBSET DeadWithMeta : MajorSweep(skip)
  BY DEF Major
<1> DEFINE marked == MajorReached \cup MajorProtected(skip)
           spared == KeptRemembered(marked) \cup pinned
           dead == Heap \ (marked \cup spared)
           promoted == IF mode = "generational" THEN NonOld(Heap \ (dead \cup spared)) ELSE {}
           scanned == {o \in promoted \cap MajorReached : age[o] = "survivor"}
<1>2. /\ age' = [o \in Obj |-> IF o \in promoted THEN "old" ELSE age[o]]
      /\ Sweep(dead) /\ ReleaseCells
      /\ rem' \subseteq KeptRemembered(marked) \cup scanned
      /\ remCell' \subseteq remCell
      /\ phase' \in {"majorDrain", "idle"}
      /\ recent' = {} /\ full' = FALSE
      /\ UNCHANGED <<pinned, stack, mode, running>>
  BY <1>1 DEF Major, MajorSweep, SurelyRemembered, PerhapsRemembered
<1>3. age' \in [Obj -> {"young", "survivor", "old"}]
  BY <1>2 DEF TypeOK
<1>4. rem' \subseteq Obj
  BY <1>2, MajorMarksLive DEF TypeOK, KeptRemembered
<1> QED
  BY <1>2, <1>3, <1>4, SweptTypes DEF TypeOK

LEMMA FreedTypes ==
    ASSUME TypeOK, NEW o \in Obj, Freed(o), running' \in Obj \cup {Nil}
    PROVE  TypeOK'
<1>1. phase' \in {"idle", "minorDrain", "major", "majorDrain"}
  BY DEF Freed, AfterDrain, TypeOK
<1> QED
  BY <1>1 DEF TypeOK, Freed, gcVars, Tables

LEMMA TypesKept ==
    ASSUME TypeOK, [Next]_vars
    PROVE  TypeOK'
<1>0. Live \subseteq Obj /\ stack \subseteq Live
  BY LiveBasics
<1> USE DEF heapVars, gcVars, ctlVars
<1>1. ASSUME NEW o \in Live \ Fun, NEW v \in Live, Store(o, v) PROVE TypeOK'
  BY <1>0, <1>1 DEF Store, Barrier, TypeOK, Tables
<1>2. ASSUME NEW o \in Live \ Fun, NEW v \in fields[o], Erase(o, v) PROVE TypeOK'
  BY <1>0, <1>2 DEF Erase, TypeOK, Tables
<1>3. ASSUME NEW o \in Live \ Fun, NEW m \in (Live \cap Metas) \cup {Nil}, SetMeta(o, m)
      PROVE  TypeOK'
  BY <1>0, <1>3 DEF SetMeta, TypeOK, Tables
<1>4. ASSUME NEW f \in Live, NEW c \in caps[f], NEW v \in Live, UpvalStore(f, c, v)
      PROVE  TypeOK'
  <2>1. c \in Cell /\ v \in Obj
    BY <1>0 DEF TypeOK
  <2> QED
    BY <1>4, <2>1 DEF UpvalStore, TypeOK, Tables
<1>5. ASSUME NEW f \in Fun, NEW c \in Cell, NEW v \in Live, CreateClosure(f, c, v)
      PROVE  TypeOK'
  BY <1>0, <1>5, FunAssumption DEF CreateClosure, Allocate, Pool, TypeOK, Tables
<1>6. ASSUME NEW o \in Tables, CreateTable(o) PROVE TypeOK'
  BY <1>6 DEF CreateTable, Allocate, Pool, TypeOK, Tables
<1>7. ASSUME NEW v \in Live, Push(v) PROVE TypeOK'
  BY <1>0, <1>7 DEF Push, TypeOK, Tables
<1>8. ASSUME NEW v \in stack, Pop(v) PROVE TypeOK'
  BY <1>8 DEF Pop, TypeOK, Tables
<1>9. ASSUME NEW v \in Obj, Keep(v) PROVE TypeOK'
  BY <1>9 DEF Keep, TypeOK, Tables
<1>10. ASSUME NEW m \in Modes, SetMode(m) PROVE TypeOK'
  BY <1>10, ModesAssumption DEF SetMode, TypeOK, Tables
<1>11. ASSUME NEW o \in Finalizable, RunFinalizer(o) PROVE TypeOK'
  BY <1>11 DEF RunFinalizer, Finalizable, TypeOK, Tables
<1>12. ASSUME NEW o \in Finalizable, FreeWithoutFinalizer(o) PROVE TypeOK'
  BY <1>12, FreedTypes DEF FreeWithoutFinalizer, Finalizable, TypeOK
<1>13. CASE EndFinalizer
  BY <1>13, FreedTypes DEF EndFinalizer, TypeOK
<1>14. CASE UNCHANGED vars
  BY <1>14 DEF vars, TypeOK, Tables
<1>15. CASE Program
  BY <1>1, <1>2, <1>3, <1>4, <1>5, <1>6, <1>7, <1>8, <1>9, <1>10, <1>15 DEF Program
<1>16. CASE Collector
  BY MinorTypes, MajorTypes, <1>11, <1>12, <1>13, <1>16 DEF Collector
<1> QED
  BY <1>14, <1>15, <1>16 DEF Next

(* Every variable keeps its type, whatever the program and its finalizers   *)
(* do; tables hold no cells, closures no fields.                            *)
THEOREM TypeCorrect == Spec => []TypeOK
<1>1. Init => TypeOK
  BY InitIInv DEF IInv
<1>2. TypeOK /\ [Next]_vars => TypeOK'
  BY TypesKept
<1> QED
  BY <1>1, <1>2, PTL DEF Spec

-----------------------------------------------------------------------------
(* A full collection keeps nothing but what it can account for: what the    *)
(* protect pass marks beyond the roots and the recent objects hangs on the  *)
(* metatable of a dead table, and a remembered object is spared only when   *)
(* the mark reached it.                                                     *)
LEMMA MajorKeepsReachedOnly ==
    ASSUME TypeOK, Major, NEW o \in Heap, where'[o] = "heap"
    PROVE  o \in Closure(Roots \cup recent \cup MetaOf(DeadWithMeta), KidsMap) \cup pinned
<1> DEFINE seeds == Roots \cup recent \cup MetaOf(DeadWithMeta)
           T == Closure(seeds, KidsMap)
<1>1. PICK skip \in SUBSET DeadWithMeta : MajorSweep(skip)
  BY DEF Major
<1>2. o \in MajorReached \cup MajorProtected(skip) \cup pinned
  BY <1>1 DEF MajorSweep, Sweep, Disposed, KeptRemembered, Heap
<1>3. MetaOf(DeadWithMeta) \subseteq Obj
  BY DEF MetaOf, DeadWithMeta, Heap, TypeOK
<1>4. seeds \in SUBSET Obj
  BY <1>3, GlobalAssumption DEF TypeOK, Roots
<1>5. seeds \subseteq T /\ T \in SUBSET Obj /\ Closed(T, KidsMap)
  BY <1>4, KidsType, ClosureSeeds, ClosureClosed
<1>6. MajorReached \subseteq T
  BY <1>5, ClosureLeast DEF MajorReached
<1>7. MajorProtected(skip) \subseteq T
  <2>1. MetaOf(DeadWithMeta \ skip) \ MajorReached \subseteq T
    BY <1>5 DEF MetaOf
  <2>2. \A x \in Obj : ProtectKids[x] \subseteq KidsMap[x]
    BY NilAssumption DEF ProtectKids, KidsMap, Kids, Env, TypeOK
  <2>3. Closed(T, ProtectKids)
    BY <1>5, <2>2 DEF Closed
  <2> QED
    BY <1>5, <2>1, <2>3, ClosureLeast DEF MajorProtected
<1> QED
  BY <1>2, <1>6, <1>7

(* A full collection takes back all garbage but what was allocated since    *)
(* the last one, what the metatable of a dead table holds, and what is       *)
(* pinned (collect_garbage_full), for every program and every finalizer.    *)
THEOREM FullCollectionReclaims == Spec => MajorReclaims
<1>1. TypeOK /\ Major => \A o \in Heap : where'[o] = "heap" =>
          o \in Closure(Roots \cup recent \cup MetaOf(DeadWithMeta), KidsMap) \cup pinned
  BY MajorKeepsReachedOnly
<1> QED
  BY <1>1, TypeCorrect, PTL DEF Spec, MajorReclaims

-----------------------------------------------------------------------------
(* The collector implements the ideal heap. *)
LEMMA IdealLive == Ideal!Live = Live
BY DEF Ideal!Live, Ideal!Closure, Ideal!Closed, Live, Closure, Closed

LEMMA MutateRefines ==
    ASSUME TypeOK, TypeOK', UNCHANGED where, stack' \subseteq Live,
           \A x \in Obj : Kids(x)' \subseteq Kids(x) \cup Live
    PROVE  Ideal!Mutate
<1>1. KidsMap' \in [Obj -> SUBSET Obj]
  BY GlobalAssumption DEF TypeOK, KidsMap, Kids, Env
<1>2. \A x \in Obj : KidsMap'[x] \subseteq KidsMap[x] \cup Ideal!Live
  BY IdealLive DEF KidsMap
<1>3. Roots' \in SUBSET Ideal!Live
  BY LiveBasics, IdealLive DEF Roots
<1>4. (Obj \ Pool)' = Obj \ Pool
  BY DEF Pool
<1> QED
  BY <1>1, <1>2, <1>3, <1>4 DEF Ideal!Mutate

LEMMA AllocateRefines ==
    ASSUME TypeOK, NEW o \in Pool, Allocate(o), Kids(o)' \subseteq Live,
           \A x \in Obj \ {o} : Kids(x)' = Kids(x)
    PROVE  Ideal!New
<1>0. o \in Obj
  BY DEF Pool
<1>1. (Obj \ Pool)' = (Obj \ Pool) \cup {o}
  BY <1>0 DEF Pool, Allocate, TypeOK
<1>2. KidsMap' = [KidsMap EXCEPT ![o] = Kids(o)']
  BY <1>0 DEF KidsMap
<1>3. Roots' = Roots \cup {o}
  BY DEF Roots, Allocate
<1>4. o \in Obj \ (Obj \ Pool) /\ Kids(o)' \in SUBSET Ideal!Live
  BY <1>0, IdealLive
<1> QED
  BY <1>1, <1>2, <1>3, <1>4 DEF Ideal!New

LEMMA SweepRefines ==
    ASSUME TypeOK, NEW D \in SUBSET Heap, D \cap Live = {},
           Sweep(D), ReleaseCells, UNCHANGED stack
    PROVE  Ideal!Reclaim
<1> DEFINE gone == {o \in D : meta[o] = Nil}
<1>1. gone \in SUBSET ((Obj \ Pool) \ Ideal!Live)
  BY IdealLive DEF Heap, Pool
<1>2. (Obj \ Pool)' = (Obj \ Pool) \ gone
  BY DEF Heap, Pool, Sweep, Disposed
<1>3. \A x \in gone : Kids(x)' = {}
  <2> SUFFICES ASSUME NEW x \in gone PROVE Kids(x)' = {}
    OBVIOUS
  <2>1. fields'[x] = {} /\ caps'[x] = {} /\ meta'[x] = Nil
    BY DEF Sweep, Heap
  <2>2. where'[x] = "pool"
    BY DEF Sweep, Disposed, Heap
  <2> QED
    BY <2>1, <2>2 DEF Kids, Env
<1>4. ASSUME NEW x \in Obj \ gone PROVE Kids(x)' = Kids(x)
  <2>1. fields'[x] = fields[x] /\ caps'[x] = caps[x] /\ meta'[x] = meta[x]
    BY DEF Sweep
  <2>2. \A c \in caps[x] : cell'[c] = cell[c]
    BY <2>1 DEF ReleaseCells, TypeOK
  <2>3. where'[x] = where[x] \/ x \notin Fun
    BY FunAssumption DEF Sweep, Disposed, TypeOK
  <2> QED
    BY <2>1, <2>2, <2>3 DEF Kids, Env
<1>5. KidsMap' = [x \in Obj |-> IF x \in gone THEN {} ELSE KidsMap[x]]
  BY <1>3, <1>4 DEF KidsMap
<1>6. Roots' = Roots
  BY DEF Roots
<1> QED
  BY <1>1, <1>2, <1>5, <1>6 DEF Ideal!Reclaim

LEMMA FreedRefines ==
    ASSUME IInv, NEW o \in Finalizable, Freed(o), running' = Nil
    PROVE  Ideal!Reclaim
<1>0. TypeOK /\ o \in Obj /\ o \notin Live /\ where[o] = "fin"
  BY FreedStep DEF IInv, Finalizable
<1>1. {o} \in SUBSET ((Obj \ Pool) \ Ideal!Live)
  BY <1>0, IdealLive DEF Pool
<1>2. (Obj \ Pool)' = (Obj \ Pool) \ {o}
  BY <1>0 DEF Pool, Freed, TypeOK
<1>3. Kids(o)' = {} /\ \A x \in Obj \ {o} : Kids(x)' = Kids(x)
  BY <1>0 DEF Kids, Env, Freed, TypeOK
<1>4. KidsMap' = [x \in Obj |-> IF x \in {o} THEN {} ELSE KidsMap[x]]
  BY <1>3 DEF KidsMap
<1>5. Roots' = Roots
  BY DEF Roots, Freed
<1> QED
  BY <1>1, <1>2, <1>4, <1>5 DEF Ideal!Reclaim

LEMMA StutterRefines ==
    ASSUME UNCHANGED <<heapVars, stack>>
    PROVE  UNCHANGED Ideal!vars
BY DEF heapVars, Ideal!vars, Pool, KidsMap, Kids, Env, Roots

LEMMA NextRefines ==
    ASSUME TameFinalizers, IInv, IInv', [Next]_vars
    PROVE  [Ideal!Next]_(Ideal!vars)
<1>0. TypeOK /\ TypeOK' /\ stack \subseteq Live
  BY LiveBasics DEF IInv
<1> USE DEF Ideal!Next
<1>1. ASSUME NEW o \in Live \ Fun, NEW v \in Live, Store(o, v) PROVE Ideal!Mutate
  BY <1>0, <1>1, StoreStep, MutateRefines DEF Store
<1>2. ASSUME NEW o \in Live \ Fun, NEW v \in fields[o], Erase(o, v) PROVE Ideal!Mutate
  BY <1>0, <1>2, EraseStep, MutateRefines DEF Erase
<1>3. ASSUME NEW o \in Live \ Fun, NEW m \in (Live \cap Metas) \cup {Nil}, SetMeta(o, m)
      PROVE  Ideal!Mutate
  BY <1>0, <1>3, SetMetaStep, MutateRefines DEF SetMeta
<1>4. ASSUME NEW f \in Live, NEW c \in caps[f], NEW v \in Live, UpvalStore(f, c, v)
      PROVE  Ideal!Mutate
  BY <1>0, <1>4, UpvalStoreStep, MutateRefines DEF UpvalStore
<1>5. ASSUME NEW f \in Fun, NEW c \in Cell, NEW v \in Live, CreateClosure(f, c, v)
      PROVE  Ideal!New
  BY <1>0, <1>5, CreateClosureStep, AllocateRefines DEF CreateClosure
<1>6. ASSUME NEW o \in Tables, CreateTable(o) PROVE Ideal!New
  BY <1>0, <1>6, CreateTableStep, AllocateRefines DEF CreateTable
<1>7. ASSUME stack' \subseteq Live, UNCHANGED <<heapVars, gcVars, ctlVars>>
      PROVE  Ideal!Mutate
  BY <1>0, <1>7, StackStep, MutateRefines DEF heapVars
<1>8. ASSUME NEW wantFull \in BOOLEAN, Minor(wantFull) PROVE Ideal!Reclaim
  BY <1>0, <1>8, MinorStep, SweepRefines DEF Minor
<1>9. CASE Major
  BY <1>0, <1>9, MajorStep, SweepRefines
<1>10. ASSUME NEW o \in Finalizable, FreeWithoutFinalizer(o) PROVE Ideal!Reclaim
  BY <1>10, FreedRefines DEF FreeWithoutFinalizer
<1>11. CASE EndFinalizer
  BY <1>11, FreedRefines DEF EndFinalizer, IInv, RunningIsFinalizable
<1>12. ASSUME UNCHANGED <<heapVars, stack>> PROVE UNCHANGED Ideal!vars
  BY <1>12, StutterRefines
<1>13. CASE Program
  <2>1. ASSUME NEW v \in Live, Push(v) PROVE Ideal!Mutate
    BY <1>0, <1>7, <2>1 DEF Push
  <2>2. ASSUME NEW v \in stack, Pop(v) PROVE Ideal!Mutate
    BY <1>0, <1>7, <2>2 DEF Pop
  <2>3. ASSUME NEW m \in Modes, SetMode(m) PROVE UNCHANGED Ideal!vars
    BY <1>12, <2>3 DEF SetMode
  <2>4. \A v \in Obj : ~Keep(v)
    BY DEF Keep, TameFinalizers
  <2> QED
    BY <1>1, <1>2, <1>3, <1>4, <1>5, <1>6, <1>13, <2>1, <2>2, <2>3, <2>4 DEF Program
<1>14. CASE Collector
  <2>1. ASSUME NEW o \in Finalizable, RunFinalizer(o) PROVE UNCHANGED Ideal!vars
    BY <1>12, <2>1 DEF RunFinalizer
  <2> QED
    BY <1>8, <1>9, <1>10, <1>11, <1>14, <2>1 DEF Collector
<1>15. CASE UNCHANGED vars
  BY <1>12, <1>15 DEF vars
<1> QED
  BY <1>13, <1>14, <1>15 DEF Next

(* Every step of the program and the collector is a step of the ideal heap: *)
(* it allocates a free object, rewires what is reachable, takes back what   *)
(* is not, or changes nothing the program sees.                             *)
THEOREM ImplementsIdealHeap == TameFinalizers /\ Spec => IdealSpec
<1>1. Init => Ideal!Init
  BY GlobalAssumption DEF Init, Ideal!Init, Pool, Roots, KidsMap, Kids, Env
<1>2. TameFinalizers /\ IInv /\ IInv' /\ [Next]_vars => [Ideal!Next]_(Ideal!vars)
  BY NextRefines
<1>3. TameFinalizers => TameFinalizers'
  BY DEF TameFinalizers
<1> QED
  BY <1>1, <1>2, <1>3, IInvHolds, PTL DEF Spec, IdealSpec, Ideal!Spec

-----------------------------------------------------------------------------
(* Finalizers.  The protect pass of a full collection follows fields but no *)
(* metatables, and passes over a table that another one's metatable field   *)
(* already marked: the metatable of a metatable may be freed before it is   *)
(* needed.  The theorem is about programs that never build such a chain.    *)
FlatMetas == \A o \in Heap : meta[o] # Nil => meta[meta[o]] = Nil

(* A drain empties gc_finalizable before anything else is collected. *)
DrainsAll == phase \in {"idle", "major"} => Finalizable = {}

(* What it takes to finalize an object is there as long as the object is. *)
FinalizerHeld ==
    \A o \in Heap \cup Finalizable :
        meta[o] # Nil => meta[o] \in Heap /\ GcFun(o) \subseteq Heap

(* It does not matter whether the program can use an old metatable: a        *)
(* non-old closure in it is remembered, or the metatable is.                *)
FinalizerRemembered ==
    \A o \in Heap : meta[o] # Nil /\ age[meta[o]] = "old" =>
        \A k \in NonOld(GcFun(o)) : meta[o] \in rem \/ k \in rem

FinalizersInv == DrainsAll /\ FinalizerHeld /\ FinalizerRemembered

(* What finalizes o is its metatable m and the closures in m. *)
LEMMA FinalizerParts ==
    ASSUME TypeOK, NEW o \in Obj, meta[o] # Nil
    PROVE  /\ meta[o] \in Obj /\ meta[o] \in Kids(o)
           /\ GcFun(o) = fields[meta[o]] \cap Fun
           /\ GcFun(o) \subseteq Kids(meta[o]) /\ GcFun(o) \subseteq Obj
BY NilAssumption, FunAssumption DEF TypeOK, Kids, Env, GcFun

(* Every step that leaves alone which objects are in the heap, and how old   *)
(* they are, and gives tables only metatables and closures that the program *)
(* can use.                                                                 *)
LEMMA MutatorKeepsFinalizers ==
    ASSUME IInv, FinalizersInv, TypeOK', UNCHANGED <<where, age, phase>>,
           rem \subseteq rem',
           \A x \in Obj : meta'[x] # meta[x] /\ meta'[x] # Nil => meta'[x] \in Live,
           \A x \in Obj : fields'[x] \subseteq fields[x] \cup Live,
           \A x \in Obj : age[x] = "old" =>
               \A k \in NonOld(fields'[x] \ fields[x]) : x \in rem'
    PROVE  FinalizersInv'
<1>0. TypeOK /\ Live \subseteq Heap /\ Live \subseteq Obj
  BY LiveBasics DEF IInv
<1>1. Heap' = Heap /\ Finalizable' = Finalizable /\ Heap \subseteq Obj /\ Finalizable \subseteq Obj
  BY DEF Heap, Finalizable
<1>2. ASSUME NEW o \in Heap \cup Finalizable, meta'[o] # Nil
      PROVE  /\ meta'[o] \in Heap /\ fields'[meta'[o]] \cap Fun \subseteq Heap
             /\ o \in Heap /\ age[meta'[o]] = "old" =>
                  \A k \in NonOld(fields'[meta'[o]] \cap Fun) : meta'[o] \in rem' \/ k \in rem'
  <2>0. o \in Obj
    BY <1>1
  <2>1. CASE meta'[o] = meta[o]
    <3>1. /\ meta[o] \in Heap /\ meta[o] \in Obj /\ fields[meta[o]] \cap Fun \subseteq Heap
          /\ o \in Heap /\ age[meta[o]] = "old" =>
               \A k \in NonOld(fields[meta[o]] \cap Fun) : meta[o] \in rem \/ k \in rem
      BY <1>0, <1>2, <2>0, <2>1, FinalizerParts
         DEF FinalizersInv, FinalizerHeld, FinalizerRemembered
    <3>2. fields'[meta[o]] \cap Fun \subseteq Heap
      BY <1>0, <3>1
    <3>3. ASSUME o \in Heap, age[meta[o]] = "old", NEW k \in NonOld(fields'[meta[o]] \cap Fun)
          PROVE  meta[o] \in rem' \/ k \in rem'
      BY <3>1, <3>3 DEF NonOld
    <3> QED
      BY <2>1, <3>1, <3>2, <3>3
  <2>2. CASE meta'[o] # meta[o]
    <3>1. meta'[o] \in Live /\ meta'[o] \in Obj
      BY <1>0, <1>2, <2>0, <2>2
    <3>2. fields[meta'[o]] \subseteq Live
      BY <1>0, <3>1, LiveBasics, NilAssumption DEF Kids, Env, TypeOK
    <3>3. ASSUME age[meta'[o]] = "old", NEW k \in NonOld(fields'[meta'[o]] \cap Fun)
          PROVE  meta'[o] \in rem' \/ k \in rem'
      BY <3>1, <3>3 DEF IInv, RememberedComplete, NonOld
    <3> QED
      BY <1>0, <3>1, <3>2, <3>3
  <2> QED
    BY <2>1, <2>2
<1>3. \A o \in Obj : meta'[o] # Nil => GcFun(o)' = fields'[meta'[o]] \cap Fun
  BY DEF GcFun
<1>4. FinalizerHeld'
  BY <1>1, <1>2, <1>3 DEF FinalizerHeld
<1>5. FinalizerRemembered'
  BY <1>1, <1>2, <1>3 DEF FinalizerRemembered, NonOld
<1> QED
  BY <1>1, <1>4, <1>5 DEF FinalizersInv, DrainsAll

(* An object that is allocated has no metatable and is nobody's finalizer.  *)
LEMMA AllocateKeepsFinalizers ==
    ASSUME IInv, FinalizersInv, NEW o \in Pool, Allocate(o), phase = "idle",
           UNCHANGED <<rem, phase>>, meta'[o] = Nil,
           \A x \in Obj \ {o} : meta'[x] = meta[x] /\ fields'[x] = fields[x]
    PROVE  FinalizersInv'
<1>0. TypeOK /\ o \in Obj
  BY DEF IInv, Pool
<1>1. /\ Heap' = Heap \cup {o} /\ Finalizable' = Finalizable
      /\ o \notin Heap /\ o \notin Finalizable
      /\ Heap \subseteq Obj /\ Finalizable \subseteq Obj
      /\ \A x \in Heap : age'[x] = age[x]
  BY <1>0 DEF Allocate, Heap, Pool, Finalizable, TypeOK
<1>2. ASSUME NEW x \in Heap' \cup Finalizable', meta'[x] # Nil
      PROVE  /\ x \in Heap \cup Finalizable
             /\ x \in Heap' => x \in Heap
             /\ meta[x] # Nil /\ meta'[x] = meta[x] /\ GcFun(x)' = GcFun(x)
             /\ meta[x] \in Heap /\ GcFun(x) \subseteq Heap
  <2>1. /\ x \in Heap \cup Finalizable
        /\ x \in Heap' => x \in Heap
        /\ meta[x] # Nil /\ meta'[x] = meta[x]
    BY <1>1, <1>2
  <2>2. meta[x] \in Heap /\ GcFun(x) \subseteq Heap
    BY <2>1 DEF FinalizersInv, FinalizerHeld
  <2>3. fields'[meta[x]] = fields[meta[x]]
    BY <1>1, <2>2
  <2> QED
    BY <2>1, <2>2, <2>3 DEF GcFun
<1>3. FinalizerHeld'
  BY <1>1, <1>2 DEF FinalizerHeld
<1>4. FinalizerRemembered'
  BY <1>1, <1>2 DEF FinalizersInv, FinalizerRemembered, NonOld
<1> QED
  BY <1>1, <1>3, <1>4 DEF FinalizersInv, DrainsAll

(* A sweep that spares, with every object that stays or is to be finalized, *)
(* what finalizes it, and whose aging remembers what a minor will skip.     *)
LEMMA SweepKeepsFinalizers ==
    ASSUME TypeOK, FinalizersInv, phase \in {"idle", "major"},
           NEW D \in SUBSET Heap, Sweep(D),
           phase' \in {"idle", "major"} => ~\E o \in D : meta[o] # Nil,
           \A o \in Heap : meta[o] # Nil => meta[o] \notin D /\ GcFun(o) \cap D = {},
           \A o \in Heap : meta[o] # Nil /\ age'[meta[o]] = "old" =>
               \A k \in GcFun(o) : age'[k] # "old" => meta[o] \in rem' \/ k \in rem'
    PROVE  FinalizersInv'
<1>0. Finalizable = {}
  BY DEF FinalizersInv, DrainsAll
<1>1. /\ Heap' = Heap \ D /\ Finalizable' = {o \in D : meta[o] # Nil}
      /\ Heap \subseteq Obj /\ meta' = meta
  BY <1>0 DEF Sweep, Disposed, Heap, Finalizable
<1>2. ASSUME NEW x \in Heap, meta[x] # Nil
      PROVE  /\ GcFun(x)' = GcFun(x) /\ meta[x] \in Heap' /\ GcFun(x) \subseteq Heap'
  <2>1. meta[x] \in Heap /\ GcFun(x) \subseteq Heap /\ meta[x] \in Obj
    BY <1>1, <1>2 DEF FinalizersInv, FinalizerHeld
  <2>2. fields'[meta[x]] = fields[meta[x]]
    BY <1>2, <2>1 DEF Sweep
  <2> QED
    BY <1>1, <1>2, <2>1, <2>2 DEF GcFun
<1>3. FinalizerHeld'
  BY <1>1, <1>2 DEF FinalizerHeld
<1>4. FinalizerRemembered'
  BY <1>1, <1>2 DEF FinalizerRemembered, NonOld
<1> QED
  BY <1>1, <1>3, <1>4 DEF FinalizersInv, DrainsAll

LEMMA MinorKeepsFinalizers ==
    ASSUME IInv, FinalizersInv, NEW wantFull \in BOOLEAN, Minor(wantFull)
    PROVE  FinalizersInv'
<1> DEFINE marked == Heap \cap MinorMarked
           promoted == {o \in marked : age[o] = "survivor"}
<1>0. TypeOK /\ Heap \subseteq Obj
  BY DEF IInv, Heap
<1>1. /\ phase = "idle"
      /\ age' = [o \in Obj |-> IF o \in marked THEN NextAge(age[o]) ELSE age[o]]
      /\ Sweep(MinorDead)
      /\ StillRemembered \cup SurelyRemembered(promoted, age') \subseteq rem'
      /\ phase' = IF \E o \in MinorDead : meta[o] # Nil THEN "minorDrain"
                  ELSE IF wantFull THEN "major" ELSE "idle"
  BY DEF Minor
<1>2. MinorDead \in SUBSET Heap /\ \A o \in MinorDead : age[o] # "old" /\ o \notin MinorMarked
  BY DEF MinorDead, NonOld
<1>3. \A o \in Obj : age'[o] # "old" => age[o] # "old"
  <2>1. \A o \in marked : age[o] # "old"
    BY <1>0, MinorMarkedYoung DEF NonOld
  <2> QED
    BY <1>1, <2>1 DEF NextAge
<1>4. ASSUME NEW o \in Heap, meta[o] # Nil
      PROVE  /\ meta[o] \in Obj /\ meta[o] \in Heap /\ GcFun(o) \subseteq Heap
             /\ GcFun(o) \subseteq Kids(meta[o]) /\ GcFun(o) \subseteq Obj
             /\ meta[o] \in Kids(o)
  BY <1>0, <1>4, FinalizerParts DEF FinalizersInv, FinalizerHeld
<1>5. ASSUME NEW o \in Heap, meta[o] # Nil, age[meta[o]] # "old"
      PROVE  meta[o] \in MinorMarked
  <2>1. CASE o \in MinorReached
    <3>1. o \in MinorMarked /\ age[o] # "old"
      BY <1>0, <2>1, MinorMarkedYoung DEF NonOld
    <3>2. meta[o] \in YoungKids[o]
      BY <1>0, <1>4, <1>5, <3>1 DEF YoungKids, NonOld
    <3> QED
      BY <1>0, <3>1, <3>2, MinorMarkedYoung DEF Closed
  <2>2. CASE o \notin MinorReached
    <3>1. meta[o] \in MetaOf(Heap \ MinorReached)
      BY <1>5, <2>2 DEF MetaOf
    <3>2. meta[o] \in MinorProtected
      BY <1>5, <3>1 DEF MinorProtected, NonOld
    <3> QED
      BY <1>0, <3>2, MinorMarkedYoung
  <2> QED
    BY <2>1, <2>2
<1>6. ASSUME NEW o \in Heap, meta[o] # Nil, NEW k \in GcFun(o), age[k] # "old"
      PROVE  k \in MinorMarked
  <2>1. CASE age[meta[o]] # "old"
    <3>1. k \in YoungKids[meta[o]]
      BY <1>4, <1>6, <2>1 DEF YoungKids, NonOld
    <3> QED
      BY <1>0, <1>5, <1>6, <2>1, <3>1, MinorMarkedYoung DEF Closed
  <2>2. CASE age[meta[o]] = "old"
    <3>1. meta[o] \in rem \/ k \in rem
      BY <1>6, <2>2 DEF FinalizersInv, FinalizerRemembered, NonOld
    <3>2. CASE meta[o] \in rem
      <4>1. NonOld(Kids(meta[o])) \subseteq MinorSeeds
        BY <2>2, <3>2 DEF MinorSeeds
      <4> QED
        BY <1>0, <1>4, <1>6, <4>1, MinorMarkedYoung DEF NonOld
    <3>3. CASE k \in rem
      <4>1. k \in MinorSeeds
        BY <1>6, <3>3 DEF MinorSeeds, NonOld
      <4> QED
        BY <1>0, <4>1, MinorMarkedYoung
    <3> QED
      BY <3>1, <3>2, <3>3
  <2> QED
    BY <2>1, <2>2
<1>7. ASSUME NEW o \in Heap, meta[o] # Nil
      PROVE  meta[o] \notin MinorDead /\ GcFun(o) \cap MinorDead = {}
  BY <1>2, <1>5, <1>6, <1>7
<1>8. ASSUME NEW o \in Heap, meta[o] # Nil, age'[meta[o]] = "old",
             NEW k \in GcFun(o), age'[k] # "old"
      PROVE  meta[o] \in rem' \/ k \in rem'
  <2>0. /\ meta[o] \in Obj /\ meta[o] \in Heap /\ k \in Kids(meta[o]) /\ k \in Obj
        /\ age[k] # "old"
    BY <1>3, <1>4, <1>8
  <2>1. CASE age[meta[o]] = "old"
    <3>1. meta[o] \in rem \/ k \in rem
      BY <1>8, <2>0, <2>1 DEF FinalizersInv, FinalizerRemembered, NonOld
    <3>2. meta[o] \in StillRemembered \/ k \in StillRemembered
      BY <2>0, <3>1 DEF StillRemembered, NonOld
    <3> QED
      BY <1>1, <3>2
  <2>2. CASE age[meta[o]] # "old"
    <3>1. meta[o] \in promoted
      BY <1>0, <1>1, <1>5, <1>8, <2>0, <2>2 DEF NextAge, TypeOK
    <3>2. meta[o] \in SurelyRemembered(promoted, age')
      BY <1>8, <2>0, <3>1 DEF SurelyRemembered
    <3> QED
      BY <1>1, <3>2
  <2> QED
    BY <2>1, <2>2
<1> QED
  BY <1>0, <1>1, <1>2, <1>7, <1>8, SweepKeepsFinalizers

LEMMA MajorKeepsFinalizers ==
    ASSUME IInv, FinalizersInv, FlatMetas, Major
    PROVE  FinalizersInv'
<1>1. PICK skip \in SUBSET DeadWithMeta : PassedOver(skip) /\ MajorSweep(skip)
  BY DEF Major
<1> DEFINE marked == MajorReached \cup MajorProtected(skip)
           spared == KeptRemembered(marked) \cup pinned
           dead == Heap \ (marked \cup spared)
           promoted == IF mode = "generational" THEN NonOld(Heap \ (dead \cup spared)) ELSE {}
           seeds == MetaOf(DeadWithMeta \ skip) \ MajorReached
<1>0. TypeOK /\ Heap \subseteq Obj /\ pinned = {}
  BY DEF IInv, Heap
<1>2. /\ phase \in {"idle", "major"}
      /\ age' = [o \in Obj |-> IF o \in promoted THEN "old" ELSE age[o]]
      /\ Sweep(dead)
      /\ KeptRemembered(marked) \subseteq rem'
      /\ phase' = IF \E o \in dead : meta[o] # Nil THEN "majorDrain" ELSE "idle"
  BY <1>1 DEF Major, MajorSweep
(* No metatable is passed over, as none has a metatable itself. *)
<1>3. skip = {}
  <2> SUFFICES ASSUME NEW s \in skip PROVE FALSE
    OBVIOUS
  <2>1. s \in MetaOf(DeadWithMeta \ skip) /\ s \in DeadWithMeta
    BY <1>1 DEF PassedOver
  <2>2. PICK p \in DeadWithMeta : s = meta[p]
    BY <2>1 DEF MetaOf
  <2> QED
    BY <2>1, <2>2 DEF FlatMetas, DeadWithMeta
<1>4. Roots \cup recent \in SUBSET Obj
  BY <1>0, GlobalAssumption DEF TypeOK, Roots
<1>5. Closed(MajorReached, KidsMap) /\ MajorReached \subseteq Obj
  BY <1>0, <1>4, KidsType, ClosureClosed, ClosureSeeds DEF MajorReached
<1>6. seeds \in SUBSET Obj /\ ProtectKids \in [Obj -> SUBSET Obj]
  BY <1>0 DEF MetaOf, DeadWithMeta, Heap, ProtectKids, TypeOK
<1>7. seeds \subseteq MajorProtected(skip) /\ Closed(MajorProtected(skip), ProtectKids)
  BY <1>6, ClosureSeeds, ClosureClosed DEF MajorProtected
<1>8. ASSUME NEW o \in Heap, meta[o] # Nil
      PROVE  /\ meta[o] \in Obj /\ meta[o] \in Heap /\ GcFun(o) \subseteq Heap /\ o \in Obj
             /\ GcFun(o) \subseteq Kids(meta[o]) /\ GcFun(o) \subseteq fields[meta[o]]
             /\ meta[o] \in Kids(o)
  BY <1>0, <1>8, FinalizerParts DEF FinalizersInv, FinalizerHeld
<1>9. ASSUME NEW o \in Heap, meta[o] # Nil
      PROVE  meta[o] \in marked
  <2>1. CASE o \in MajorReached
    BY <1>0, <1>5, <1>8, <1>9, <2>1, KidsType DEF Closed
  <2>2. CASE o \notin MajorReached
    <3>1. meta[o] \in MetaOf(DeadWithMeta \ skip)
      BY <1>3, <1>9, <2>2 DEF DeadWithMeta, MetaOf
    <3> QED
      BY <1>7, <3>1
  <2> QED
    BY <2>1, <2>2
<1>10. ASSUME NEW o \in Heap, meta[o] # Nil, NEW k \in GcFun(o)
       PROVE  k \in marked
  <2>1. CASE meta[o] \in MajorReached
    BY <1>0, <1>5, <1>8, <1>10, <2>1, KidsType DEF Closed
  <2>2. CASE meta[o] \in MajorProtected(skip) /\ meta[o] \notin MajorReached /\ k \notin MajorReached
    <3>1. meta[o] \notin Fun
      BY <1>0, <1>8, <1>10 DEF TypeOK
    <3>2. k \in ProtectKids[meta[o]]
      BY <1>8, <1>10, <2>2, <3>1 DEF ProtectKids
    <3> QED
      BY <1>7, <2>2, <3>2 DEF Closed
  <2> QED
    BY <1>9, <1>10, <2>1, <2>2
<1>11. ASSUME NEW o \in Heap, meta[o] # Nil
       PROVE  meta[o] \notin dead /\ GcFun(o) \cap dead = {}
  BY <1>9, <1>10, <1>11
<1>12. ASSUME NEW o \in Heap, meta[o] # Nil, age'[meta[o]] = "old",
              NEW k \in GcFun(o), age'[k] # "old"
       PROVE  meta[o] \in rem' \/ k \in rem'
  <2>0. /\ meta[o] \in Obj /\ k \in Obj /\ k \in Heap /\ meta[o] \in marked /\ k \in marked
        /\ age[k] # "old" /\ k \notin promoted
    BY <1>0, <1>2, <1>8, <1>9, <1>10, <1>12
  <2>1. CASE age[meta[o]] = "old"
    <3>1. meta[o] \in rem \/ k \in rem
      BY <1>12, <2>0, <2>1 DEF FinalizersInv, FinalizerRemembered, NonOld
    <3> QED
      BY <1>2, <2>0, <3>1 DEF KeptRemembered
  <2>2. CASE age[meta[o]] # "old"
    <3>1. mode = "generational"
      BY <1>2, <1>12, <2>0, <2>2
    <3>2. k \in spared
      BY <2>0, <3>1 DEF NonOld
    <3> QED
      BY <1>0, <1>2, <3>2
  <2> QED
    BY <2>1, <2>2
<1>13. dead \in SUBSET Heap
  OBVIOUS
<1> QED
  BY <1>0, <1>2, <1>11, <1>12, <1>13, SweepKeepsFinalizers

LEMMA FreedKeepsFinalizers ==
    ASSUME IInv, FinalizersInv, NEW o \in Finalizable, Freed(o)
    PROVE  FinalizersInv'
<1>0. TypeOK /\ o \in Obj /\ o \notin Heap
  BY DEF IInv, Finalizable, Heap
<1>1. /\ Heap' = Heap /\ Finalizable' = Finalizable \ {o}
      /\ Heap \subseteq Obj /\ Finalizable \subseteq Obj
      /\ \A x \in Obj \ {o} : meta'[x] = meta[x] /\ fields'[x] = fields[x]
      /\ UNCHANGED <<age, rem>>
  BY <1>0 DEF Freed, Heap, Finalizable, TypeOK, gcVars
<1>2. ASSUME NEW x \in Heap \cup (Finalizable \ {o}), meta'[x] # Nil
      PROVE  /\ meta[x] # Nil /\ meta'[x] = meta[x] /\ GcFun(x)' = GcFun(x)
             /\ meta[x] \in Heap /\ GcFun(x) \subseteq Heap
  <2>1. meta[x] # Nil /\ meta'[x] = meta[x]
    BY <1>0, <1>1, <1>2
  <2>2. meta[x] \in Heap /\ GcFun(x) \subseteq Heap
    BY <2>1 DEF FinalizersInv, FinalizerHeld
  <2>3. fields'[meta[x]] = fields[meta[x]]
    BY <1>0, <1>1, <2>2
  <2> QED
    BY <2>1, <2>2, <2>3 DEF GcFun
<1>3. FinalizerHeld'
  BY <1>1, <1>2 DEF FinalizerHeld
<1>4. FinalizerRemembered'
  BY <1>1, <1>2 DEF FinalizersInv, FinalizerRemembered, NonOld
<1>5. DrainsAll'
  <2>1. phase' = IF Finalizable = {o} THEN AfterDrain ELSE phase
    BY DEF Freed
  <2>2. phase \notin {"idle", "major"}
    BY DEF FinalizersInv, DrainsAll
  <2> QED
    BY <1>1, <2>1, <2>2 DEF DrainsAll
<1> QED
  BY <1>3, <1>4, <1>5 DEF FinalizersInv

(* A step that leaves alone all the invariant speaks of. *)
LEMMA OthersKeepFinalizers ==
    ASSUME FinalizersInv, UNCHANGED <<where, age, fields, meta, rem, phase>>
    PROVE  FinalizersInv'
<1>1. /\ Heap' = Heap /\ Finalizable' = Finalizable
      /\ \A o \in Obj : GcFun(o)' = GcFun(o)
      /\ \A S : NonOld(S)' = NonOld(S')
  BY DEF Heap, Finalizable, GcFun, NonOld
<1>2. FinalizerHeld'
  BY <1>1 DEF FinalizersInv, FinalizerHeld, Heap, Finalizable
<1>3. FinalizerRemembered'
  BY <1>1 DEF FinalizersInv, FinalizerRemembered, Heap, NonOld
<1> QED
  BY <1>1, <1>2, <1>3 DEF FinalizersInv, DrainsAll

LEMMA NextKeepsFinalizers ==
    ASSUME TameFinalizers, IInv, IInv', FinalizersInv, FlatMetas, [Next]_vars
    PROVE  FinalizersInv'
<1>0. TypeOK /\ TypeOK' /\ Live \subseteq Obj
  BY LiveBasics DEF IInv
<1> USE DEF heapVars, gcVars, ctlVars
<1>1. ASSUME NEW o \in Live \ Fun, NEW v \in Live, Store(o, v) PROVE FinalizersInv'
  <2>1. /\ rem \subseteq rem' /\ UNCHANGED <<where, age, phase, meta>>
        /\ \A x \in Obj : fields'[x] \subseteq fields[x] \cup {v}
        /\ \A x \in Obj : fields'[x] # fields[x] => x = o
        /\ age[o] = "old" /\ age[v] # "old" => o \in rem'
    BY <1>0, <1>1 DEF Store, Barrier, TypeOK
  <2>2. \A x \in Obj : age[x] = "old" =>
               \A k \in NonOld(fields'[x] \ fields[x]) : x \in rem'
    BY <2>1 DEF NonOld
  <2> QED
    BY <1>0, <2>1, <2>2, MutatorKeepsFinalizers
<1>2. ASSUME NEW o \in Live \ Fun, NEW v \in fields[o], Erase(o, v) PROVE FinalizersInv'
  <2>1. /\ UNCHANGED <<where, age, phase, meta, rem>>
        /\ \A x \in Obj : fields'[x] \subseteq fields[x]
    BY <1>0, <1>2 DEF Erase, TypeOK
  <2> QED
    BY <1>0, <2>1, MutatorKeepsFinalizers DEF NonOld
<1>3. ASSUME NEW o \in Live \ Fun, NEW m \in (Live \cap Metas) \cup {Nil}, SetMeta(o, m)
      PROVE  FinalizersInv'
  <2>1. /\ rem \subseteq rem' /\ UNCHANGED <<where, age, phase, fields>>
        /\ \A x \in Obj : meta'[x] # meta[x] => meta'[x] = m
    BY <1>0, <1>3 DEF SetMeta, TypeOK
  <2> QED
    BY <1>0, <2>1, MutatorKeepsFinalizers DEF NonOld
<1>4. ASSUME NEW f \in Live, NEW c \in caps[f], NEW v \in Live, UpvalStore(f, c, v)
      PROVE  FinalizersInv'
  BY <1>4, OthersKeepFinalizers DEF UpvalStore
<1>5. ASSUME NEW f \in Fun, NEW c \in Cell, NEW v \in Live, CreateClosure(f, c, v)
      PROVE  FinalizersInv'
  <2>1. f \in Pool /\ phase = "idle" /\ meta[f] = Nil
    BY <1>0, <1>5, AllocatesWhenIdle DEF CreateClosure, Allocate, TypeOK
  <2> QED
    BY <1>5, <2>1, AllocateKeepsFinalizers DEF CreateClosure
<1>6. ASSUME NEW o \in Tables, CreateTable(o) PROVE FinalizersInv'
  <2>1. o \in Pool /\ phase = "idle" /\ o \in Obj
    BY <1>6, AllocatesWhenIdle DEF CreateTable, Allocate, Tables
  <2>2. meta'[o] = Nil /\ \A x \in Obj \ {o} : meta'[x] = meta[x] /\ fields'[x] = fields[x]
    BY <1>0, <1>6, <2>1 DEF CreateTable, TypeOK
  <2> QED
    BY <1>6, <2>1, <2>2, AllocateKeepsFinalizers DEF CreateTable
<1>7. ASSUME NEW v \in Live, Push(v) PROVE FinalizersInv'
  BY <1>7, OthersKeepFinalizers DEF Push
<1>8. ASSUME NEW v \in stack, Pop(v) PROVE FinalizersInv'
  BY <1>8, OthersKeepFinalizers DEF Pop
<1>9. \A v \in Obj : ~Keep(v)
  BY DEF Keep, TameFinalizers
<1>10. ASSUME NEW m \in Modes, SetMode(m) PROVE FinalizersInv'
  BY <1>10, OthersKeepFinalizers DEF SetMode
<1>11. ASSUME NEW o \in Finalizable, RunFinalizer(o) PROVE FinalizersInv'
  BY <1>11, OthersKeepFinalizers DEF RunFinalizer
<1>12. ASSUME NEW o \in Finalizable, FreeWithoutFinalizer(o) PROVE FinalizersInv'
  BY <1>12, FreedKeepsFinalizers DEF FreeWithoutFinalizer
<1>13. CASE EndFinalizer
  BY <1>13, FreedKeepsFinalizers DEF EndFinalizer, IInv, RunningIsFinalizable
<1>14. CASE UNCHANGED vars
  BY <1>14, OthersKeepFinalizers DEF vars
<1>15. CASE Program
  BY <1>1, <1>2, <1>3, <1>4, <1>5, <1>6, <1>7, <1>8, <1>9, <1>10, <1>15 DEF Program
<1>16. CASE Collector
  BY MinorKeepsFinalizers, MajorKeepsFinalizers, <1>11, <1>12, <1>13, <1>16 DEF Collector
<1> QED
  BY <1>14, <1>15, <1>16 DEF Next

(* When a finalizer is due, the metatable it is looked up in and the closure *)
(* it is are still in the heap (gc_drain_finalizables, the protect passes   *)
(* of gc_minor and collect_garbage_full), as long as no metatable has a     *)
(* metatable itself.                                                        *)
THEOREM FinalizersStayCallable ==
    TameFinalizers /\ Spec /\ []FlatMetas => []FinalizerCallable
<1>1. Init => FinalizersInv
  BY DEF Init, FinalizersInv, DrainsAll, FinalizerHeld, FinalizerRemembered,
         Heap, Finalizable
<1>2. TameFinalizers /\ IInv /\ IInv' /\ FinalizersInv /\ FlatMetas /\ [Next]_vars
          => FinalizersInv'
  BY NextKeepsFinalizers
<1>3. TameFinalizers => TameFinalizers'
  BY DEF TameFinalizers
<1>4. FinalizersInv => FinalizerCallable
  BY DEF FinalizersInv, FinalizerHeld, FinalizerCallable, MetaOf, GcFun
<1> QED
  BY <1>1, <1>2, <1>3, <1>4, IInvHolds, PTL DEF Spec
=============================================================================
