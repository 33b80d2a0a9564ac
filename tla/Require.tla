------------------------------- MODULE Require -------------------------------
(***************************************************************************)
(* require (src/runtime/package.cpp): loaders run inside loaders, each under *)
(* the environment it was asked for, return, or raise an error that a        *)
(* protected call somewhere below catches.  No loader yields: what happens   *)
(* to _G then is described in the README.                                    *)
(***************************************************************************)
EXTENDS Integers, Sequences, SequencesExt

CONSTANTS
    Name,       \* module names
    Env,        \* global tables: RealG and environments given to require
    RealG,
    Bare,       \* the environments without a global 'package'
    MaxLoads    \* bound: loaders started

ASSUME RequireAssumption == RealG \in Env \ Bare /\ Bare \subseteq Env /\ MaxLoads \in Nat

VARIABLE req    \* loaded: package.loaded, preload: the names with a loader,
                \* running: the loaders that run, innermost last, G: L->_G,
                \* loads: loaders started, got: history, what require returned
                \* for a name, fresh: history, the names nobody else stored under
                \* or loaded twice at once

NotLoaded == 0
True == -1          \* the boolean stored for a loader that returns nothing

Innermost == req.running[Len(req.running)]

RequireInit ==
    req = [loaded |-> [n \in Name |-> NotLoaded], preload |-> {}, running |-> <<>>,
           G |-> RealG, loads |-> 0, got |-> [n \in Name |-> {}], fresh |-> Name]

Loading(n) == \E i \in DOMAIN req.running : req.running[i].name = n

(* A name that is loaded: require returns it.  Without a global package, or   *)
(* with no loader, it is an error that changes nothing here.                *)
RequireLoaded(n) ==
    /\ req.G \notin Bare /\ req.loaded[n] # NotLoaded
    /\ req' = [req EXCEPT !.got[n] = @ \cup {req.loaded[n]}]

(* The preload searcher finds a loader, which runs under env.                *)
StartLoader(n, env) ==
    /\ req.G \notin Bare /\ req.loaded[n] = NotLoaded /\ n \in req.preload
    /\ req.loads < MaxLoads
    /\ req' = [req EXCEPT !.running = Append(@, [name |-> n, saved |-> req.G, env |-> env]),
                          !.G = env, !.loads = @ + 1,
                          !.fresh = IF Loading(n) THEN @ \ {n} ELSE @]

(* Mutant: a loader that returns nothing leaves no entry. *)
EndLoaderUnstored(v) ==
    LET n == Innermost.name
    IN  /\ req.running # <<>>
        /\ req' = [req EXCEPT !.running = Front(@), !.G = Innermost.saved,
                              !.loaded[n] = IF v = NotLoaded THEN @ ELSE v,
                              !.got[n] = @ \cup {IF v = NotLoaded THEN True ELSE v}]

(* The loader returns v, or nothing. *)
EndLoader(v) ==
    LET n == Innermost.name
        result == IF v = NotLoaded THEN True ELSE v
    IN  /\ req.running # <<>>
        /\ req' = [req EXCEPT !.running = Front(@), !.G = Innermost.saved,
                              !.loaded[n] = result, !.got[n] = @ \cup {result}]

(* Mutant: the environment is restored on the way back only. *)
FailLoadersKeeping(depth) ==
    /\ depth < Len(req.running)
    /\ req' = [req EXCEPT !.running = SubSeq(@, 1, depth)]

(* An error leaves all loaders above the protected call that catches it; each *)
(* puts back the environment it saved.                                      *)
FailLoaders(depth) ==
    /\ depth < Len(req.running)
    /\ req' = [req EXCEPT !.running = SubSeq(@, 1, depth), !.G = req.running[depth + 1].saved]

(* The program stores into package.loaded or package.preload itself.         *)
AssignLoaded(n, v) ==
    /\ req.G \notin Bare
    /\ req' = [req EXCEPT !.loaded[n] = v, !.fresh = @ \ {n}]

AssignPreload(n) ==
    /\ req.G \notin Bare
    /\ req' = [req EXCEPT !.preload = IF n \in @ THEN @ \ {n} ELSE @ \cup {n}]

RequireNext ==
    \/ \E n \in Name :
        \/ RequireLoaded(n) \/ AssignPreload(n)
        \/ \E env \in Env \cup {req.G} : StartLoader(n, env)
        \/ \E v \in {NotLoaded, MaxLoads + 1} : AssignLoaded(n, v)
    \/ EndLoader(NotLoaded) \/ EndLoader(req.loads)
    \/ \E depth \in 0 .. MaxLoads : FailLoaders(depth)

-----------------------------------------------------------------------------
(* A program runs under the global table of the innermost loader, whatever   *)
(* loaders have ended or failed above it and at whichever depth an error      *)
(* was caught; without one, under the real one.                             *)
EnvOfInnermost ==
    req.G = IF req.running = <<>> THEN RealG ELSE Innermost.env

(* require returns the same value for a name each time ("package.loaded"),   *)
(* across failed loaders and nested loads, if the program neither assigns to  *)
(* its entry nor requires it from its own loader.                           *)
OneInstance ==
    \A n \in req.fresh :
        /\ \A a, b \in req.got[n] : a = b
        /\ req.got[n] # {} => req.loaded[n] \in req.got[n]

RequireSpec == RequireInit /\ [][RequireNext]_req
=============================================================================
