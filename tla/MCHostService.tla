---------------------------- MODULE MCHostService ----------------------------
(* Instances of HostService for model checking: small populations of         *)
(* requests, and the order their clients keep.                               *)
EXTENDS HostService, TLC

CONSTANTS c1, k1, k2,
          create, start, kill, delete, pause, resume, update, recreate

CallerSymmetry == Permutations(Callers)

KindOf ==
    create :> "create" @@ start :> "start" @@ kill :> "kill" @@ delete :> "delete"
      @@ pause :> "pause" @@ resume :> "resume" @@ update :> "update"
      @@ recreate :> "create"

Kinds1 == [o \in Operations |-> KindOf[o]]
OneContainer == [o \in Operations |-> c1]
OneBundle == [o \in Operations |-> 1]

\* Independent clients: anything at any time.
Unordered == [o \in Operations |-> {}]

\* The container is created and started before its resources are managed.
StartedFirst ==
    [o \in Operations |-> CASE o = create -> {}
                            [] o = start -> {create}
                            [] OTHER -> {create, start}]

\* One client that waits for the answer of every request.
Sequential ==
    LET order == <<create, start, pause, resume, update, kill, delete, recreate>>
        position(o) == CHOOSE i \in 1 .. 8 : order[i] = o
    IN  [o \in Operations |-> {p \in Operations : position(p) < position(o)}]

\* Two populations in one instance: the whole life of a container, and its ID
\* used again after a deletion.
Scenarios == {{create, start, kill, delete}, {create, delete, recreate}}
OneScenario ==
    \E s \in Scenarios : {o \in Operations : Outcome(disk, o) # "absent"} \subseteq s
==============================================================================
