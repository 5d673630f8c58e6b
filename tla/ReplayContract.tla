--------------------------- MODULE ReplayContract ---------------------------
(* What the host assumes of a driver, by operation ID: an operation is       *)
(* carried out once, its outcome is then remembered unchanged until the host *)
(* releases it, and a released operation is never carried out again.  Calls, *)
(* waiters, chunks, transports and restarts are not visible here.            *)
EXTENDS Naturals

CONSTANT Ids

VARIABLES memory,   \* remembered outcome of each operation ID
          runs      \* how often it was carried out

Init ==
    /\ memory = [g \in Ids |-> "none"]
    /\ runs = [g \in Ids |-> 0]

Execute(g) ==
    /\ memory[g] = "none"
    /\ \E outcome \in {"ok", "error"} : memory' = [memory EXCEPT ![g] = outcome]
    /\ runs' = [runs EXCEPT ![g] = @ + 1]

\* The host releases any number of remembered operations at once.
Release ==
    /\ memory' = [g \in Ids |-> IF memory[g] # "none" /\ memory'[g] = "released"
                               THEN "released" ELSE memory[g]]
    /\ UNCHANGED runs

Next == (\E g \in Ids : Execute(g)) \/ Release

Spec == Init /\ [][Next]_<<memory, runs>>
=============================================================================
