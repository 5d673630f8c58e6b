-------------------------- MODULE OperationContract --------------------------
(* What the host runtime promises of a mutating request, by operation ID:    *)
(* its intent is durable before the driver acts, the driver acts at most     *)
(* once, the outcome is decided once and for all, a failed operation has had *)
(* no effect, and the driver's evidence of the operation is released only    *)
(* after the outcome is durable.  Containers, claims, disks, callers and     *)
(* crashes are not visible here.                                             *)
EXTENDS Naturals

CONSTANT Operations

VARIABLES outcome,     \* the durable outcome of each operation
          evidence,    \* the driver's record of having answered it
          effects      \* how often the driver carried it out

vars == <<outcome, evidence, effects>>

Decided == {"succeeded", "failed"}

Init ==
    /\ outcome = [o \in Operations |-> "absent"]
    /\ evidence = [o \in Operations |-> "none"]
    /\ effects = [o \in Operations |-> 0]

Accept(o) ==
    /\ outcome[o] = "absent"
    /\ outcome' = [outcome EXCEPT ![o] = "prepared"]
    /\ UNCHANGED <<evidence, effects>>

\* The driver answers for the first time; the answer may be a refusal.
Answer(o) ==
    /\ outcome[o] # "absent"
    /\ evidence[o] = "none"
    /\ evidence' = [evidence EXCEPT ![o] = "kept"]
    /\ \/ effects' = [effects EXCEPT ![o] = @ + 1]
       \/ UNCHANGED effects
    /\ UNCHANGED outcome

Succeed(o) ==
    /\ outcome[o] = "prepared"
    /\ outcome' = [outcome EXCEPT ![o] = "succeeded"]
    /\ UNCHANGED <<evidence, effects>>

Fail(o) ==
    /\ outcome[o] = "prepared"
    /\ evidence[o] = "kept"
    /\ effects[o] = 0
    /\ outcome' = [outcome EXCEPT ![o] = "failed"]
    /\ UNCHANGED <<evidence, effects>>

Release(o) ==
    /\ outcome[o] \in Decided
    /\ evidence' = [evidence EXCEPT ![o] = "released"]
    /\ UNCHANGED <<outcome, effects>>

Next == \E o \in Operations : Accept(o) \/ Answer(o) \/ Succeed(o) \/ Fail(o) \/ Release(o)

Spec == Init /\ [][Next]_vars
==============================================================================
