------------------------------ MODULE Lifecycle ------------------------------
(* The durable OCI lifecycle of one container generation                     *)
(* (crates/core/src/lifecycle.rs).                                           *)
(*                                                                           *)
(* The code keeps the OCI status (creating, created, running, stopped) and   *)
(* the freezer flag apart; the flag is an annotation that only a running     *)
(* record carries and that stopping removes (state/oci_state.rs).  The       *)
(* module writes the pair as one status: "paused" is running with the flag.  *)

Statuses == {"creating", "created", "running", "paused", "stopped"}

LifecycleEvents == {"create-completed", "start-completed", "process-exited"}

\* What a driver can report of a generation it owns (DriverState).
Observations == {"created", "running", "paused", "stopped"}

\* ContainerState::Running, whatever the freezer flag.
IsRunning(status) == status \in {"running", "paused"}

\* The transition table; "refused" is TransitionError.
Transition(state, event) ==
    CASE state = "creating" /\ event = "create-completed" -> "created"
      [] state = "created" /\ event = "start-completed" -> "running"
      [] (state = "created" \/ IsRunning(state)) /\ event = "process-exited" -> "stopped"
      [] OTHER -> "refused"
==============================================================================
