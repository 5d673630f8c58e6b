------------------------------- MODULE MCShim --------------------------------
(* Instances of the containerd shim's modules in one run.  A behaviour has   *)
(* one subject: the controls of a task under one plan of requests, an exec   *)
(* ID with two requests at a time or with faults, a stdin pump, an output    *)
(* pump, or the task's creation and deletion.  The others stay as they begin *)
(* and have nothing to do, so that their fairness holds.                     *)
EXTENDS ShimControl, ShimExec, ShimStdin, ShimOutput, ShimTask

Want(class, what) == [class |-> class, what |-> what]

\* Requests that compete: for the freezer, for a container about to be killed,
\* for the signal gate and for the terminal.
Plans ==
    {{Want("control", "pause"), Want("control", "resume"), Want("control", "limits")},
     {Want("control", "pause"), Want("control", "resume"), Want("signal", "kill")},
     {Want("signal", "term"), Want("signal", "kill")},
     {Want("resize", "wide"), Want("resize", "tall")}}

MCAsks == UNION Plans

ExecPlans == {{"race"}, {"faults"}}

VARIABLE subject

shimVars == <<subject, controlVars, execVars, stdinVars, outputVars, taskVars>>

MCShimInit ==
    /\ subject \in Plans \cup ExecPlans \cup {{"stdin"}, {"output"}, {"task"}}
    /\ ControlInit /\ ExecInit /\ StdinInit /\ OutputInit /\ TaskInit

Planned == {rpc'[c].ask : c \in Rpcs} \subseteq subject \cup {Nil}

OneCall == \A c, d \in Callers : IdleCall \in {calls'[c], calls'[d]} \/ c = d

MCShimNext ==
    /\ UNCHANGED subject
    /\ \/ /\ subject \in Plans /\ ControlNext /\ Planned
          /\ UNCHANGED <<execVars, stdinVars, outputVars, taskVars>>
       \/ /\ subject \in ExecPlans /\ ExecNext
          /\ IF subject = {"race"} THEN execFaults' = 0 ELSE OneCall
          /\ UNCHANGED <<controlVars, stdinVars, outputVars, taskVars>>
       \/ /\ subject = {"stdin"} /\ StdinNext
          /\ UNCHANGED <<controlVars, execVars, outputVars, taskVars>>
       \/ /\ subject = {"output"} /\ OutputNext
          /\ UNCHANGED <<controlVars, execVars, stdinVars, taskVars>>
       \/ /\ subject = {"task"} /\ TaskNext
          /\ UNCHANGED <<controlVars, execVars, stdinVars, outputVars>>

MCShimSpec ==
    /\ MCShimInit /\ [][MCShimNext]_shimVars
    /\ ControlFairness /\ ExecFairness /\ StdinFairness
=============================================================================
