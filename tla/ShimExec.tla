------------------------------ MODULE ShimExec -------------------------------
(* One exec ID of a task in the containerd shim: Exec adds an incarnation,   *)
(* Start creates its process in the runtime, a monitor records its exit,     *)
(* Wait waits for that record, Delete removes the exec and leaves a receipt  *)
(* that answers repeated Deletes, and Exec may use the ID again.  The exec   *)
(* is kept in memory and in the metadata file, the receipt in a file of its  *)
(* own; a replacement shim rebuilds the exec from them.                      *)
(*                                                                           *)
(* The runtime host is external: one process per incarnation, created once.  *)
EXTENDS ClientBase, Naturals

CONSTANTS Callers,          \* Start and Wait requests served at the same time
          MaxIncarnation,   \* incarnations of the exec ID
          MaxExecFaults     \* failed stores and calls, crashes

Incarnations == 1 .. MaxIncarnation
Execs == [inc : Incarnations, stage : {"added", "starting", "started", "exited"},
          process : 0 .. MaxIncarnation, exit : 0 .. MaxIncarnation]

ASSUME ExecAssumption ==
    MaxIncarnation \in Nat /\ MaxExecFaults \in Nat /\ Nil \notin Execs

VARIABLES
    exec,       \* the exec in memory: incarnation, stage, process, exit
    execSeq,    \* the exec sequence in memory
    disk,       \* exec and sequence in the metadata file
    receipt,    \* the entry of the delete journal
    serving,    \* the shim has published the task
    calls,      \* Start and Wait requests in progress
    monitor,    \* the exit monitor registered for the exec ID
    waitError,  \* a monitor's failure, kept for one Wait
    process,    \* runtime: the process of each incarnation
    latest,     \* the incarnation seen last in memory
    overtaken,  \* an exec was deleted before its process was recorded
    execFaults

execVars == <<exec, execSeq, disk, receipt, serving, calls, monitor, waitError, process,
              latest, overtaken, execFaults>>

IdleCall == [stage |-> "idle", inc |-> 0, wait |-> FALSE, woken |-> FALSE]

ExecInit ==
    /\ exec = Nil
    /\ execSeq = 0
    /\ disk = [exec |-> Nil, seq |-> 0]
    /\ receipt = Nil
    /\ serving = TRUE
    /\ calls = [c \in Callers |-> IdleCall]
    /\ monitor = Nil
    /\ waitError = FALSE
    /\ process = [i \in Incarnations |-> "none"]
    /\ latest = 0
    /\ overtaken = FALSE
    /\ execFaults = 0

ExecFault == execFaults < MaxExecFaults /\ execFaults' = execFaults + 1

\* The metadata file is replaced, or the store fails before or after the rename.
Persisted(x, n) == disk' = [exec |-> x, seq |-> n] /\ UNCHANGED execFaults
PersistFailed(x, n) == disk' \in {disk, [exec |-> x, seq |-> n]} /\ ExecFault

\* Mutant: a recorded process does not count.
NeverRunning(x) == FALSE

Running(x) == x.process # 0 /\ x.exit = 0
EndCall(c) == calls' = [calls EXCEPT ![c] = IdleCall]
Woken(cs) == [c \in Callers |-> [cs[c] EXCEPT !.woken = cs[c].wait]]

-----------------------------------------------------------------------------
(* Exec and Delete, each under the metadata gate and the state lock.         *)

\* The new incarnation is committed, then the old receipt is dropped (a failure
\* of that is only logged).
AddExec ==
    /\ serving /\ exec = Nil /\ execSeq < MaxIncarnation
    /\ LET n == execSeq + 1
           x == [inc |-> n, stage |-> "added", process |-> 0, exit |-> 0]
       IN  \/ /\ exec' = x /\ execSeq' = n /\ latest' = n
              /\ disk' = [exec |-> x, seq |-> n]
              /\ \/ receipt' = Nil /\ UNCHANGED execFaults
                 \/ receipt # Nil /\ receipt' = receipt /\ ExecFault
           \/ PersistFailed(x, n) /\ UNCHANGED <<exec, execSeq, receipt, latest>>
    /\ UNCHANGED <<serving, calls, monitor, waitError, process, overtaken>>

\* Mutant: an entry that is already there stays.
KeptReceipt(x) == IF receipt # Nil THEN receipt ELSE [inc |-> x.inc, exit |-> x.exit]

ReceiptOf(x) == [inc |-> x.inc, exit |-> x.exit]

\* The receipt is stored, then the metadata without the exec, then memory is
\* changed and the monitor aborted.
DeleteExec ==
    /\ serving /\ exec # Nil /\ ~Running(exec)
    /\ LET r == ReceiptOf(exec)
       IN  \/ /\ Persisted(Nil, execSeq)
              /\ receipt' = r
              /\ exec' = Nil /\ monitor' = Nil /\ waitError' = FALSE
           \/ /\ \/ receipt' \in {receipt, r} /\ disk' = disk /\ ExecFault
                 \/ receipt' = r /\ PersistFailed(Nil, execSeq)
              /\ UNCHANGED <<exec, monitor, waitError>>
    /\ overtaken' = (overtaken \/ exec.process = 0)
    /\ UNCHANGED <<execSeq, serving, calls, process, latest>>

-----------------------------------------------------------------------------
(* Start.                                                                    *)

StartExec(c) ==
    /\ serving /\ calls[c].stage = "idle"
    /\ exec # Nil /\ exec.stage # "exited"
    /\ calls' = [calls EXCEPT ![c] = [IdleCall EXCEPT !.inc = exec.inc,
                    !.stage = IF exec.stage = "added" THEN "stage" ELSE "create"]]
    /\ UNCHANGED <<exec, execSeq, disk, receipt, serving, monitor, waitError, process, latest,
                   overtaken, execFaults>>

\* The exec found under the ID becomes Starting and is stored.
StageStart(c) ==
    /\ calls[c].stage = "stage"
    /\ IF exec = Nil
       THEN EndCall(c) /\ UNCHANGED <<exec, disk, execFaults>>
       ELSE /\ exec' = [exec EXCEPT !.stage = "starting"]
            /\ \/ Persisted(exec', execSeq) /\ calls' = [calls EXCEPT ![c].stage = "create"]
               \/ PersistFailed(exec', execSeq) /\ EndCall(c)
    /\ UNCHANGED <<execSeq, receipt, serving, monitor, waitError, process, latest, overtaken>>

CreateProcess(i) ==
    process' = [process EXCEPT ![i] = IF @ = "none" THEN "running" ELSE @]

\* The process is looked up by incarnation and created when absent; the answer
\* may be lost.
CreateExec(c) ==
    /\ calls[c].stage = "create"
    /\ \/ /\ CreateProcess(calls[c].inc)
          /\ \/ calls' = [calls EXCEPT ![c].stage = "attach"] /\ UNCHANGED execFaults
             \/ EndCall(c) /\ ExecFault
       \/ EndCall(c) /\ ExecFault /\ UNCHANGED process
    /\ UNCHANGED <<exec, execSeq, disk, receipt, serving, monitor, waitError, latest, overtaken>>

\* The process is recorded in the exec found under the ID; when there is none
\* the process is killed and waited for.
AttachProcess(c) ==
    /\ calls[c].stage = "attach"
    /\ \/ /\ exec = Nil
          /\ process' = [process EXCEPT ![calls[c].inc] = "exited"]
          /\ EndCall(c)
          /\ UNCHANGED <<exec, disk, execFaults>>
       \/ /\ exec # Nil
          /\ exec' = [exec EXCEPT !.stage = "started", !.process = calls[c].inc]
          /\ \/ /\ Persisted(exec', execSeq)
                /\ calls' = Woken([calls EXCEPT ![c].stage = "watch"])
             \/ PersistFailed(exec', execSeq) /\ EndCall(c)
          /\ UNCHANGED process
    /\ UNCHANGED <<execSeq, receipt, serving, monitor, waitError, latest, overtaken>>

-----------------------------------------------------------------------------
(* Exit monitor and Wait.                                                    *)

\* ensure_exit_monitor reads the exec's identity, then registers a monitor
\* unless there is one.
WatchExit(c) ==
    /\ calls[c].stage = "watch"
    /\ calls' = [calls EXCEPT ![c].stage = IF exec = Nil THEN "watched" ELSE "register",
                              ![c].inc = IF exec = Nil THEN 0 ELSE exec.inc]
    /\ UNCHANGED <<exec, execSeq, disk, receipt, serving, monitor, waitError, process, latest,
                   overtaken, execFaults>>

RegisterMonitor(c) ==
    /\ calls[c].stage = "register"
    /\ monitor' = IF monitor = Nil THEN [inc |-> calls[c].inc, waits |-> FALSE] ELSE monitor
    /\ calls' = [calls EXCEPT ![c].stage = "watched"]
    /\ UNCHANGED <<exec, execSeq, disk, receipt, serving, waitError, process, latest, overtaken,
                   execFaults>>

\* Mutant: the notification is armed only now, so one sent since the check is lost.
WatchedThenArmed(c) ==
    /\ calls[c].stage = "watched"
    /\ IF calls[c].wait
       THEN calls' = [calls EXCEPT ![c].stage = "sleep", ![c].woken = FALSE] ELSE EndCall(c)
    /\ UNCHANGED <<exec, execSeq, disk, receipt, serving, monitor, waitError, process, latest,
                   overtaken, execFaults>>

\* Start returns; Wait sleeps until it is notified.
Watched(c) ==
    /\ calls[c].stage = "watched"
    /\ IF calls[c].wait THEN calls' = [calls EXCEPT ![c].stage = "sleep"] ELSE EndCall(c)
    /\ UNCHANGED <<exec, execSeq, disk, receipt, serving, monitor, waitError, process, latest,
                   overtaken, execFaults>>

\* Mutant: any incarnation found under the ID is taken for the monitor's.
CurrentById(i) == exec # Nil

\* The incarnation a monitor was started for still holds the ID.
Current(i) == exec # Nil /\ exec.inc = i

MonitorFails ==
    /\ monitor' = Nil
    /\ waitError' = (waitError \/ Current(monitor.inc))
    /\ calls' = IF Current(monitor.inc) THEN Woken(calls) ELSE calls

\* observe_exit: check the incarnation, then wait for its process.
ObserveExit ==
    /\ monitor # Nil /\ ~monitor.waits
    /\ IF Current(monitor.inc) /\ process[monitor.inc] # "none"
       THEN monitor' = [monitor EXCEPT !.waits = TRUE] /\ UNCHANGED <<waitError, calls>>
       ELSE MonitorFails
    /\ UNCHANGED <<exec, execSeq, disk, receipt, serving, process, latest, overtaken,
                   execFaults>>

\* record_exit: the exit stays in memory even when it cannot be stored.
RecordExecExit ==
    /\ monitor # Nil /\ monitor.waits /\ process[monitor.inc] = "exited"
    /\ IF ~Current(monitor.inc)
       THEN MonitorFails /\ UNCHANGED <<exec, disk, execFaults>>
       ELSE /\ exec' = [exec EXCEPT !.stage = "exited", !.exit = monitor.inc]
            /\ \/ /\ Persisted(exec', execSeq)
                  /\ monitor' = Nil /\ calls' = Woken(calls) /\ UNCHANGED waitError
               \/ PersistFailed(exec', execSeq) /\ MonitorFails
    /\ UNCHANGED <<execSeq, receipt, serving, process, latest, overtaken>>

WaitExec(c) ==
    /\ serving /\ calls[c].stage = "idle" /\ exec # Nil
    /\ calls' = [calls EXCEPT ![c] = [IdleCall EXCEPT !.stage = "check", !.wait = TRUE]]
    /\ UNCHANGED <<exec, execSeq, disk, receipt, serving, monitor, waitError, process, latest,
                   overtaken, execFaults>>

\* One round of wait_for_recorded_exit: the notification is armed first.
CheckExit(c) ==
    /\ calls[c].stage = "check" \/ (calls[c].stage = "sleep" /\ calls[c].woken)
    /\ calls' = [calls EXCEPT ![c] =
                   IF waitError \/ exec = Nil \/ (exec # Nil /\ exec.exit # 0) THEN IdleCall
                   ELSE [@ EXCEPT !.woken = FALSE,
                                  !.stage = IF exec.process # 0 THEN "watch" ELSE "sleep"]]
    /\ waitError' = FALSE
    /\ UNCHANGED <<exec, execSeq, disk, receipt, serving, monitor, process, latest, overtaken,
                   execFaults>>

ProcessExits(i) ==
    /\ process[i] = "running"
    /\ process' = [process EXCEPT ![i] = "exited"]
    /\ UNCHANGED <<exec, execSeq, disk, receipt, serving, calls, monitor, waitError, latest,
                   overtaken, execFaults>>

-----------------------------------------------------------------------------
(* Crash and rehydration.                                                    *)

ExecCrash ==
    /\ serving
    /\ ExecFault
    /\ serving' = FALSE
    /\ exec' = Nil
    /\ execSeq' = 0
    /\ calls' = [c \in Callers |-> IdleCall]
    /\ monitor' = Nil
    /\ waitError' = FALSE
    /\ UNCHANGED <<disk, receipt, process, latest, overtaken>>

Recreated(x) == x # Nil /\ x.stage \in {"starting", "started"} /\ x.exit = 0

\* A receipt of an exec that is still there was never committed and goes; then
\* the process of a Starting or Started exec is looked up or created.
RestoreReceipts ==
    /\ ~serving /\ disk.exec # Nil /\ receipt # Nil
    /\ receipt' = Nil
    /\ UNCHANGED <<exec, execSeq, disk, serving, calls, monitor, waitError, process, latest,
                   overtaken, execFaults>>

RestoreProcess ==
    /\ ~serving /\ Recreated(disk.exec) /\ receipt = Nil
    /\ process[disk.exec.inc] = "none"
    /\ CreateProcess(disk.exec.inc)
    /\ UNCHANGED <<exec, execSeq, disk, receipt, serving, calls, monitor, waitError, latest,
                   overtaken, execFaults>>

RestoredExec ==
    IF Recreated(disk.exec)
    THEN [disk.exec EXCEPT !.stage = "started", !.process = disk.exec.inc]
    ELSE disk.exec

RestoreExec ==
    /\ ~serving
    /\ disk.exec # Nil => receipt = Nil
    /\ Recreated(disk.exec) => process[disk.exec.inc] # "none"
    /\ LET x == RestoredExec
       IN  \/ /\ Persisted(x, disk.seq)
              /\ exec' = x
              /\ execSeq' = disk.seq
              /\ latest' = IF x = Nil THEN latest ELSE x.inc
              /\ monitor' = IF x # Nil /\ Running(x) THEN [inc |-> x.inc, waits |-> FALSE] ELSE Nil
              /\ serving' = TRUE
           \/ PersistFailed(x, disk.seq) /\ UNCHANGED <<exec, execSeq, latest, monitor, serving>>
    /\ UNCHANGED <<receipt, calls, waitError, process, overtaken>>

CallStep(c) ==
    \/ StageStart(c) \/ CreateExec(c) \/ AttachProcess(c)
    \/ WatchExit(c) \/ RegisterMonitor(c) \/ Watched(c) \/ CheckExit(c)

MonitorStep == ObserveExit \/ RecordExecExit

ExecNext ==
    \/ AddExec \/ DeleteExec
    \/ \E c \in Callers : StartExec(c) \/ WaitExec(c) \/ CallStep(c)
    \/ MonitorStep
    \/ \E i \in Incarnations : ProcessExits(i)
    \/ ExecCrash \/ RestoreReceipts \/ RestoreProcess \/ RestoreExec

ExecFairness == (\A c \in Callers : WF_execVars(CallStep(c))) /\ WF_execVars(MonitorStep)

ExecSpec == ExecInit /\ [][ExecNext]_execVars /\ ExecFairness
-----------------------------------------------------------------------------
(* Properties.                                                               *)

\* A repeated Delete of an absent exec is answered for the incarnation that
\* held the ID last, never for an earlier one, whatever stores failed and
\* wherever the shim crashed.
ReceiptIsLatest == serving /\ exec = Nil /\ receipt # Nil => receipt.inc = latest

\* An exit recorded for an exec, in memory or on disk, is the exit of the
\* process of its own incarnation: a monitor left over from a deleted
\* incarnation does not publish into the next.
ExitIsOwn ==
    /\ exec # Nil => exec.exit \in {0, exec.inc}
    /\ disk.exec # Nil => disk.exec.exit \in {0, disk.exec.inc}

\* No process runs in the container without the exec it was started for, in
\* memory or on disk, unless an exec was deleted before its process was
\* recorded, which Delete does not refuse (a Start may be in progress, or have
\* failed after the runtime created the process).
NoOrphanExec ==
    overtaken \/ \A i \in Incarnations : process[i] = "running" =>
        \E x \in {exec, disk.exec} \ {Nil} : x.inc = i

ExitPending ==
    exec # Nil /\ monitor # Nil /\ monitor.inc = exec.inc /\ process[exec.inc] = "exited"

\* Once a monitor is registered for an exec whose process has exited, every
\* Wait on it returns, unless the exec is deleted first: no notification is
\* lost between a Wait's check and its sleep, and a monitor that fails leaves
\* its error to a Wait.
WaitReturns ==
    \A c \in Callers :
        calls[c].wait /\ ExitPending ~> calls[c].stage = "idle" \/ exec = Nil
=============================================================================
