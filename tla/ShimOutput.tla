----------------------------- MODULE ShimOutput ------------------------------
(* The output pump of one process in the containerd shim (crates/containerd- *)
(* shim/src/io/output.rs) and its durable cursor (service/journal.rs).  The  *)
(* pump reads frames from the runtime behind its cursor, writes their bytes  *)
(* to the FIFO of their stream, and commits the cursor after every write; a  *)
(* write may take only a prefix.  An end-of-stream frame is one position of  *)
(* the cursor too.  A replacement shim resumes from the stored cursor.       *)
(*                                                                           *)
(* The runtime's output log is external: the process appends to it, and it   *)
(* is read from any position.                                                *)
EXTENDS ClientBase, Naturals, Sequences, SequencesExt

CONSTANTS MaxOutput,        \* positions of the log the process may fill with bytes
          MaxOutputFaults   \* failed stores, lost answers, crashes

ASSUME OutputAssumption == MaxOutput \in Nat /\ MaxOutputFaults \in Nat

VARIABLES
    log,        \* runtime: bytes by stream, and the ends of the streams
    running,    \* runtime: the process runs
    cursor,     \* the cursor in the task's memory, Nil while no shim serves
    committed,  \* the cursor in the metadata file
    outPump,    \* the pump: where it is, its cursor, the frame in hand, streams done
    delivered,  \* log positions in the order they were written to the FIFOs
    exitSeen,   \* the exit is recorded
    outputFaults

outputVars == <<log, running, cursor, committed, outPump, delivered, exitSeen, outputFaults>>

Streams == {"stdout", "stderr"}
Byte(s) == [stream |-> s, eof |-> FALSE]
Eof(s) == [stream |-> s, eof |-> TRUE]
NewPump(c) == [stage |-> "read", cursor |-> c, end |-> c, done |-> {}]

OutputInit ==
    /\ log = <<>>
    /\ running = TRUE
    /\ cursor = 0
    /\ committed = 0
    /\ outPump = NewPump(0)
    /\ delivered = <<>>
    /\ exitSeen = FALSE
    /\ outputFaults = 0

OutputFault == outputFaults < MaxOutputFaults /\ outputFaults' = outputFaults + 1

Emit ==
    /\ running /\ Len(log) < MaxOutput
    /\ \E s \in Streams : log' = Append(log, Byte(s))
    /\ UNCHANGED <<running, cursor, committed, outPump, delivered, exitSeen, outputFaults>>

\* The process exits and both streams end.
ExitProcess ==
    /\ running
    /\ running' = FALSE
    /\ \E s \in Streams, t \in Streams : s # t /\ log' = log \o <<Eof(s), Eof(t)>>
    /\ UNCHANGED <<cursor, committed, outPump, delivered, exitSeen, outputFaults>>

\* The exit monitor; it does not wait for the output.
RecordOutputExit ==
    /\ cursor # Nil /\ ~running /\ ~exitSeen
    /\ exitSeen' = TRUE
    /\ UNCHANGED <<log, running, cursor, committed, outPump, delivered, outputFaults>>

-----------------------------------------------------------------------------
(* The pump.                                                                 *)

\* A frame is a run of bytes of one stream, or one end of stream.
IsFrame(from, to) ==
    \/ to = from + 1
    \/ /\ to \in from + 1 .. Len(log)
       /\ \A i \in from + 1 .. to : log[i] = log[from + 1] /\ ~log[i].eof

ReadOutput ==
    /\ outPump.stage = "read"
    /\ IF outPump.done = Streams
       THEN outPump' = [outPump EXCEPT !.stage = "end"] /\ UNCHANGED outputFaults
       ELSE \/ /\ outPump.cursor < Len(log)
               /\ \E to \in outPump.cursor + 1 .. Len(log) :
                    /\ IsFrame(outPump.cursor, to)
                    /\ outPump' = [outPump EXCEPT !.stage = "write", !.end = to]
               /\ UNCHANGED outputFaults
            \/ outPump' = [outPump EXCEPT !.stage = "failed"] /\ OutputFault
    /\ UNCHANGED <<log, running, cursor, committed, delivered, exitSeen>>

\* The kernel takes a prefix of what is left of the frame; nothing is written
\* for an end of stream.
WriteOutput ==
    /\ outPump.stage = "write"
    /\ IF log[outPump.cursor + 1].eof
       THEN outPump' = [outPump EXCEPT !.stage = "commit"] /\ UNCHANGED delivered
       ELSE \E to \in outPump.cursor + 1 .. outPump.end :
              /\ delivered' = delivered \o [i \in 1 .. to - outPump.cursor |-> outPump.cursor + i]
              /\ outPump' = [outPump EXCEPT !.stage = "commit"]
    /\ UNCHANGED <<log, running, cursor, committed, exitSeen, outputFaults>>

\* The position behind what was just written.
Written == IF log[outPump.cursor + 1].eof THEN outPump.cursor + 1 ELSE Last(delivered)

\* Mutant: the whole frame is committed after a partial write.
CommitFrame ==
    /\ outPump.stage = "commit"
    /\ cursor' = outPump.end /\ committed' = outPump.end
    /\ outPump' = [outPump EXCEPT !.stage = "read", !.cursor = outPump.end]
    /\ UNCHANGED <<log, running, delivered, exitSeen, outputFaults>>

\* The cursor is stored; a failed store is rolled back in memory and ends the pump.
CommitCursor ==
    /\ outPump.stage = "commit"
    /\ LET next == Written
           frame == log[outPump.cursor + 1]
       IN  \/ /\ cursor' = next /\ committed' = next
              /\ outPump' = [outPump EXCEPT !.cursor = next,
                               !.stage = IF next < outPump.end THEN "write" ELSE "read",
                               !.done = IF frame.eof THEN @ \cup {frame.stream} ELSE @]
              /\ UNCHANGED outputFaults
           \/ /\ OutputFault
              /\ committed' \in {committed, next}
              /\ outPump' = [outPump EXCEPT !.stage = "failed"]
              /\ UNCHANGED cursor
    /\ UNCHANGED <<log, running, delivered, exitSeen>>

-----------------------------------------------------------------------------
(* Crash and rehydration.                                                    *)

OutputCrash ==
    /\ cursor # Nil /\ OutputFault
    /\ cursor' = Nil
    /\ outPump' = [NewPump(0) EXCEPT !.stage = "none"]
    /\ UNCHANGED <<log, running, committed, delivered, exitSeen>>

\* Mutant: the pump starts at the beginning of the log.
OutputRestoreFromStart ==
    /\ cursor = Nil
    /\ cursor' = committed
    /\ exitSeen' = (exitSeen \/ ~running)
    /\ outPump' = IF exitSeen' THEN outPump ELSE NewPump(0)
    /\ UNCHANGED <<log, running, committed, delivered, outputFaults>>

\* The exit of a stopped process is recovered first; a process known to have
\* exited gets no pump.
OutputRestore ==
    /\ cursor = Nil
    /\ cursor' = committed
    /\ exitSeen' = (exitSeen \/ ~running)
    /\ outPump' = IF exitSeen' THEN outPump ELSE NewPump(committed)
    /\ UNCHANGED <<log, running, committed, delivered, outputFaults>>

OutputStep == ReadOutput \/ WriteOutput \/ CommitCursor

OutputNext ==
    \/ Emit \/ ExitProcess \/ RecordOutputExit \/ OutputStep \/ OutputCrash \/ OutputRestore

OutputSpec == OutputInit /\ [][OutputNext]_outputVars
-----------------------------------------------------------------------------
(* Properties.                                                               *)

Delivered == ToSet(delivered)

\* The client's FIFOs get the output without a gap, and a byte twice only if it
\* was written but its cursor not yet stored: a delivery starts at most one
\* past the furthest byte so far, and never at or before the stored cursor.
OutputHasNoGap ==
    /\ \A n \in 1 .. Len(delivered) : \A i \in 1 .. delivered[n] :
          ~log[i].eof => i \in ToSet(SubSeq(delivered, 1, n))
    /\ \A i \in 1 .. committed : ~log[i].eof => i \in Delivered

\* Output that a shim has delivered and committed is never delivered again.
CommittedIsNotRepeated ==
    [][\A n \in Len(delivered) + 1 .. Len(delivered') : delivered'[n] > committed]_outputVars

\* A shim that serves the task resumes at the first undelivered byte: as long
\* as there is output the client has not got, a pump is there to deliver it or
\* has failed.
ResumesUndelivered ==
    cursor # Nil /\ (\E i \in 1 .. Len(log) : ~log[i].eof /\ i \notin Delivered) =>
        outPump.stage # "none"
=============================================================================
