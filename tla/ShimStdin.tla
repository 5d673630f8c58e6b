------------------------------ MODULE ShimStdin ------------------------------
(* The stdin pump of one process in the containerd shim (crates/containerd-  *)
(* shim/src/io.rs) and its journal (service/journal.rs).  The pump reads     *)
(* chunks from the FIFO, stores each as pending, writes it to the runtime    *)
(* under an operation ID made of its sequence, and stores the sequence as    *)
(* completed; at the end of input it closes the runtime's stdin through the  *)
(* states Closing and Closed.  CloseIO asks the pump to drain the FIFO and   *)
(* waits for it.  A replacement shim resumes from the stored journal.        *)
(*                                                                           *)
(* Chunks are numbered in the order the client writes them.  The FIFO and    *)
(* the runtime host are external: the host decides an operation ID once.     *)
EXTENDS ClientBase, Sequences, SequencesExt

CONSTANTS MaxChunks,        \* chunks the client writes
          MaxStdinFaults    \* failed stores, lost answers, crashes

Journals == [seq : Nat, pend : Nat \cup {Nil}, close : {"open", "closing", "closed"}]

ASSUME StdinAssumption == MaxChunks \in Nat /\ MaxStdinFaults \in Nat /\ Nil \notin Journals

VARIABLES
    written,    \* chunks the client has written to the FIFO
    finished,   \* the client writes no more
    writer,     \* the client holds the FIFO open
    taken,      \* chunks the pump has read
    journal,    \* sequence, pending write and close state in memory
    stored,     \* the same in the metadata file
    pump,       \* the pump: where it is, its sequence, the chunk in hand
    active,     \* Start has activated the pump
    drain,      \* CloseIO has asked for the drain
    closeIO,    \* the CloseIO request
    live,       \* runtime: the process runs
    received,   \* runtime: chunks written to the process
    accepted,   \* runtime: the sequences decided
    closed,     \* runtime: stdin is closed
    dropped,    \* chunks read but never stored when the pump or the shim died
    stdinFaults

stdinVars == <<written, finished, writer, taken, journal, stored, pump, active, drain, closeIO,
               live, received, accepted, closed, dropped, stdinFaults>>

clientVars == <<written, finished, writer>>
hostVars == <<live, received, accepted, closed>>

NewJournal == [seq |-> 0, pend |-> Nil, close |-> "open"]
Pump(stage, seq, chunk) == [stage |-> stage, seq |-> seq, chunk |-> chunk]

StdinInit ==
    /\ written = 0 /\ finished = FALSE /\ writer = TRUE
    /\ taken = 0
    /\ journal = NewJournal
    /\ stored = NewJournal
    /\ pump = Pump("wait", 0, 0)
    /\ active = FALSE
    /\ drain = FALSE
    /\ closeIO = "idle"
    /\ live = TRUE
    /\ received = <<>>
    /\ accepted = {}
    /\ closed = FALSE
    /\ dropped = {}
    /\ stdinFaults = 0

StdinFault == stdinFaults < MaxStdinFaults /\ stdinFaults' = stdinFaults + 1

-----------------------------------------------------------------------------
(* The client, Start and the process.                                        *)

WriteFifo ==
    /\ ~finished /\ written < MaxChunks
    /\ written' = written + 1
    /\ UNCHANGED <<finished, writer, taken, journal, stored, pump, active, drain, closeIO,
                   hostVars, dropped, stdinFaults>>

\* The client closes the FIFO: after CloseIO, or without it.
CloseFifo ==
    /\ writer /\ closeIO # "wait"
    /\ finished' = TRUE
    /\ writer' = FALSE
    /\ UNCHANGED <<written, taken, journal, stored, pump, active, drain, closeIO, hostVars,
                   dropped, stdinFaults>>

\* containerd calls CloseIO when it has seen the end of input; the pump must be
\* there and must not have failed.
CloseIO ==
    /\ closeIO \in {"idle", "error"} /\ journal # Nil
    /\ finished' = TRUE
    /\ IF pump.stage \in {"none", "failed"}
       THEN closeIO' = "error" /\ UNCHANGED drain
       ELSE closeIO' = "wait" /\ drain' = TRUE
    /\ UNCHANGED <<written, writer, taken, journal, stored, pump, active, hostVars, dropped,
                   stdinFaults>>

CloseIOReturns ==
    /\ closeIO = "wait" /\ pump.stage \in {"failed", "drained"}
    /\ closeIO' = IF pump.stage = "drained" THEN "ok" ELSE "error"
    /\ UNCHANGED <<clientVars, taken, journal, stored, pump, active, drain, hostVars, dropped,
                   stdinFaults>>

Activate ==
    /\ ~active /\ journal # Nil
    /\ active' = TRUE
    /\ UNCHANGED <<clientVars, taken, journal, stored, pump, drain, closeIO, hostVars, dropped,
                   stdinFaults>>

TargetExits ==
    /\ live
    /\ live' = FALSE
    /\ UNCHANGED <<clientVars, taken, journal, stored, pump, active, drain, closeIO, received,
                   accepted, closed, dropped, stdinFaults>>

-----------------------------------------------------------------------------
(* The pump.                                                                 *)

\* Mutant: a pending write is replayed under the next sequence.
StartPumpAnew ==
    /\ pump.stage = "wait" /\ (active \/ drain)
    /\ pump' = IF journal.close = "closing" THEN [pump EXCEPT !.stage = "close"]
               ELSE IF journal.pend # Nil
               THEN Pump("write", journal.seq + 1, journal.pend)
               ELSE [pump EXCEPT !.stage = "read"]
    /\ UNCHANGED <<clientVars, taken, journal, stored, active, drain, closeIO, hostVars, dropped,
                   stdinFaults>>

\* Mutant: a drain request does not wake a pump that waits for Start.
StartPumpOnActivation ==
    /\ pump.stage = "wait" /\ active
    /\ pump' = IF journal.close = "closing" THEN [pump EXCEPT !.stage = "close"]
               ELSE IF journal.pend # Nil
               THEN Pump("write", journal.seq, journal.pend)
               ELSE [pump EXCEPT !.stage = "read"]
    /\ UNCHANGED <<clientVars, taken, journal, stored, active, drain, closeIO, hostVars, dropped,
                   stdinFaults>>

\* wait_for_stdin_activation; then a pending write is replayed and a close that
\* was begun is finished before anything is read.
StartPump ==
    /\ pump.stage = "wait" /\ (active \/ drain)
    /\ pump' = IF journal.close = "closing" THEN [pump EXCEPT !.stage = "close"]
               ELSE IF journal.pend # Nil
               THEN Pump("write", journal.seq, journal.pend)
               ELSE [pump EXCEPT !.stage = "read"]
    /\ UNCHANGED <<clientVars, taken, journal, stored, active, drain, closeIO, hostVars, dropped,
                   stdinFaults>>

\* Mutant: a drain request ends the input even when the FIFO still holds some.
InputEndsOnDrain == drain \/ (taken = written /\ ~writer)

\* End of file, or an empty FIFO once the drain was requested.
InputEnds == taken = written /\ (drain \/ ~writer)

ReadFifo ==
    /\ pump.stage = "read"
    /\ IF InputEnds
       THEN pump' = [pump EXCEPT !.stage = "closing"] /\ UNCHANGED taken
       ELSE /\ taken < written
            /\ taken' = taken + 1
            /\ pump' = Pump("prepare", pump.seq, taken + 1)
    /\ UNCHANGED <<clientVars, journal, stored, active, drain, closeIO, hostVars, dropped,
                   stdinFaults>>

\* Every journal step changes memory and the metadata, or, when the store
\* fails before or after the rename, restores memory and ends the pump.
Journal(new, next) ==
    \/ /\ journal' = new /\ stored' = new
       /\ pump' = next
       /\ UNCHANGED stdinFaults
    \/ /\ StdinFault
       /\ stored' \in {stored, new}
       /\ pump' = [pump EXCEPT !.stage = "failed"]
       /\ UNCHANGED journal

PrepareWrite ==
    /\ pump.stage = "prepare"
    /\ journal.close = "open" /\ journal.pend = Nil /\ pump.seq = journal.seq
    /\ Journal([journal EXCEPT !.pend = pump.chunk], [pump EXCEPT !.stage = "write"])
    /\ dropped' = IF pump'.stage = "failed" THEN dropped \cup {pump.chunk} ELSE dropped
    /\ UNCHANGED <<clientVars, taken, active, drain, closeIO, hostVars>>

\* A write to a process that is gone is refused, and counts as delivered.
Deliver(seq, chunk) ==
    LET fresh == live /\ seq \notin accepted
    IN  /\ received' = IF fresh THEN Append(received, chunk) ELSE received
        /\ accepted' = IF fresh THEN accepted \cup {seq} ELSE accepted

WriteStdin ==
    /\ pump.stage = "write"
    /\ \/ /\ Deliver(pump.seq + 1, pump.chunk)
          /\ \/ pump' = [pump EXCEPT !.stage = "commit"] /\ UNCHANGED stdinFaults
             \/ pump' = [pump EXCEPT !.stage = "failed"] /\ StdinFault
       \/ pump' = [pump EXCEPT !.stage = "failed"] /\ StdinFault /\ UNCHANGED <<received, accepted>>
    /\ UNCHANGED <<clientVars, taken, journal, stored, active, drain, closeIO, live, closed, dropped>>

CommitWrite ==
    /\ pump.stage = "commit"
    /\ Journal([journal EXCEPT !.pend = Nil, !.seq = pump.seq + 1], Pump("read", pump.seq + 1, 0))
    /\ UNCHANGED <<clientVars, taken, active, drain, closeIO, hostVars, dropped>>

PrepareClose ==
    /\ pump.stage = "closing"
    /\ journal.pend = Nil
    /\ Journal([journal EXCEPT !.close = "closing"], [pump EXCEPT !.stage = "close"])
    /\ UNCHANGED <<clientVars, taken, active, drain, closeIO, hostVars, dropped>>

CloseStdin ==
    /\ pump.stage = "close"
    /\ \/ /\ closed' = (closed \/ live)
          /\ \/ pump' = [pump EXCEPT !.stage = "closed"] /\ UNCHANGED stdinFaults
             \/ pump' = [pump EXCEPT !.stage = "failed"] /\ StdinFault
       \/ pump' = [pump EXCEPT !.stage = "failed"] /\ StdinFault /\ UNCHANGED closed
    /\ UNCHANGED <<clientVars, taken, journal, stored, active, drain, closeIO, live, received,
                   accepted, dropped>>

\* Mutant: the close is not stored.
CommitCloseInMemory ==
    /\ pump.stage = "closed"
    /\ journal' = [journal EXCEPT !.close = "closed"]
    /\ pump' = [pump EXCEPT !.stage = "drained"]
    /\ UNCHANGED <<clientVars, taken, stored, active, drain, closeIO, hostVars, dropped, stdinFaults>>

CommitClose ==
    /\ pump.stage = "closed"
    /\ Journal([journal EXCEPT !.close = "closed"], [pump EXCEPT !.stage = "drained"])
    /\ UNCHANGED <<clientVars, taken, active, drain, closeIO, hostVars, dropped>>

\* Any other change of the task stores the journal as it is in memory.
StoreTask ==
    /\ journal # Nil /\ stored # journal
    /\ stored' = journal
    /\ UNCHANGED <<clientVars, taken, journal, pump, active, drain, closeIO, hostVars, dropped,
                   stdinFaults>>

-----------------------------------------------------------------------------
(* Crash and rehydration.                                                    *)

StdinCrash ==
    /\ journal # Nil /\ StdinFault
    /\ journal' = Nil
    /\ pump' = Pump("none", 0, 0)
    /\ drain' = FALSE
    /\ closeIO' = IF closeIO = "wait" THEN "error" ELSE closeIO
    /\ dropped' = IF pump.stage = "prepare" THEN dropped \cup {pump.chunk} ELSE dropped
    /\ UNCHANGED <<clientVars, taken, stored, active, hostVars>>

\* A process known to have exited gets no pump; a closed stdin one that is done.
StdinRestore ==
    /\ journal = Nil
    /\ journal' = stored
    /\ pump' = Pump(CASE ~live -> "none"
                      [] live /\ stored.close = "closed" -> "drained"
                      [] OTHER -> "wait", stored.seq, 0)
    /\ active' = TRUE
    /\ UNCHANGED <<clientVars, taken, stored, drain, closeIO, hostVars, dropped, stdinFaults>>

PumpStep ==
    \/ StartPump \/ ReadFifo \/ PrepareWrite \/ WriteStdin \/ CommitWrite
    \/ PrepareClose \/ CloseStdin \/ CommitClose

StdinNext ==
    \/ WriteFifo \/ CloseFifo \/ CloseIO \/ CloseIOReturns \/ Activate \/ TargetExits
    \/ PumpStep \/ StoreTask \/ StdinCrash \/ StdinRestore

StdinFairness == WF_stdinVars(PumpStep) /\ WF_stdinVars(CloseIOReturns)

StdinSpec == StdinInit /\ [][StdinNext]_stdinVars /\ StdinFairness
-----------------------------------------------------------------------------
(* Properties.                                                               *)

\* The process reads the client's chunks in order, none twice, and misses only
\* chunks that were read from the FIFO but not yet stored when the store
\* failed or the shim crashed.
InputIsOrdered ==
    /\ \A i \in 1 .. Len(received) - 1 : received[i] < received[i + 1]
    /\ received # <<>> => 1 .. Last(received) \subseteq ToSet(received) \cup dropped

\* Stdin is closed only after all of the input: CloseIO and the end of the
\* FIFO never overtake a write.
CloseIsLast == closed => 1 .. written \subseteq ToSet(received) \cup dropped

\* A CloseIO that succeeded has closed the stdin of the process, unless the
\* process is gone, and the metadata says so for every later shim.
CloseIOIsTrue == closeIO = "ok" => (closed \/ ~live) /\ stored.close = "closed"

\* CloseIO is answered: before Start, with input in the FIFO, with a write
\* pending, or after a failure.
CloseIOIsAnswered == closeIO = "wait" ~> closeIO # "wait"
=============================================================================
