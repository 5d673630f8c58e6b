---------------------------- MODULE ShimIOProofs -----------------------------
(* Proofs about the stdin pump and the output pump, for any number of chunks *)
(* and frames and any faults.                                                *)
EXTENDS ShimStdin, ShimOutput, TLAPS


-----------------------------------------------------------------------------
(* The stdin pump.                                                           *)

Stages == {"none", "wait", "read", "prepare", "write", "commit", "closing", "close", "closed",
           "drained", "failed"}

StdinTypes ==
    /\ written \in Nat /\ taken \in Nat
    /\ journal \in Journals \cup {Nil}
    /\ stored \in Journals
    /\ pump \in [stage : Stages, seq : Nat, chunk : Nat]
    /\ received \in Seq(Nat)
    /\ accepted \subseteq Nat

\* Chunk n is with the process, or was lost before it was stored.
Known(n) == n \in ToSet(received) \/ n \in dropped

\* What a journal, in memory or in the metadata, says of the host and the
\* client: a sequence the host has decided is completed or is the pending one;
\* every chunk read is accounted for; a close is begun at the end of input.
Sound(j) ==
    /\ \A a \in accepted : a <= j.seq + 1
    /\ j.pend # Nil => j.pend = taken /\ j.close = "open"
    /\ j.seq + 1 \in accepted => j.pend # Nil /\ Known(j.pend)
    /\ j.seq + 1 \notin accepted /\ j.pend # Nil =>
          \A i \in 1 .. Len(received) : received[i] < j.pend
    /\ live => \A n \in 1 .. taken :
          Known(n) \/ n = j.pend \/ (pump.stage = "prepare" /\ n = pump.chunk)
    /\ j.close # "open" => finished /\ taken = written
    /\ j.close = "closed" => closed \/ ~live

\* Where the pump is and what it has in hand agree with the journal.
PumpAt(j) ==
    /\ j = stored /\ pump.seq = j.seq
    /\ pump.stage = "wait" => j.close # "closed"
    /\ pump.stage \in {"read", "closing"} => j.pend = Nil /\ j.close = "open"
    /\ pump.stage = "prepare" =>
          /\ j.pend = Nil /\ j.close = "open" /\ pump.chunk = taken
          /\ \A i \in 1 .. Len(received) : received[i] < taken
    /\ pump.stage \in {"write", "commit"} => j.pend = pump.chunk
    /\ pump.stage = "commit" /\ live => pump.seq + 1 \in accepted
    /\ pump.stage \in {"closing", "close"} => finished /\ taken = written
    /\ pump.stage \in {"close", "closed"} => j.close = "closing"
    /\ pump.stage = "closed" => closed \/ ~live
    /\ pump.stage = "drained" => j.close = "closed"

Working == Stages \ {"none", "failed"}

Pumping ==
    /\ journal = Nil => pump.stage = "none"
    /\ pump.stage \in Working => PumpAt(journal)
    /\ pump.stage = "failed" => journal.close # "closed"

\* What is read is in order and within what was taken; the end of input is final.
Input ==
    /\ \A i \in 1 .. Len(received) : received[i] <= taken
    /\ drain \/ ~writer => finished
    /\ InputIsOrdered

Closed ==
    /\ closed => finished /\ CloseIsLast
    /\ closeIO = "ok" => /\ closed \/ ~live
                         /\ stored.close = "closed"
                         /\ journal # Nil => journal.close = "closed"

StdinInv ==
    /\ StdinTypes
    /\ Sound(stored)
    /\ journal # Nil => Sound(journal)
    /\ Pumping
    /\ Input
    /\ Closed

-----------------------------------------------------------------------------
(* Sequences.                                                                *)

\* A sequence of numbers extended by one.
LEMMA AppendFacts ==
    ASSUME NEW s \in Seq(Nat), NEW e \in Nat
    PROVE  /\ Append(s, e) \in Seq(Nat)
           /\ Len(Append(s, e)) = Len(s) + 1
           /\ Last(Append(s, e)) = e
           /\ Append(s, e) # <<>>
           /\ \A i \in 1 .. Len(s) : Append(s, e)[i] = s[i]
           /\ Append(s, e)[Len(s) + 1] = e
           /\ ToSet(Append(s, e)) = ToSet(s) \cup {e}
<1>1. /\ Append(s, e) \in Seq(Nat)
      /\ Len(Append(s, e)) = Len(s) + 1
      /\ \A i \in 1 .. Len(s) : Append(s, e)[i] = s[i]
      /\ Append(s, e)[Len(s) + 1] = e
      /\ Len(s) \in Nat
  OBVIOUS
<1>2. Last(Append(s, e)) = e /\ Append(s, e) # <<>>
  BY <1>1 DEF Last
<1>3. DOMAIN s = 1 .. Len(s) /\ DOMAIN Append(s, e) = 1 .. Len(s) + 1
  BY <1>1
<1>4. ToSet(Append(s, e)) = ToSet(s) \cup {e}
  BY <1>1, <1>3 DEF ToSet
<1> QED BY Zenon, <1>1, <1>2, <1>4

-----------------------------------------------------------------------------
(* The client, Start and the process.                                        *)

\* The client writes a chunk.
LEMMA WriteFifoStep == ASSUME StdinInv, WriteFifo PROVE StdinInv'
<1>1. /\ ~finished /\ written' = written + 1
      /\ UNCHANGED <<finished, writer, taken, journal, stored, pump, drain, closeIO, live, received,
                     accepted, closed, dropped>>
  BY Zenon DEF WriteFifo, hostVars
<1>2. StdinTypes' /\ Sound(stored)' /\ (journal # Nil => Sound(journal))'
  BY <1>1 DEF StdinInv, StdinTypes, Sound, Known
<1>3. Pumping'
  BY Zenon, <1>1 DEF StdinInv, Pumping, PumpAt
<1>4. Input' /\ Closed'
  BY Zenon, <1>1 DEF StdinInv, Input, Closed, InputIsOrdered, CloseIsLast
<1> QED BY Zenon, <1>2, <1>3, <1>4 DEF StdinInv

\* The client closes the FIFO.
LEMMA CloseFifoStep == ASSUME StdinInv, CloseFifo PROVE StdinInv'
<1>1. /\ finished' = TRUE /\ writer' = FALSE
      /\ UNCHANGED <<written, taken, journal, stored, pump, drain, closeIO, live, received,
                     accepted, closed, dropped>>
  BY Zenon DEF CloseFifo, hostVars
<1>2. StdinTypes' /\ Sound(stored)' /\ (journal # Nil => Sound(journal))'
  BY Zenon, <1>1 DEF StdinInv, StdinTypes, Sound, Known
<1>3. Pumping'
  BY Zenon, <1>1 DEF StdinInv, Pumping, PumpAt
<1>4. Input' /\ Closed'
  BY Zenon, <1>1 DEF StdinInv, Input, Closed, InputIsOrdered, CloseIsLast
<1> QED BY Zenon, <1>2, <1>3, <1>4 DEF StdinInv

\* CloseIO asks the pump to drain, or fails.
LEMMA CloseIOStep == ASSUME StdinInv, CloseIO PROVE StdinInv'
<1>1. /\ finished' = TRUE /\ closeIO' \in {"error", "wait"}
      /\ UNCHANGED <<written, writer, taken, journal, stored, pump, live, received, accepted,
                     closed, dropped>>
  BY Zenon DEF CloseIO, hostVars
<1>2. StdinTypes' /\ Sound(stored)' /\ (journal # Nil => Sound(journal))'
  BY Zenon, <1>1 DEF StdinInv, StdinTypes, Sound, Known
<1>3. Pumping'
  BY Zenon, <1>1 DEF StdinInv, Pumping, PumpAt
<1>4. Input' /\ Closed'
  BY Zenon, <1>1 DEF StdinInv, Input, Closed, InputIsOrdered, CloseIsLast
<1> QED BY Zenon, <1>2, <1>3, <1>4 DEF StdinInv

\* CloseIO answers once the pump has drained, or fails.
LEMMA CloseIOReturnsStep == ASSUME StdinInv, CloseIOReturns PROVE StdinInv'
<1>1. /\ closeIO' = IF pump.stage = "drained" THEN "ok" ELSE "error"
      /\ UNCHANGED <<written, finished, writer, taken, journal, stored, pump, drain, live, received,
                     accepted, closed, dropped>>
  BY Zenon DEF CloseIOReturns, hostVars, clientVars
<1>2. StdinTypes' /\ Sound(stored)' /\ (journal # Nil => Sound(journal))'
  BY Zenon, <1>1 DEF StdinInv, StdinTypes, Sound, Known
<1>3. Pumping'
  BY Zenon, <1>1 DEF StdinInv, Pumping, PumpAt
<1>4. Input'
  BY Zenon, <1>1 DEF StdinInv, Input, InputIsOrdered
<1>5. pump.stage = "drained" =>
        /\ closed \/ ~live
        /\ stored.close = "closed"
        /\ journal.close = "closed"
  BY Zenon DEF StdinInv, Pumping, PumpAt, Working, Stages, Sound
<1>6. Closed'
  BY Zenon, <1>1, <1>5 DEF StdinInv, Closed, CloseIsLast
<1> QED BY Zenon, <1>2, <1>3, <1>4, <1>6 DEF StdinInv

\* Start activates the pump.
LEMMA ActivateStep == ASSUME StdinInv, Activate PROVE StdinInv'
<1>1. UNCHANGED <<written, finished, writer, taken, journal, stored, pump, drain, closeIO, live,
                  received, accepted, closed, dropped>>
  BY Zenon DEF Activate, hostVars, clientVars
<1> QED BY <1>1 DEF StdinInv, StdinTypes, Sound, Known, Pumping, PumpAt, Input, Closed,
                    InputIsOrdered, CloseIsLast

\* The process exits.
LEMMA TargetExitsStep == ASSUME StdinInv, TargetExits PROVE StdinInv'
<1>1. /\ live' = FALSE
      /\ UNCHANGED <<written, finished, writer, taken, journal, stored, pump, drain, closeIO,
                     received, accepted, closed, dropped>>
  BY Zenon DEF TargetExits, clientVars
<1>2. StdinTypes' /\ Sound(stored)' /\ (journal # Nil => Sound(journal))'
  BY Zenon, <1>1 DEF StdinInv, StdinTypes, Sound, Known
<1>3. Pumping'
  BY Zenon, <1>1 DEF StdinInv, Pumping, PumpAt
<1>4. Input' /\ Closed'
  BY Zenon, <1>1 DEF StdinInv, Input, Closed, InputIsOrdered, CloseIsLast
<1> QED BY Zenon, <1>2, <1>3, <1>4 DEF StdinInv

\* Another store of the task writes the journal as it is in memory.
LEMMA StoreTaskStep == ASSUME StdinInv, StoreTask PROVE StdinInv'
<1>1. /\ journal # Nil /\ stored' = journal
      /\ UNCHANGED <<written, finished, writer, taken, journal, pump, drain, closeIO, live,
                     received, accepted, closed, dropped>>
  BY Zenon DEF StoreTask, hostVars, clientVars
<1>2. StdinTypes' /\ Sound(stored)' /\ (journal # Nil => Sound(journal))'
  BY Zenon, <1>1 DEF StdinInv, StdinTypes, Sound, Known
<1>3. Pumping'
  BY Zenon, <1>1 DEF StdinInv, Pumping, PumpAt
<1>4. Input' /\ Closed'
  BY Zenon, <1>1 DEF StdinInv, Input, Closed, InputIsOrdered, CloseIsLast
<1> QED BY Zenon, <1>2, <1>3, <1>4 DEF StdinInv

-----------------------------------------------------------------------------
(* The pump.                                                                 *)

\* A pump at work has the metadata's journal.
LEMMA AtWork ==
    ASSUME StdinInv, pump.stage \in Working
    PROVE  /\ journal \in Journals /\ journal = stored /\ journal # Nil
           /\ Sound(journal) /\ PumpAt(journal)
<1>1. journal # Nil
  BY Zenon DEF StdinInv, Pumping, Working
<1> QED BY Zenon, <1>1 DEF StdinInv, StdinTypes, Pumping, PumpAt

\* The pump resumes the pending write or the close, or goes on to read.
LEMMA StartPumpStep == ASSUME StdinInv, StartPump PROVE StdinInv'
<1>1. /\ pump.stage = "wait"
      /\ pump' = IF journal.close = "closing" THEN [pump EXCEPT !.stage = "close"]
                 ELSE IF journal.pend # Nil THEN Pump("write", journal.seq, journal.pend)
                 ELSE [pump EXCEPT !.stage = "read"]
      /\ UNCHANGED <<written, finished, writer, taken, journal, stored, drain, closeIO, live,
                     received, accepted, closed, dropped>>
  BY Zenon DEF StartPump, hostVars, clientVars
<1>2. /\ journal \in Journals /\ journal = stored /\ journal # Nil
      /\ Sound(journal) /\ PumpAt(journal)
  BY Zenon, <1>1, AtWork DEF Working, Stages
<1>3. /\ pump' \in [stage : Stages, seq : Nat, chunk : Nat]
      /\ pump'.stage \in {"close", "write", "read"} /\ pump'.seq = journal.seq
      /\ pump'.stage = "close" <=> journal.close = "closing"
      /\ pump'.stage = "write" => journal.pend # Nil /\ pump'.chunk = journal.pend
      /\ pump'.stage = "read" => journal.pend = Nil
  BY Zenon, <1>1, <1>2 DEF Pump, StdinInv, StdinTypes, PumpAt, Stages, Journals
<1>4. StdinTypes' /\ Sound(stored)' /\ (journal # Nil => Sound(journal))'
  BY Zenon, <1>1, <1>2, <1>3 DEF StdinInv, StdinTypes, Sound, Known
<1>5. PumpAt(journal)'
  BY Zenon, <1>1, <1>2, <1>3 DEF PumpAt, Sound, Journals
<1>6. Pumping'
  BY Zenon, <1>1, <1>2, <1>3, <1>5 DEF Pumping
<1>7. Input' /\ Closed'
  BY Zenon, <1>1 DEF StdinInv, Input, Closed, InputIsOrdered, CloseIsLast
<1> QED BY Zenon, <1>4, <1>6, <1>7 DEF StdinInv

\* The pump reads a chunk, the end of input, or fails.
LEMMA ReadFifoStep == ASSUME StdinInv, ReadFifo PROVE StdinInv'
<1>1. /\ pump.stage = "read"
      /\ UNCHANGED <<written, finished, writer, journal, stored, drain, closeIO, live, received,
                     accepted, closed, dropped>>
  BY Zenon DEF ReadFifo, hostVars, clientVars
<1>2. /\ journal \in Journals /\ journal = stored /\ journal # Nil
      /\ Sound(journal) /\ PumpAt(journal)
  BY Zenon, <1>1, AtWork DEF Working, Stages
<1>3. CASE InputEnds
  <2>1. pump' = [pump EXCEPT !.stage = "closing"] /\ taken' = taken
    BY Zenon, <1>3 DEF ReadFifo
  <2>2. pump' \in [stage : Stages, seq : Nat, chunk : Nat] /\ pump'.stage = "closing"
        /\ pump'.seq = journal.seq
    BY Zenon, <1>2, <2>1 DEF StdinInv, StdinTypes, PumpAt, Stages
  <2>3. finished /\ taken = written
    BY Zenon, <1>3 DEF InputEnds, StdinInv, Input
  <2>4. StdinTypes' /\ Sound(stored)' /\ (journal # Nil => Sound(journal))'
    BY Zenon, <1>1, <1>2, <2>1, <2>2 DEF StdinInv, StdinTypes, Sound, Known
  <2>5. Pumping'
    BY Zenon, <1>1, <1>2, <2>1, <2>2, <2>3 DEF PumpAt, Pumping
  <2>6. Input' /\ Closed'
    BY Zenon, <1>1, <2>1 DEF StdinInv, Input, Closed, InputIsOrdered, CloseIsLast
  <2> QED BY Zenon, <2>4, <2>5, <2>6 DEF StdinInv
<1>4. CASE ~InputEnds
  <2>1. /\ pump' = Pump("prepare", pump.seq, taken + 1)
        /\ taken < written /\ taken' = taken + 1 /\ taken \in Nat /\ written \in Nat
    BY Zenon, <1>4 DEF ReadFifo, StdinInv, StdinTypes
  <2>2. pump' \in [stage : Stages, seq : Nat, chunk : Nat] /\ pump'.stage = "prepare"
        /\ pump'.seq = journal.seq /\ pump'.chunk = taken + 1
    BY <1>2, <2>1 DEF Pump, StdinInv, StdinTypes, PumpAt, Stages
  <2>3. journal.pend = Nil /\ journal.close = "open"
    BY Zenon, <1>1, <1>2 DEF PumpAt
  <2>4. StdinTypes'
    BY Zenon, <1>1, <2>1, <2>2 DEF StdinInv, StdinTypes
  <2>5. Sound(stored)' /\ (journal # Nil => Sound(journal))'
    BY SMTT(40), <1>1, <1>2, <2>1, <2>2, <2>3 DEF Sound, Known, Journals
  <2>6. \A i \in 1 .. Len(received) : received[i] <= taken /\ received[i] \in Nat
    BY DEF StdinInv, Input, StdinTypes
  <2>7. Pumping'
    BY SMTT(40), <1>1, <1>2, <2>1, <2>2, <2>3, <2>6 DEF PumpAt, Pumping
  <2>8. Input'
    BY SMTT(40), <1>1, <2>1, <2>6 DEF StdinInv, Input, InputIsOrdered
  <2>9. Closed'
    BY Zenon, <1>1 DEF StdinInv, Closed, CloseIsLast
  <2> QED BY Zenon, <2>4, <2>5, <2>7, <2>8, <2>9 DEF StdinInv
<1> QED BY Zenon, <1>3, <1>4

\* A chunk gets its sequence, stored before it is sent.
LEMMA PrepareWriteStep == ASSUME StdinInv, PrepareWrite PROVE StdinInv'
<1>1. /\ pump.stage = "prepare"
      /\ dropped' = IF pump'.stage = "failed" THEN dropped \cup {pump.chunk} ELSE dropped
      /\ UNCHANGED <<written, finished, writer, taken, drain, closeIO, live, received, accepted,
                     closed>>
  BY Zenon DEF PrepareWrite, hostVars, clientVars
<1>2. /\ journal \in Journals /\ journal = stored /\ journal # Nil
      /\ Sound(journal) /\ PumpAt(journal)
  BY Zenon, <1>1, AtWork DEF Working, Stages
<1>3. /\ journal.pend = Nil /\ journal.close = "open" /\ pump.chunk = taken /\ pump.seq = journal.seq
      /\ \A i \in 1 .. Len(received) : received[i] < taken
      /\ taken \in Nat
  BY Zenon, <1>1, <1>2 DEF PumpAt, StdinInv, StdinTypes
<1>4. PICK new \in Journals :
        /\ new = [journal EXCEPT !.pend = pump.chunk]
        /\ new.seq = journal.seq /\ new.pend = taken /\ new.close = "open"
  <2> DEFINE n == [journal EXCEPT !.pend = pump.chunk]
  <2>1. n \in Journals /\ n.seq = journal.seq /\ n.pend = taken /\ n.close = "open"
    BY Zenon, <1>2, <1>3 DEF Journals
  <2> QED BY ZenonT(30), <2>1
<1>5. \/ journal' = new /\ stored' = new /\ pump' = [pump EXCEPT !.stage = "write"]
      \/ /\ journal' = journal /\ stored' \in {stored, new}
         /\ pump' = [pump EXCEPT !.stage = "failed"]
  BY Zenon, <1>4 DEF PrepareWrite, Journal
<1>6. /\ pump' \in [stage : Stages, seq : Nat, chunk : Nat]
      /\ pump'.chunk = pump.chunk /\ pump'.seq = pump.seq
      /\ \/ pump'.stage = "write" /\ journal' = new /\ stored' = new /\ dropped' = dropped
         \/ /\ pump'.stage = "failed" /\ journal' = journal /\ stored' \in {journal, new}
            /\ dropped' = dropped \cup {taken}
  BY Zenon, <1>1, <1>2, <1>3, <1>5 DEF StdinInv, StdinTypes, Stages
<1>7. new # Nil /\ taken # Nil
  BY Zenon, <1>3, <1>4, NilAssumption, StdinAssumption
<1>8. StdinTypes'
  BY Zenon, <1>1, <1>2, <1>4, <1>6 DEF StdinInv, StdinTypes
<1>9. journal.seq + 1 \notin accepted
  BY Zenon, <1>2, <1>3 DEF Sound
<1>10. Sound(new)'
  <2>1. \A n : Known(n) => Known(n)'
    BY Zenon, <1>1, <1>6 DEF Known
  <2>2. live' => \A n \in 1 .. taken' : Known(n)' \/ n = new.pend
    BY SMTT(40), <1>1, <1>2, <1>3, <1>4, <2>1, NilAssumption DEF Sound
  <2>3. /\ \A a \in accepted' : a <= new.seq + 1
        /\ new.seq + 1 \notin accepted'
        /\ \A i \in 1 .. Len(received') : received'[i] < new.pend
    BY SMTT(40), <1>1, <1>2, <1>3, <1>4, <1>9 DEF Sound
  <2> QED BY Zenon, <1>1, <1>4, <2>2, <2>3 DEF Sound
<1>11. pump'.stage = "failed" => Sound(journal)'
  BY Zenon, <1>1, <1>2, <1>3, <1>6, <1>9 DEF Sound, Known
<1>12. Sound(stored)' /\ (journal # Nil => Sound(journal))'
  <2>1. CASE journal' = new /\ stored' = new
    BY Zenon, <1>10, <2>1 DEF Sound, Known
  <2>2. CASE pump'.stage = "failed" /\ journal' = journal /\ stored' = new
    BY Zenon, <1>10, <1>11, <2>2 DEF Sound, Known
  <2>3. CASE pump'.stage = "failed" /\ journal' = journal /\ stored' = journal
    BY Zenon, <1>11, <2>3 DEF Sound, Known
  <2> QED BY Zenon, <1>6, <2>1, <2>2, <2>3
<1>13. Pumping'
  BY ZenonT(40), <1>1, <1>2, <1>3, <1>4, <1>6, <1>7 DEF PumpAt, Pumping, Working
<1>14. Input' /\ Closed'
  <2>1. Input'
    BY Zenon, <1>1, <1>6 DEF StdinInv, Input, InputIsOrdered
  <2>2. closeIO # "ok"
    BY Zenon, <1>2, <1>3 DEF StdinInv, Closed
  <2> QED BY Zenon, <1>1, <1>6, <2>1, <2>2 DEF StdinInv, Closed, CloseIsLast
<1> QED BY Zenon, <1>8, <1>12, <1>13, <1>14 DEF StdinInv

\* A write is delivered in order: its chunk is the one the journal has pending,
\* behind everything received, and all before it is accounted for.
LEMMA DeliverStep ==
    ASSUME StdinInv, pump.stage = "write", Deliver(pump.seq + 1, pump.chunk),
           UNCHANGED <<written, finished, writer, taken, journal, stored, drain, closeIO, live,
                       closed, dropped>>,
           pump' \in [stage : Stages, seq : Nat, chunk : Nat],
           pump'.stage \in {"commit", "failed"}, pump'.seq = pump.seq, pump'.chunk = pump.chunk
    PROVE  StdinInv'
<1>1. /\ journal \in Journals /\ journal = stored /\ journal # Nil
      /\ Sound(journal) /\ PumpAt(journal)
  BY Zenon, AtWork DEF Working, Stages
<1>2. /\ pump.seq = journal.seq /\ journal.seq \in Nat /\ journal.pend = pump.chunk
      /\ pump.chunk \in Nat /\ pump.chunk # Nil
      /\ journal.pend = taken /\ journal.close = "open"
  BY Zenon, <1>1, NilAssumption DEF PumpAt, StdinInv, StdinTypes, Journals, Sound
<1>3. CASE live /\ pump.seq + 1 \notin accepted
  <2>1. received' = Append(received, taken) /\ accepted' = accepted \cup {journal.seq + 1}
    BY Zenon, <1>2, <1>3 DEF Deliver
  <2>2. received \in Seq(Nat) /\ taken \in Nat /\ Len(received) \in Nat
    BY DEF StdinInv, StdinTypes
  <2>3. /\ received' \in Seq(Nat) /\ Len(received') = Len(received) + 1
        /\ Last(received') = taken
        /\ \A i \in 1 .. Len(received) : received'[i] = received[i]
        /\ received'[Len(received) + 1] = taken
        /\ ToSet(received') = ToSet(received) \cup {taken}
    BY SMTT(40), <2>1, <2>2, AppendFacts
  <2>4. /\ \A n : Known(n) => Known(n)'
        /\ Known(taken)'
    BY Zenon, <2>3 DEF Known
  <2>5. \A n \in 1 .. taken : Known(n)'
    BY Zenon, <1>1, <1>2, <1>3, <2>4 DEF Sound
  <2>6. StdinTypes'
    <3>1. accepted \subseteq Nat /\ journal.seq + 1 \in Nat
      BY <1>2 DEF StdinInv, StdinTypes
    <3>2. accepted' \subseteq Nat
      BY ZenonT(30), <2>1, <3>1
    <3> QED BY Zenon, <2>3, <3>2 DEF StdinInv, StdinTypes
  <2>7. Sound(journal)'
    BY SMTT(40), <1>1, <1>2, <1>3, <2>1, <2>4, <2>5 DEF Sound
  <2>8. Sound(stored)' /\ (journal # Nil => Sound(journal))'
    BY Zenon, <1>1, <2>7 DEF Sound, Known
  <2>9. Pumping'
    BY Zenon, <1>1, <1>2, <2>1 DEF PumpAt, Pumping
  <2>10. Input'
    <3>1. \A i \in 1 .. Len(received) : received[i] < taken
      BY Zenon, <1>1, <1>2, <1>3 DEF Sound
    <3>2. \A i \in 1 .. Len(received') : received'[i] <= taken'
      <4> SUFFICES ASSUME NEW i \in 1 .. Len(received) + 1 PROVE received'[i] <= taken
        BY Zenon, <2>3
      <4>1. CASE i = Len(received) + 1
        BY SMTT(40), <2>2, <2>3, <4>1
      <4>2. CASE i \in 1 .. Len(received)
        <5>1. received[i] \in Nat /\ received[i] < taken
          BY SMTT(40), <2>2, <3>1, <4>2
        <5> QED BY SMTT(40), <2>2, <2>3, <4>2, <5>1
      <4> QED BY SMTT(40), <2>2, <4>1, <4>2
    <3>3. \A i \in 1 .. Len(received') - 1 : received'[i] < received'[i + 1]
      <4> SUFFICES ASSUME NEW i \in 1 .. Len(received) PROVE received'[i] < received'[i + 1]
        BY <2>2, <2>3
      <4>1. CASE i = Len(received)
        BY Zenon, <2>3, <3>1, <4>1
      <4>2. CASE i \in 1 .. Len(received) - 1
        <5>1. received[i] < received[i + 1]
          BY Zenon, <4>2 DEF StdinInv, Input, InputIsOrdered
        <5>2. i + 1 \in 1 .. Len(received)
          BY SMTT(40), <2>2, <4>2
        <5> QED BY Zenon, <2>3, <5>1, <5>2
      <4> QED BY SMTT(40), <2>2, <4>1, <4>2
    <3>4. 1 .. Last(received') \subseteq ToSet(received') \cup dropped'
      BY Zenon, <2>3, <2>5 DEF Known
    <3> QED BY Zenon, <3>2, <3>3, <3>4 DEF StdinInv, Input, InputIsOrdered
  <2>11. Closed'
    BY Zenon, <1>1, <1>2, <2>3 DEF StdinInv, Closed, CloseIsLast
  <2> QED BY Zenon, <2>6, <2>8, <2>9, <2>10, <2>11 DEF StdinInv
<1>4. CASE ~(live /\ pump.seq + 1 \notin accepted)
  <2>1. received' = received /\ accepted' = accepted
    BY Zenon, <1>4 DEF Deliver
  <2>2. StdinTypes' /\ Sound(stored)' /\ (journal # Nil => Sound(journal))'
    BY Zenon, <1>1, <2>1 DEF StdinInv, StdinTypes, Sound, Known
  <2>3. Pumping'
    BY Zenon, <1>1, <1>2, <1>4, <2>1 DEF PumpAt, Pumping
  <2>4. Input' /\ Closed'
    BY Zenon, <2>1 DEF StdinInv, Input, Closed, InputIsOrdered, CloseIsLast
  <2> QED BY Zenon, <2>2, <2>3, <2>4 DEF StdinInv
<1> QED BY Zenon, <1>3, <1>4

\* A pump that stops changes nothing else.
LEMMA StdinStopStep ==
    ASSUME StdinInv, pump.stage \in Working \ {"prepare", "drained"},
           pump' = [pump EXCEPT !.stage = "failed"],
           UNCHANGED <<written, finished, writer, taken, journal, stored, drain, closeIO, live,
                       received, accepted, closed, dropped>>
    PROVE  StdinInv'
<1>1. /\ journal \in Journals /\ journal = stored /\ journal # Nil
      /\ Sound(journal) /\ PumpAt(journal)
  BY Zenon, AtWork
<1>2. journal.close # "closed"
  BY Zenon, <1>1, NilAssumption DEF PumpAt, Working, Stages, Sound, Journals, StdinInv, StdinTypes
<1>3. pump' \in [stage : Stages, seq : Nat, chunk : Nat] /\ pump'.stage = "failed"
  BY Zenon DEF StdinInv, StdinTypes, Stages
<1>4. StdinTypes' /\ Sound(stored)' /\ (journal # Nil => Sound(journal))'
  BY Zenon, <1>1, <1>3 DEF StdinInv, StdinTypes, Sound, Known
<1>5. Pumping'
  BY Zenon, <1>1, <1>2, <1>3 DEF Pumping, Working
<1>6. Input' /\ Closed'
  BY Zenon DEF StdinInv, Input, Closed, InputIsOrdered, CloseIsLast
<1> QED BY Zenon, <1>4, <1>5, <1>6 DEF StdinInv

\* The driver writes the chunk, loses the answer, or fails.
LEMMA WriteStdinStep == ASSUME StdinInv, WriteStdin PROVE StdinInv'
<1>1. /\ pump.stage = "write"
      /\ UNCHANGED <<written, finished, writer, taken, journal, stored, drain, closeIO, live,
                     closed, dropped>>
  BY Zenon DEF WriteStdin, clientVars
<1>2. CASE /\ Deliver(pump.seq + 1, pump.chunk)
           /\ \/ pump' = [pump EXCEPT !.stage = "commit"]
              \/ pump' = [pump EXCEPT !.stage = "failed"]
  <2>1. /\ pump' \in [stage : Stages, seq : Nat, chunk : Nat]
        /\ pump'.stage \in {"commit", "failed"} /\ pump'.seq = pump.seq /\ pump'.chunk = pump.chunk
    BY Zenon, <1>2 DEF StdinInv, StdinTypes, Stages
  <2> QED BY Zenon, <1>1, <1>2, <2>1, DeliverStep
<1>3. CASE pump' = [pump EXCEPT !.stage = "failed"] /\ UNCHANGED <<received, accepted>>
  <2>1. pump.stage \in Working \ {"prepare", "drained"}
    BY Zenon, <1>1 DEF Working, Stages
  <2> QED BY Zenon, <1>1, <1>3, <2>1, StdinStopStep
<1> QED BY Zenon, <1>2, <1>3 DEF WriteStdin

\* The driver closes the input of the process.
LEMMA CloseStdinStep == ASSUME StdinInv, CloseStdin PROVE StdinInv'
<1>1. /\ pump.stage = "close"
      /\ UNCHANGED <<written, finished, writer, taken, journal, stored, drain, closeIO, live,
                     received, accepted, dropped>>
  BY Zenon DEF CloseStdin, clientVars
<1>2. CASE /\ closed' = (closed \/ live)
           /\ \/ pump' = [pump EXCEPT !.stage = "closed"]
              \/ pump' = [pump EXCEPT !.stage = "failed"]
  <2>1. /\ pump' \in [stage : Stages, seq : Nat, chunk : Nat]
        /\ pump'.stage \in {"closed", "failed"} /\ pump'.seq = pump.seq
    BY Zenon, <1>2 DEF StdinInv, StdinTypes, Stages
  <2>2. /\ journal \in Journals /\ journal = stored /\ journal # Nil
        /\ Sound(journal) /\ PumpAt(journal)
    BY Zenon, <1>1, AtWork DEF Working, Stages
  <2>3. /\ journal.close = "closing" /\ journal.pend = Nil /\ finished /\ taken = written
    BY Zenon, <1>1, <2>2 DEF PumpAt, Sound
  <2>4. closed' <=> closed \/ live
    BY ZenonT(40), <1>2
  <2>5. StdinTypes' /\ Sound(stored)' /\ (journal # Nil => Sound(journal))'
    BY Zenon, <1>1, <2>1, <2>2, <2>4 DEF StdinInv, StdinTypes, Sound, Known
  <2>6. Pumping'
    BY Zenon, <1>1, <2>1, <2>2, <2>3, <2>4 DEF PumpAt, Pumping, Working
  <2>7. Input'
    BY Zenon, <1>1 DEF StdinInv, Input, InputIsOrdered
  <2>8. live => 1 .. written \subseteq ToSet(received) \cup dropped
    BY SMTT(40), <1>1, <2>2, <2>3, NilAssumption DEF Sound, Known, StdinInv, StdinTypes
  <2>9. Closed'
    BY Zenon, <1>1, <2>2, <2>3, <2>4, <2>8 DEF StdinInv, Closed, CloseIsLast
  <2> QED BY Zenon, <2>5, <2>6, <2>7, <2>9 DEF StdinInv
<1>3. CASE pump' = [pump EXCEPT !.stage = "failed"] /\ closed' = closed
  <2>1. pump.stage \in Working \ {"prepare", "drained"}
    BY Zenon, <1>1 DEF Working, Stages
  <2> QED BY Zenon, <1>1, <1>3, <2>1, StdinStopStep
<1> QED BY Zenon, <1>2, <1>3 DEF CloseStdin

\* A written chunk is committed in memory and stored.
LEMMA CommitWriteStep == ASSUME StdinInv, CommitWrite PROVE StdinInv'
<1>1. /\ pump.stage = "commit"
      /\ UNCHANGED <<written, finished, writer, taken, drain, closeIO, live, received, accepted,
                     closed, dropped>>
  BY Zenon DEF CommitWrite, hostVars, clientVars
<1>2. /\ journal \in Journals /\ journal = stored /\ journal # Nil
      /\ Sound(journal) /\ PumpAt(journal)
  BY Zenon, <1>1, AtWork DEF Working, Stages
<1>3. /\ pump.seq = journal.seq /\ journal.seq \in Nat
      /\ journal.pend = pump.chunk /\ pump.chunk \in Nat
      /\ live => pump.seq + 1 \in accepted
  BY Zenon, <1>1, <1>2 DEF PumpAt, StdinInv, StdinTypes, Journals
<1>4. journal.pend = taken /\ journal.close = "open" /\ (live => Known(taken))
  BY Zenon, <1>2, <1>3, NilAssumption DEF Sound
<1>5. PICK new \in Journals :
        /\ new = [journal EXCEPT !.pend = Nil, !.seq = pump.seq + 1]
        /\ new.seq = journal.seq + 1 /\ new.pend = Nil /\ new.close = "open"
  <2> DEFINE n == [journal EXCEPT !.pend = Nil, !.seq = pump.seq + 1]
  <2>1. pump.seq + 1 \in Nat /\ pump.seq + 1 = journal.seq + 1
    BY <1>3
  <2>2. n \in Journals /\ n.seq = pump.seq + 1 /\ n.pend = Nil /\ n.close = journal.close
    BY Zenon, <1>2, <2>1 DEF Journals
  <2> QED BY Zenon, <1>4, <2>1, <2>2
<1>6. \/ journal' = new /\ stored' = new /\ pump' = Pump("read", pump.seq + 1, 0)
      \/ /\ journal' = journal /\ stored' \in {stored, new}
         /\ pump' = [pump EXCEPT !.stage = "failed"]
  BY Zenon, <1>5 DEF CommitWrite, Journal
<1>7. /\ pump' \in [stage : Stages, seq : Nat, chunk : Nat]
      /\ \/ pump'.stage = "read" /\ pump'.seq = new.seq /\ journal' = new /\ stored' = new
         \/ pump'.stage = "failed" /\ journal' = journal /\ stored' \in {journal, new}
  BY SMTT(40), <1>2, <1>3, <1>5, <1>6 DEF Pump, StdinInv, StdinTypes, Stages
<1>8. new # Nil
  BY Zenon, <1>5, StdinAssumption
<1>9. StdinTypes'
  BY Zenon, <1>1, <1>2, <1>5, <1>7 DEF StdinInv, StdinTypes
<1>10. Sound(new)'
  <2>1. \A n : Known(n) => Known(n)'
    BY Zenon, <1>1 DEF Known
  <2>2. live => \A n \in 1 .. taken : Known(n)
    BY Zenon, <1>1, <1>2, <1>4 DEF Sound
  <2>3. \A a \in accepted : a <= journal.seq + 1 /\ a \in Nat
    BY Zenon, <1>2 DEF Sound, StdinInv, StdinTypes
  <2>4. new.seq + 1 \notin accepted /\ \A a \in accepted : a <= new.seq + 1
    BY SMTT(40), <1>3, <1>5, <2>3
  <2> QED BY Zenon, <1>1, <1>5, <2>1, <2>2, <2>4 DEF Sound
<1>11. journal' = journal => Sound(journal)'
  BY Zenon, <1>1, <1>2, <1>7 DEF Sound, Known
<1>12. Sound(stored)' /\ (journal # Nil => Sound(journal))'
  BY Zenon, <1>7, <1>10, <1>11 DEF Sound, Known
<1>13. Pumping'
  BY ZenonT(40), <1>1, <1>2, <1>4, <1>5, <1>7, <1>8 DEF PumpAt, Pumping, Working
<1>14. Input'
  BY Zenon, <1>1 DEF StdinInv, Input, InputIsOrdered
<1>15. closeIO # "ok"
  BY Zenon, <1>2, <1>4 DEF StdinInv, Closed
<1>16. Closed'
  BY Zenon, <1>1, <1>15 DEF StdinInv, Closed, CloseIsLast
<1> QED BY Zenon, <1>9, <1>12, <1>13, <1>14, <1>16 DEF StdinInv

\* Both steps of the close store a journal with another close state.
LEMMA CloseJournalStep ==
    ASSUME StdinInv, NEW state \in {"closing", "closed"}, NEW stage \in {"close", "drained"},
           pump.stage \in {"closing", "closed"},
           Journal([journal EXCEPT !.close = state], [pump EXCEPT !.stage = stage]),
           \/ pump.stage = "closing" /\ state = "closing" /\ stage = "close"
           \/ pump.stage = "closed" /\ state = "closed" /\ stage = "drained",
           UNCHANGED <<written, finished, writer, taken, drain, closeIO, live, received, accepted,
                       closed, dropped>>
    PROVE  StdinInv'
<1>1. /\ journal \in Journals /\ journal = stored /\ journal # Nil
      /\ Sound(journal) /\ PumpAt(journal)
  BY Zenon, AtWork DEF Working, Stages
<1>2. /\ pump.seq = journal.seq /\ journal.pend = Nil /\ journal.close # "closed"
      /\ finished /\ taken = written
      /\ pump.stage = "closed" => closed \/ ~live
  BY Zenon, <1>1 DEF PumpAt, Sound
<1>3. PICK new \in Journals :
        /\ new = [journal EXCEPT !.close = state]
        /\ new.seq = journal.seq /\ new.pend = Nil /\ new.close = state
  <2> DEFINE n == [journal EXCEPT !.close = state]
  <2>1. n \in Journals /\ n.seq = journal.seq /\ n.pend = Nil /\ n.close = state
    BY Zenon, <1>1, <1>2 DEF Journals
  <2> QED BY Zenon, <2>1
<1>4. /\ pump' \in [stage : Stages, seq : Nat, chunk : Nat] /\ pump'.seq = pump.seq
      /\ \/ pump'.stage = stage /\ journal' = new /\ stored' = new
         \/ pump'.stage = "failed" /\ journal' = journal /\ stored' \in {journal, new}
  BY Zenon, <1>1, <1>3 DEF Journal, StdinInv, StdinTypes, Stages
<1>5. new # Nil
  BY Zenon, <1>3, StdinAssumption
<1>6. StdinTypes'
  BY ZenonT(40), <1>1, <1>3, <1>4 DEF StdinInv, StdinTypes
<1>7. Sound(new)' /\ (journal' = journal => Sound(journal)')
  BY SMTT(40), <1>1, <1>2, <1>3, <1>4 DEF Sound, Known
<1>8. Sound(stored)' /\ (journal # Nil => Sound(journal))'
  BY ZenonT(30), <1>4, <1>7 DEF Sound, Known
<1>9. Pumping'
  BY ZenonT(40), <1>1, <1>2, <1>3, <1>4, <1>5 DEF PumpAt, Pumping, Working
<1>10. Input'
  BY Zenon DEF StdinInv, Input, InputIsOrdered
<1>11. closeIO # "ok"
  BY Zenon, <1>1, <1>2 DEF StdinInv, Closed
<1>12. Closed'
  BY Zenon, <1>11 DEF StdinInv, Closed, CloseIsLast
<1> QED BY Zenon, <1>6, <1>8, <1>9, <1>10, <1>12 DEF StdinInv

\* The close is recorded before it is sent.
LEMMA PrepareCloseStep == ASSUME StdinInv, PrepareClose PROVE StdinInv'
<1>1. /\ pump.stage = "closing"
      /\ Journal([journal EXCEPT !.close = "closing"], [pump EXCEPT !.stage = "close"])
      /\ UNCHANGED <<written, finished, writer, taken, drain, closeIO, live, received, accepted,
                     closed, dropped>>
  BY Zenon DEF PrepareClose, hostVars, clientVars
<1> QED BY Zenon, <1>1, CloseJournalStep

\* The close is committed in memory and stored.
LEMMA CommitCloseStep == ASSUME StdinInv, CommitClose PROVE StdinInv'
<1>1. /\ pump.stage = "closed"
      /\ Journal([journal EXCEPT !.close = "closed"], [pump EXCEPT !.stage = "drained"])
      /\ UNCHANGED <<written, finished, writer, taken, drain, closeIO, live, received, accepted,
                     closed, dropped>>
  BY Zenon DEF CommitClose, hostVars, clientVars
<1> QED BY Zenon, <1>1, CloseJournalStep

-----------------------------------------------------------------------------
(* Crash and rehydration.                                                    *)

\* A crash loses the journal in memory and the chunk in hand.
LEMMA StdinCrashStep == ASSUME StdinInv, StdinCrash PROVE StdinInv'
<1>1. /\ journal' = Nil /\ pump' = Pump("none", 0, 0) /\ drain' = FALSE
      /\ closeIO' = IF closeIO = "wait" THEN "error" ELSE closeIO
      /\ dropped' = IF pump.stage = "prepare" THEN dropped \cup {pump.chunk} ELSE dropped
      /\ UNCHANGED <<written, finished, writer, taken, stored, live, received, accepted, closed>>
  BY Zenon DEF StdinCrash, hostVars, clientVars
<1>2. pump' \in [stage : Stages, seq : Nat, chunk : Nat] /\ pump'.stage = "none"
  BY Zenon, <1>1 DEF Pump, Stages
<1>3. StdinTypes' /\ Sound(stored)' /\ (journal # Nil => Sound(journal))'
  BY Zenon, <1>1, <1>2 DEF StdinInv, StdinTypes, Sound, Known
<1>4. Pumping'
  BY Zenon, <1>1, <1>2 DEF Pumping, Working
<1>5. Input' /\ Closed'
  BY Zenon, <1>1 DEF StdinInv, Input, Closed, InputIsOrdered, CloseIsLast
<1> QED BY Zenon, <1>3, <1>4, <1>5 DEF StdinInv

\* Rehydration loads the stored journal and starts the pump.
LEMMA StdinRestoreStep == ASSUME StdinInv, StdinRestore PROVE StdinInv'
<1>1. /\ journal = Nil /\ journal' = stored
      /\ pump' = Pump(CASE ~live -> "none"
                        [] stored.close = "closed" -> "drained"
                        [] OTHER -> "wait", stored.seq, 0)
      /\ UNCHANGED <<written, finished, writer, taken, stored, drain, closeIO, live, received,
                     accepted, closed, dropped>>
  BY DEF StdinRestore, hostVars, clientVars
<1>2. stored \in Journals /\ stored # Nil /\ stored.seq \in Nat
  BY Zenon, StdinAssumption DEF StdinInv, StdinTypes, Journals
<1>3. /\ pump' \in [stage : Stages, seq : Nat, chunk : Nat] /\ pump'.seq = stored.seq
      /\ \/ pump'.stage = "none"
         \/ pump'.stage = "drained" /\ stored.close = "closed"
         \/ pump'.stage = "wait" /\ stored.close # "closed"
  <2>1. CASE ~live
    BY SMTT(40), <1>1, <1>2, <2>1 DEF Pump, Stages
  <2>2. CASE live /\ stored.close = "closed"
    BY Zenon, <1>1, <1>2, <2>2 DEF Pump, Stages
  <2>3. CASE live /\ stored.close # "closed"
    BY Zenon, <1>1, <1>2, <2>3 DEF Pump, Stages
  <2> QED BY Zenon, <2>1, <2>2, <2>3
<1>4. pump.stage = "none"
  BY Zenon, <1>1 DEF StdinInv, Pumping
<1>5. StdinTypes'
  BY Zenon, <1>1, <1>2, <1>3 DEF StdinInv, StdinTypes
<1>6. Sound(stored)'
  BY Zenon, <1>1, <1>3, <1>4 DEF StdinInv, Sound, Known
<1>7. (journal # Nil => Sound(journal))'
  BY Zenon, <1>1, <1>6 DEF Sound, Known
<1>8. Pumping'
  BY Zenon, <1>1, <1>2, <1>3 DEF Pumping, PumpAt, Working
<1>9. Input' /\ Closed'
  BY Zenon, <1>1 DEF StdinInv, Input, Closed, InputIsOrdered, CloseIsLast
<1> QED BY Zenon, <1>5, <1>6, <1>7, <1>8, <1>9 DEF StdinInv

-----------------------------------------------------------------------------
(* The theorems.                                                             *)

\* A new task satisfies the invariant of the stdin pump.
LEMMA StdinInitially == StdinInit => StdinInv
<1> SUFFICES ASSUME StdinInit PROVE StdinInv
  BY Zenon
<1>1. /\ NewJournal \in Journals /\ NewJournal # Nil /\ NewJournal.seq = 0
      /\ NewJournal.pend = Nil /\ NewJournal.close = "open"
  <2>1. NewJournal \in Journals
    BY Zenon DEF NewJournal, Journals
  <2> QED BY Zenon, <2>1, StdinAssumption DEF NewJournal
<1>2. pump = Pump("wait", 0, 0) /\ pump \in [stage : Stages, seq : Nat, chunk : Nat]
      /\ pump.stage = "wait" /\ pump.seq = 0
  BY Zenon DEF StdinInit, Pump, Stages
<1>3. StdinTypes
  BY SMTT(40), <1>1, <1>2 DEF StdinInit, StdinTypes
<1>4. Sound(NewJournal)
  BY SMTT(40), <1>1, <1>2 DEF StdinInit, Sound
<1>5. Pumping
  BY Zenon, <1>1, <1>2 DEF StdinInit, Pumping, PumpAt, Working
<1>6. Input /\ Closed
  BY DEF StdinInit, Input, Closed, InputIsOrdered
<1> QED BY Zenon, <1>1, <1>3, <1>4, <1>5, <1>6 DEF StdinInit, StdinInv

\* The inductive invariant of the stdin pump: the journal in memory and the one
\* in the metadata account for every chunk read and every sequence decided.
THEOREM StdinInvHolds == StdinSpec => []StdinInv
<1>1. StdinInv /\ [StdinNext]_stdinVars => StdinInv'
  <2> SUFFICES ASSUME StdinInv, [StdinNext]_stdinVars PROVE StdinInv'
    BY Zenon, SMTT(40)
  <2>1. CASE UNCHANGED stdinVars
    BY <2>1 DEF stdinVars, StdinInv, StdinTypes, Sound, Known, Pumping, PumpAt, Input, Closed,
                InputIsOrdered, CloseIsLast
  <2>2. CASE PumpStep
    BY ZenonT(40), <2>2, StartPumpStep, ReadFifoStep, PrepareWriteStep, WriteStdinStep, CommitWriteStep,
       PrepareCloseStep, CloseStdinStep, CommitCloseStep DEF PumpStep
  <2> QED BY ZenonT(40), <2>1, <2>2, WriteFifoStep, CloseFifoStep, CloseIOStep, CloseIOReturnsStep,
             ActivateStep, TargetExitsStep, StoreTaskStep, StdinCrashStep, StdinRestoreStep
             DEF StdinNext
<1> QED BY <1>1, StdinInitially, PTL DEF StdinSpec

\* The process reads the client's chunks in order and none twice, whatever
\* stores fail, answers are lost and shims crash.
THEOREM InputIsOrderedHolds == StdinSpec => []InputIsOrdered
<1>1. StdinInv => InputIsOrdered
  BY Zenon DEF StdinInv, Input
<1> QED BY <1>1, StdinInvHolds, PTL

\* No close overtakes a write.
THEOREM CloseIsLastHolds == StdinSpec => []CloseIsLast
<1>1. StdinInv => CloseIsLast
  BY Zenon DEF StdinInv, Closed, CloseIsLast
<1> QED BY <1>1, StdinInvHolds, PTL

\* A CloseIO that succeeded is true of the process and of the metadata.
THEOREM CloseIOIsTrueHolds == StdinSpec => []CloseIOIsTrue
<1>1. StdinInv => CloseIOIsTrue
  BY Zenon DEF StdinInv, Closed, CloseIOIsTrue
<1> QED BY <1>1, StdinInvHolds, PTL

-----------------------------------------------------------------------------
(* The output pump.                                                          *)

Frames == [stream : Streams, eof : BOOLEAN]
PumpStages == {"none", "read", "write", "commit", "end", "failed"}

OutputTypes ==
    /\ log \in Seq(Frames)
    /\ committed \in 0 .. Len(log)
    /\ outPump \in [stage : PumpStages, cursor : Nat, end : Nat, done : SUBSET Streams]
    /\ delivered \in Seq(Nat)
    /\ \A n \in 1 .. Len(delivered) : delivered[n] \in 1 .. Len(log)

\* The first n deliveries hold every byte up to position k.
Reached(k, n) ==
    \A i \in 1 .. k : ~log[i].eof => \E m \in 1 .. n : delivered[m] = i

NoGap ==
    /\ \A n \in 1 .. Len(delivered) : Reached(delivered[n], n)
    /\ Reached(committed, Len(delivered))

\* A pump at work is at the stored cursor, with a frame of the log behind it;
\* what it has just written ends within that frame.
PumpIsBehind ==
    /\ outPump.stage \in {"read", "write", "commit"} => outPump.cursor = committed
    /\ outPump.stage \in {"write", "commit"} =>
          /\ outPump.end \in committed + 1 .. Len(log)
          /\ \/ outPump.end = committed + 1
             \/ \A i \in committed + 1 .. outPump.end : ~log[i].eof
    /\ outPump.stage = "commit" =>
          /\ Written \in committed + 1 .. outPump.end
          /\ Reached(Written, Len(delivered))

OutputInv == OutputTypes /\ NoGap /\ PumpIsBehind

-----------------------------------------------------------------------------
(* Sequences.                                                                *)

\* The concatenation of two sequences of numbers.
LEMMA Concatenated ==
    ASSUME NEW s \in Seq(Nat), NEW r \in Seq(Nat)
    PROVE  /\ s \o r \in Seq(Nat)
           /\ Len(s) \in Nat /\ Len(r) \in Nat /\ Len(s \o r) = Len(s) + Len(r)
           /\ \A i \in 1 .. Len(s) : (s \o r)[i] = s[i]
           /\ \A i \in 1 .. Len(r) : (s \o r)[Len(s) + i] = r[i]
<1>1. s \o r \in Seq(Nat) /\ Len(s \o r) = Len(s) + Len(r)
  OBVIOUS
<1>2. Len(s) \in Nat /\ Len(r) \in Nat
  OBVIOUS
<1>3. \A i \in 1 .. Len(s) : (s \o r)[i] = s[i]
  OBVIOUS
<1>4. \A i \in 1 .. Len(r) : (s \o r)[Len(s) + i] = r[i]
  OBVIOUS
<1> QED BY <1>1, <1>2, <1>3, <1>4, Zenon

\* A sequence extended by a run of consecutive numbers.
LEMMA RunFacts ==
    ASSUME NEW s \in Seq(Nat), NEW c \in Nat, NEW k \in Nat \ {0}, NEW t,
           t = s \o [i \in 1 .. k |-> c + i]
    PROVE  /\ t \in Seq(Nat) /\ Len(s) \in Nat /\ Len(t) = Len(s) + k
           /\ \A i \in 1 .. Len(s) : t[i] = s[i]
           /\ \A i \in 1 .. k : t[Len(s) + i] = c + i
           /\ Last(t) = c + k
<1>1. PICK r : r = [i \in 1 .. k |-> c + i]
  BY Zenon
<1>2. /\ r \in Seq(Nat) /\ s \in Seq(Nat)
      /\ Len(r) = k /\ \A i \in 1 .. k : r[i] = c + i
  BY <1>1
<1>3. /\ s \o r \in Seq(Nat)
      /\ Len(s) \in Nat /\ Len(s \o r) = Len(s) + Len(r)
      /\ \A i \in 1 .. Len(s) : (s \o r)[i] = s[i]
      /\ \A i \in 1 .. Len(r) : (s \o r)[Len(s) + i] = r[i]
  BY Zenon, <1>2, Concatenated
<1>4. t = s \o r
  BY Zenon, <1>1
<1>5. \A i \in 1 .. k : t[Len(s) + i] = c + i
  BY Zenon, <1>2, <1>3, <1>4
<1>6. Last(t) = c + k
  <2>1. k \in 1 .. k
    OBVIOUS
  <2> QED BY Zenon, <1>2, <1>3, <1>4, <1>5, <2>1 DEF Last
<1> QED BY Zenon, <1>2, <1>3, <1>4, <1>5, <1>6

\* A log that grows keeps its entries.
Grows ==
    /\ log' \in Seq(Frames) /\ Len(log') \in Nat /\ Len(log') >= Len(log)
    /\ \A i \in 1 .. Len(log) : log'[i] = log[i]

\* What a process emits is a frame.
LEMMA FrameFacts == \A s \in Streams : Byte(s) \in Frames /\ Eof(s) \in Frames
BY Zenon DEF Byte, Eof, Frames

-----------------------------------------------------------------------------
(* The process.                                                              *)

\* A longer log keeps everything that was delivered and committed.
LEMMA LogGrows ==
    ASSUME OutputInv, Grows, UNCHANGED <<committed, outPump, delivered>>
    PROVE  OutputInv'
<1>1. /\ Len(log) \in Nat /\ committed \in Nat /\ committed <= Len(log)
      /\ \A n \in 1 .. Len(delivered) : delivered[n] \in 1 .. Len(log)
  BY DEF OutputInv, OutputTypes
<1>2. OutputTypes'
  BY <1>1 DEF OutputInv, OutputTypes, Grows
<1>4. \A n \in 1 .. Len(delivered) : Reached(delivered[n], n) /\ delivered[n] \in 0 .. Len(log)
  BY <1>1 DEF OutputInv, NoGap
<1>5. NoGap'
  <2>1. \A i \in 1 .. committed : log'[i].eof <=> log[i].eof
    BY <1>1 DEF Grows
  <2>2. Reached(committed, Len(delivered))'
    BY Zenon, <2>1 DEF OutputInv, NoGap, Reached
  <2>3. ASSUME NEW n \in 1 .. Len(delivered) PROVE Reached(delivered[n], n)'
    <3>1. \A i \in 1 .. delivered[n] : log'[i].eof <=> log[i].eof
      BY SMTT(40), <1>1 DEF Grows
    <3> QED BY SMTT(40), <1>4, <3>1 DEF Reached
  <2> QED BY Zenon, <2>2, <2>3 DEF NoGap
<1>6. PumpIsBehind'
  <2>1. outPump.stage \in {"write", "commit"} =>
          /\ outPump.end \in committed + 1 .. Len(log)
          /\ outPump.cursor = committed
          /\ log'[committed + 1] = log[committed + 1]
    BY SMTT(40), <1>1 DEF OutputInv, PumpIsBehind, Grows
  <2>2. outPump.stage = "commit" =>
          /\ Written' = Written /\ Written \in 0 .. Len(log)
          /\ Reached(Written, Len(delivered))
    BY SMTT(40), <1>1, <2>1 DEF Written, OutputInv, PumpIsBehind
  <2>3. outPump.stage = "commit" => Reached(Written, Len(delivered))'
    <3> SUFFICES ASSUME outPump.stage = "commit" PROVE Reached(Written, Len(delivered))'
      BY Zenon
    <3>1. \A i \in 1 .. Written : log'[i].eof <=> log[i].eof
      BY SMTT(40), <1>1, <2>2 DEF Grows
    <3> HIDE DEF Written
    <3> QED BY Zenon, <2>2, <3>1 DEF Reached
  <2>4. outPump.stage \in {"write", "commit"} =>
          \/ outPump.end = committed + 1
          \/ \A i \in committed + 1 .. outPump.end : ~log'[i].eof
    BY SMTT(40), <1>1, <2>1 DEF OutputInv, PumpIsBehind, Grows
  <2>5. outPump.stage \in {"write", "commit"} => outPump.end \in committed + 1 .. Len(log')
    BY SMTT(40), <1>1, <2>1 DEF Grows
  <2>6. outPump.stage = "commit" => Written \in committed + 1 .. outPump.end
    BY Zenon DEF OutputInv, PumpIsBehind
  <2>7. outPump.stage \in {"read", "write", "commit"} => outPump.cursor = committed
    BY Zenon DEF OutputInv, PumpIsBehind
  <2> HIDE DEF Written
  <2> QED BY Zenon, <2>2, <2>3, <2>4, <2>5, <2>6, <2>7 DEF PumpIsBehind
<1> QED BY Zenon, <1>2, <1>5, <1>6 DEF OutputInv

\* The process writes output.
LEMMA EmitStep == ASSUME OutputInv, Emit PROVE OutputInv'
<1>1. PICK s \in Streams : log' = Append(log, Byte(s))
  BY Zenon DEF Emit
<1>2. log \in Seq(Frames) /\ Byte(s) \in Frames
  BY Zenon, FrameFacts DEF OutputInv, OutputTypes
<1>3. Grows
  BY SMTT(40), <1>1, <1>2 DEF Grows
<1>4. UNCHANGED <<committed, outPump, delivered>>
  BY Zenon DEF Emit
<1> QED BY Zenon, <1>3, <1>4, LogGrows

\* The process exits and its streams end.
LEMMA ExitProcessStep == ASSUME OutputInv, ExitProcess PROVE OutputInv'
<1>1. PICK s \in Streams, t \in Streams : log' = log \o <<Eof(s), Eof(t)>>
  BY Zenon DEF ExitProcess
<1>2. log \in Seq(Frames) /\ Eof(s) \in Frames /\ Eof(t) \in Frames
  BY Zenon, FrameFacts DEF OutputInv, OutputTypes
<1>3. <<Eof(s), Eof(t)>> \in Seq(Frames) /\ Len(<<Eof(s), Eof(t)>>) = 2
  BY <1>2
<1>31. PICK r \in Seq(Frames) : r = <<Eof(s), Eof(t)>> /\ Len(r) = 2
  BY Zenon, <1>3
<1>32. /\ log \o r \in Seq(Frames) /\ Len(log) \in Nat /\ Len(log \o r) = Len(log) + 2
       /\ \A i \in 1 .. Len(log) : (log \o r)[i] = log[i]
  BY <1>2, <1>31
<1>33. Len(log) + 2 \in Nat /\ Len(log) + 2 >= Len(log)
  BY <1>32
<1>4. Grows
  BY Zenon, <1>1, <1>31, <1>32, <1>33 DEF Grows
<1>5. UNCHANGED <<committed, outPump, delivered>>
  BY Zenon DEF ExitProcess
<1> QED BY Zenon, <1>4, <1>5, LogGrows

-----------------------------------------------------------------------------
(* The pump.                                                                 *)

\* A pump that stops, or whose store failed, leaves what it delivered.
LEMMA OutputStopStep ==
    ASSUME OutputInv, UNCHANGED <<log, delivered>>,
           outPump' \in [stage : PumpStages, cursor : Nat, end : Nat, done : SUBSET Streams],
           outPump'.stage \notin {"read", "write", "commit"},
           committed' \in 0 .. Len(log), Reached(committed', Len(delivered))
    PROVE  OutputInv'
<1>1. OutputTypes' /\ NoGap'
  BY DEF OutputInv, OutputTypes, NoGap, Reached
<1>2. PumpIsBehind'
  BY Zenon DEF PumpIsBehind
<1> QED BY Zenon, <1>1, <1>2 DEF OutputInv

\* The pump reads frames behind its cursor.
LEMMA ReadOutputStep == ASSUME OutputInv, ReadOutput PROVE OutputInv'
<1>1. /\ outPump.stage = "read" /\ UNCHANGED <<log, committed, delivered>>
      /\ outPump \in [stage : PumpStages, cursor : Nat, end : Nat, done : SUBSET Streams]
      /\ outPump.cursor = committed /\ committed \in 0 .. Len(log) /\ Len(log) \in Nat
  <2>1. outPump.stage = "read" /\ UNCHANGED <<log, committed, delivered>>
    BY Zenon DEF ReadOutput
  <2> QED BY SMTT(30), <2>1 DEF OutputInv, OutputTypes, PumpIsBehind
<1>2. CASE outPump' = [outPump EXCEPT !.stage = "end"] \/ outPump' = [outPump EXCEPT !.stage = "failed"]
  <2>1. /\ outPump' \in [stage : PumpStages, cursor : Nat, end : Nat, done : SUBSET Streams]
        /\ outPump'.stage \notin {"read", "write", "commit"}
    BY Zenon, <1>1, <1>2 DEF PumpStages
  <2>2. Reached(committed, Len(delivered))
    BY Zenon DEF OutputInv, NoGap
  <2> QED BY Zenon, <1>1, <2>1, <2>2, OutputStopStep
<1>3. ASSUME NEW to \in outPump.cursor + 1 .. Len(log), IsFrame(outPump.cursor, to),
             outPump' = [outPump EXCEPT !.stage = "write", !.end = to]
      PROVE  OutputInv'
  <2>1. to \in Nat /\ to \in committed + 1 .. Len(log)
    BY <1>1, <1>3
  <2>2. /\ outPump' \in [stage : PumpStages, cursor : Nat, end : Nat, done : SUBSET Streams]
        /\ outPump'.stage = "write" /\ outPump'.end = to /\ outPump'.cursor = committed
    BY Zenon, <1>1, <1>3, <2>1 DEF PumpStages
  <2>3. to = committed + 1 \/ \A i \in committed + 1 .. to : ~log[i].eof
    BY Zenon, <1>1, <1>3 DEF IsFrame
  <2>4. OutputTypes' /\ NoGap'
    BY SMTT(40), <1>1, <2>2 DEF OutputInv, OutputTypes, NoGap, Reached
  <2>5. PumpIsBehind'
    BY Zenon, <1>1, <2>1, <2>2, <2>3 DEF PumpIsBehind
  <2> QED BY Zenon, <2>4, <2>5 DEF OutputInv
<1> QED BY ZenonT(40), <1>2, <1>3 DEF ReadOutput

\* The pump writes what it read, all of it or a part, to the client.
LEMMA WriteOutputStep == ASSUME OutputInv, WriteOutput PROVE OutputInv'
<1>1. /\ outPump.stage = "write" /\ UNCHANGED <<log, committed>>
      /\ outPump \in [stage : PumpStages, cursor : Nat, end : Nat, done : SUBSET Streams]
      /\ outPump.cursor = committed /\ committed \in Nat /\ Len(log) \in Nat
      /\ outPump.end \in committed + 1 .. Len(log) /\ outPump.end \in Nat
      /\ \/ outPump.end = committed + 1
         \/ \A i \in committed + 1 .. outPump.end : ~log[i].eof
      /\ delivered \in Seq(Nat)
      /\ \A n \in 1 .. Len(delivered) : delivered[n] \in 1 .. Len(log)
      /\ Reached(committed, Len(delivered))
  BY DEF WriteOutput, OutputInv, OutputTypes, PumpIsBehind, NoGap
<1>2. /\ outPump' = [outPump EXCEPT !.stage = "commit"]
  BY Zenon DEF WriteOutput
<1>3. /\ outPump' \in [stage : PumpStages, cursor : Nat, end : Nat, done : SUBSET Streams]
      /\ outPump'.stage = "commit" /\ outPump'.cursor = committed /\ outPump'.end = outPump.end
  BY Zenon, <1>1, <1>2 DEF PumpStages
<1>4. CASE log[committed + 1].eof
  <2>1. delivered' = delivered
    BY Zenon, <1>1, <1>4 DEF WriteOutput
  <2>2. Written' = committed + 1
    BY Zenon, <1>1, <1>3, <1>4 DEF Written
  <2>3. OutputTypes' /\ NoGap'
    BY SMTT(40), <1>1, <1>3, <2>1 DEF OutputInv, OutputTypes, NoGap, Reached
  <2>4. Reached(committed + 1, Len(delivered))
    BY SMTT(40), <1>1, <1>4 DEF Reached
  <2>5. Reached(Written, Len(delivered))'
    BY Zenon, <1>1, <2>1, <2>2, <2>4 DEF Reached
  <2>6. Written' \in committed + 1 .. outPump.end
    BY SMTT(40), <1>1, <2>2
  <2> HIDE DEF Written
  <2>7. PumpIsBehind'
    BY Zenon, <1>1, <1>3, <2>5, <2>6 DEF PumpIsBehind
  <2> QED BY Zenon, <2>3, <2>7 DEF OutputInv
<1>5. CASE ~log[committed + 1].eof
  <2>1. PICK to \in committed + 1 .. outPump.end :
          delivered' = delivered \o [i \in 1 .. to - committed |-> committed + i]
    <3>1. outPump.cursor = committed
      BY Zenon, <1>1
    <3> QED BY Zenon, <1>5, <3>1 DEF WriteOutput
  <2>2. PICK k \in Nat \ {0} : k = to - committed /\ committed + k = to
    BY SMTT(40), <1>1, <2>1
  <2>3. /\ delivered' \in Seq(Nat) /\ Len(delivered) \in Nat
        /\ Len(delivered') = Len(delivered) + k
        /\ \A i \in 1 .. Len(delivered) : delivered'[i] = delivered[i]
        /\ \A i \in 1 .. k : delivered'[Len(delivered) + i] = committed + i
        /\ Last(delivered') = to
    <3>1. delivered' = delivered \o [i \in 1 .. k |-> committed + i]
      BY Zenon, <2>1, <2>2
    <3>2. delivered \in Seq(Nat) /\ committed \in Nat
      BY Zenon, <1>1
    <3>3. /\ delivered' \in Seq(Nat) /\ Len(delivered) \in Nat
          /\ Len(delivered') = Len(delivered) + k
          /\ \A i \in 1 .. Len(delivered) : delivered'[i] = delivered[i]
          /\ \A i \in 1 .. k : delivered'[Len(delivered) + i] = committed + i
          /\ Last(delivered') = committed + k
      BY SMTT(40), <3>1, <3>2, RunFacts DEF Last
    <3> QED BY Zenon, <2>2, <3>3
  <2>4. Written' = to
    BY Zenon, <1>1, <1>3, <1>5, <2>3 DEF Written
  <2>5. ASSUME NEW j \in 0 .. k, NEW i \in 1 .. committed + j, ~log[i].eof
        PROVE  \E m \in 1 .. Len(delivered) + j : delivered'[m] = i
    <3>1. CASE i <= committed
      <4>1. PICK m \in 1 .. Len(delivered) : delivered[m] = i
        BY SMTT(40), <1>1, <2>5, <3>1 DEF Reached
      <4> QED BY SMTT(40), <2>3, <2>5, <4>1
    <3>2. CASE i > committed
      <4>1. PICK d \in 1 .. k : d <= j /\ committed + d = i
        <5>1. i - committed \in 1 .. k /\ i - committed <= j /\ committed + (i - committed) = i
          BY SMTT(40), <1>1, <2>2, <2>5, <3>2
        <5> QED BY Zenon, <5>1
      <4>2. delivered'[Len(delivered) + d] = i
        BY Zenon, <2>3, <4>1
      <4>3. Len(delivered) + d \in 1 .. Len(delivered) + j
        BY SMTT(40), <2>3, <2>5, <4>1
      <4> QED BY Zenon, <4>2, <4>3
    <3> QED BY SMTT(40), <1>1, <3>1, <3>2
  <2>6. ASSUME NEW n \in 1 .. Len(delivered')
        PROVE  delivered'[n] \in 1 .. Len(log) /\ Reached(delivered[n], n)'
    <3>1. CASE n \in 1 .. Len(delivered)
      <4>1. delivered'[n] = delivered[n] /\ Reached(delivered[n], n)
        BY Zenon, <2>3, <3>1 DEF OutputInv, NoGap
      <4>2. \A m \in 1 .. n : delivered'[m] = delivered[m]
        BY SMTT(40), <2>3, <3>1
      <4> QED BY ZenonT(40), <1>1, <3>1, <4>1, <4>2 DEF Reached
    <3>2. CASE n \in Len(delivered) + 1 .. Len(delivered')
      <4>1. PICK j \in 1 .. k : n = Len(delivered) + j
        <5>1. n - Len(delivered) \in 1 .. k /\ n = Len(delivered) + (n - Len(delivered))
          BY SMTT(40), <2>3, <3>2
        <5> QED BY Zenon, <5>1
      <4>2. delivered'[n] = committed + j
        BY Zenon, <2>3, <4>1
      <4>3. committed + j \in 1 .. Len(log) /\ j \in 0 .. k
        BY SMTT(40), <1>1, <2>1, <2>2, <4>1
      <4>4. \A i \in 1 .. committed + j : ~log[i].eof => \E m \in 1 .. n : delivered'[m] = i
        BY Zenon, <2>5, <4>1, <4>3
      <4> QED BY Zenon, <1>1, <4>2, <4>3, <4>4 DEF Reached
    <3> QED BY SMTT(40), <2>3, <3>1, <3>2
  <2>7. k \in 0 .. k /\ 0 \in 0 .. k
    BY <2>2
  <2>8. \A i \in 1 .. to : ~log'[i].eof => \E m \in 1 .. Len(delivered') : delivered'[m] = i
    <3> SUFFICES ASSUME NEW i \in 1 .. to, ~log'[i].eof
                 PROVE  \E m \in 1 .. Len(delivered') : delivered'[m] = i
      BY Zenon, SMTT(40)
    <3>1. i \in 1 .. committed + k /\ ~log[i].eof
      BY Zenon, <1>1, <2>2
    <3>2. \E m \in 1 .. Len(delivered) + k : delivered'[m] = i
      BY Zenon, <2>5, <2>7, <3>1
    <3> QED BY Zenon, <2>3, <3>2
  <2>9. \A i \in 1 .. committed : i \in 1 .. to
    BY SMTT(40), <1>1, <2>1
  <2>10. OutputTypes'
    BY Zenon, <1>1, <1>3, <2>3, <2>6 DEF OutputInv, OutputTypes
  <2>11. NoGap'
    <3>1. Reached(committed, Len(delivered))'
      BY Zenon, <1>1, <2>8, <2>9 DEF Reached
    <3> QED BY Zenon, <2>6, <3>1 DEF NoGap
  <2>12. Reached(Written, Len(delivered))'
    BY Zenon, <2>4, <2>8 DEF Reached
  <2> HIDE DEF Written
  <2>13. PumpIsBehind'
    BY Zenon, <1>1, <1>3, <2>1, <2>4, <2>12 DEF PumpIsBehind
  <2> QED BY ZenonT(30), <2>10, <2>11, <2>13 DEF OutputInv
<1> QED BY Zenon, <1>4, <1>5

\* The pump stores its cursor.
LEMMA CommitCursorStep == ASSUME OutputInv, CommitCursor PROVE OutputInv'
<1>1. /\ outPump.stage = "commit" /\ UNCHANGED <<log, delivered>>
      /\ outPump \in [stage : PumpStages, cursor : Nat, end : Nat, done : SUBSET Streams]
      /\ outPump.cursor = committed /\ committed \in 0 .. Len(log) /\ Len(log) \in Nat
      /\ outPump.end \in committed + 1 .. Len(log)
      /\ \/ outPump.end = committed + 1
         \/ \A i \in committed + 1 .. outPump.end : ~log[i].eof
      /\ Written \in committed + 1 .. outPump.end
      /\ Reached(Written, Len(delivered)) /\ Reached(committed, Len(delivered))
  BY DEF CommitCursor, OutputInv, OutputTypes, PumpIsBehind, NoGap
<1>2. PICK next \in committed + 1 .. outPump.end :
        /\ next = Written /\ next \in Nat /\ next \in 0 .. Len(log)
        /\ Reached(next, Len(delivered))
  BY <1>1 DEF Reached
<1>3. CASE /\ committed' = next
           /\ outPump' = [outPump EXCEPT !.cursor = next,
                            !.stage = IF next < outPump.end THEN "write" ELSE "read",
                            !.done = IF log[outPump.cursor + 1].eof
                                     THEN @ \cup {log[outPump.cursor + 1].stream} ELSE @]
  <2>1. log[outPump.cursor + 1].stream \in Streams
    <3>1. log \in Seq(Frames) /\ outPump.cursor + 1 \in 1 .. Len(log)
      BY <1>1 DEF OutputInv, OutputTypes
    <3>2. log[outPump.cursor + 1] \in Frames
      BY SMTT(40), <3>1
    <3> QED BY Zenon, <3>2 DEF Frames
  <2>2. PICK d \in SUBSET Streams : outPump' =
          [outPump EXCEPT !.cursor = next, !.done = d,
             !.stage = IF next < outPump.end THEN "write" ELSE "read"]
    <3>1. CASE log[outPump.cursor + 1].eof
      BY ZenonT(40), <1>1, <1>3, <2>1, <3>1
    <3>2. CASE ~log[outPump.cursor + 1].eof
      BY ZenonT(40), <1>1, <1>3, <3>2
    <3> QED BY ZenonT(30), <3>1, <3>2
  <2>3. /\ outPump' \in [stage : PumpStages, cursor : Nat, end : Nat, done : SUBSET Streams]
        /\ outPump'.stage = IF next < outPump.end THEN "write" ELSE "read"
        /\ outPump'.cursor = next /\ outPump'.end = outPump.end
    BY ZenonT(40), <1>1, <1>2, <2>2 DEF PumpStages
  <2>4. OutputTypes' /\ NoGap'
    BY SMTT(40), <1>1, <1>2, <1>3, <2>3 DEF OutputInv, OutputTypes, NoGap, Reached
  <2>5. next < outPump.end => /\ outPump.end \in next + 1 .. Len(log)
                              /\ \A i \in next + 1 .. outPump.end : ~log[i].eof
    BY SMTT(40), <1>1, <1>2
  <2>6. PumpIsBehind'
    BY Zenon, <1>1, <1>3, <2>3, <2>5 DEF PumpIsBehind
  <2> QED BY Zenon, <2>4, <2>6 DEF OutputInv
<1>4. CASE committed' \in {committed, next} /\ outPump' = [outPump EXCEPT !.stage = "failed"]
  <2>1. /\ outPump' \in [stage : PumpStages, cursor : Nat, end : Nat, done : SUBSET Streams]
        /\ outPump'.stage \notin {"read", "write", "commit"}
    BY Zenon, <1>1, <1>4 DEF PumpStages
  <2>2. committed' \in 0 .. Len(log) /\ Reached(committed', Len(delivered))
    BY Zenon, <1>1, <1>2, <1>4
  <2> QED BY Zenon, <1>1, <2>1, <2>2, OutputStopStep
<1> QED BY ZenonT(30), <1>2, <1>3, <1>4 DEF CommitCursor

-----------------------------------------------------------------------------
(* Crash and rehydration; the theorems.                                      *)

\* A crash loses the pump, and keeps the stored cursor.
LEMMA OutputCrashStep == ASSUME OutputInv, OutputCrash PROVE OutputInv'
<1>1. /\ outPump' \in [stage : PumpStages, cursor : Nat, end : Nat, done : SUBSET Streams]
      /\ outPump'.stage \notin {"read", "write", "commit"}
  BY Zenon DEF OutputCrash, NewPump, PumpStages
<1>2. UNCHANGED <<log, committed, delivered>>
  BY Zenon DEF OutputCrash
<1>3. committed' \in 0 .. Len(log) /\ Reached(committed', Len(delivered))
  BY Zenon, <1>2 DEF OutputInv, OutputTypes, NoGap
<1> QED BY Zenon, <1>1, <1>2, <1>3, OutputStopStep

\* Rehydration starts the pump at the stored cursor.
LEMMA OutputRestoreStep == ASSUME OutputInv, OutputRestore PROVE OutputInv'
<1>1. /\ outPump' \in {outPump, NewPump(committed)} /\ UNCHANGED <<log, committed, delivered>>
  BY Zenon DEF OutputRestore
<1>2. CASE outPump' = outPump
  BY SMTT(40), <1>1, <1>2 DEF OutputInv, OutputTypes, NoGap, Reached, PumpIsBehind, Written
<1>3. CASE outPump' = NewPump(committed)
  <2>1. committed \in Nat
    BY SMTT(40) DEF OutputInv, OutputTypes
  <2>2. /\ outPump' \in [stage : PumpStages, cursor : Nat, end : Nat, done : SUBSET Streams]
        /\ outPump'.stage = "read" /\ outPump'.cursor = committed
    BY Zenon, <1>3, <2>1 DEF NewPump, PumpStages
  <2> QED BY <1>1, <2>2 DEF OutputInv, OutputTypes, NoGap, Reached, PumpIsBehind
<1> QED BY Zenon, <1>1, <1>2, <1>3

\* An empty log satisfies the invariant of the output pump.
LEMMA OutputInitially == OutputInit => OutputInv
<1> SUFFICES ASSUME OutputInit PROVE OutputInv
  BY Zenon
<1>1. /\ outPump \in [stage : PumpStages, cursor : Nat, end : Nat, done : SUBSET Streams]
      /\ outPump.stage = "read" /\ outPump.cursor = 0
  BY Zenon DEF OutputInit, NewPump, PumpStages
<1> QED BY SMTT(40), <1>1 DEF OutputInit, OutputInv, OutputTypes, NoGap, Reached, PumpIsBehind

\* The inductive invariant of the output pump: what is committed has been
\* delivered, and a pump at work is at the stored cursor.
THEOREM OutputInvHolds == OutputSpec => []OutputInv
<1>1. OutputInv /\ [OutputNext]_outputVars => OutputInv'
  <2> SUFFICES ASSUME OutputInv, [OutputNext]_outputVars PROVE OutputInv'
    BY Zenon
  <2>1. CASE UNCHANGED <<log, committed, outPump, delivered>>
    BY <2>1 DEF OutputInv, OutputTypes, NoGap, Reached, PumpIsBehind, Written
  <2>2. UNCHANGED outputVars \/ RecordOutputExit => UNCHANGED <<log, committed, outPump, delivered>>
    BY Zenon DEF outputVars, RecordOutputExit
  <2> QED BY ZenonT(40), <2>1, <2>2, EmitStep, ExitProcessStep, ReadOutputStep, WriteOutputStep,
             CommitCursorStep, OutputCrashStep, OutputRestoreStep DEF OutputNext, OutputStep
<1> QED BY <1>1, OutputInitially, PTL DEF OutputSpec

\* The client gets the output without a gap, wherever the shim crashes and
\* whatever prefix of a frame the kernel takes.
THEOREM OutputHasNoGapHolds == OutputSpec => []OutputHasNoGap
<1>1. OutputInv => OutputHasNoGap
  <2> SUFFICES ASSUME OutputInv PROVE OutputHasNoGap
    BY Zenon
  <2>1. delivered \in Seq(Nat) /\ DOMAIN delivered = 1 .. Len(delivered) /\ Len(delivered) \in Nat
    BY DEF OutputInv, OutputTypes
  <2>2. ASSUME NEW n \in 1 .. Len(delivered), NEW i \in 1 .. delivered[n], ~log[i].eof
        PROVE  i \in ToSet(SubSeq(delivered, 1, n))
    <3>1. PICK m \in 1 .. n : delivered[m] = i
      BY Zenon, <2>2 DEF OutputInv, NoGap, Reached
    <3>2. DOMAIN SubSeq(delivered, 1, n) = 1 .. n /\ SubSeq(delivered, 1, n)[m] = delivered[m]
      BY <2>1, <2>2
    <3> QED BY Zenon, <3>1, <3>2 DEF ToSet
  <2>3. ASSUME NEW i \in 1 .. committed, ~log[i].eof PROVE i \in Delivered
    BY Zenon, <2>1, <2>3 DEF OutputInv, NoGap, Reached, Delivered, ToSet
  <2> QED BY Zenon, <2>2, <2>3 DEF OutputHasNoGap
<1> QED BY <1>1, OutputInvHolds, PTL

\* No shim delivers what it or an earlier shim has committed.
THEOREM CommittedIsNotRepeatedHolds == OutputSpec => CommittedIsNotRepeated
<1> DEFINE New == \A n \in Len(delivered) + 1 .. Len(delivered') : delivered'[n] > committed
<1>1. OutputInv /\ [OutputNext]_outputVars => [New]_outputVars
  <2> SUFFICES ASSUME OutputInv, OutputNext PROVE New
    BY Zenon
  <2>1. delivered \in Seq(Nat) /\ Len(delivered) \in Nat /\ committed \in Nat
    BY DEF OutputInv, OutputTypes
  <2>2. CASE delivered' = delivered
    BY SMTT(40), <2>1, <2>2
  <2>3. ASSUME WriteOutput, delivered' # delivered PROVE New
    <3>1. outPump.cursor = committed /\ outPump.end \in Nat
      BY Zenon, <2>3 DEF WriteOutput, OutputInv, OutputTypes, PumpIsBehind
    <3>2. PICK to \in committed + 1 .. outPump.end :
            delivered' = delivered \o [i \in 1 .. to - committed |-> committed + i]
      BY Zenon, <2>3, <3>1 DEF WriteOutput
    <3>3. PICK k \in Nat \ {0} : k = to - committed
      BY SMTT(40), <2>1, <3>1, <3>2
    <3>4. /\ Len(delivered') = Len(delivered) + k
          /\ \A i \in 1 .. k : delivered'[Len(delivered) + i] = committed + i
      BY SMTT(40), <2>1, <3>2, <3>3, RunFacts
    <3> SUFFICES ASSUME NEW n \in Len(delivered) + 1 .. Len(delivered')
                 PROVE  delivered'[n] > committed
      BY Zenon
    <3>5. n - Len(delivered) \in 1 .. k /\ n = Len(delivered) + (n - Len(delivered))
      BY SMTT(40), <2>1, <3>4
    <3>6. delivered'[n] = committed + (n - Len(delivered))
      BY Zenon, <3>4, <3>5
    <3> QED BY SMTT(40), <2>1, <3>5, <3>6
  <2>4. delivered' = delivered \/ WriteOutput
    BY Zenon DEF OutputNext, OutputStep, Emit, ExitProcess, RecordOutputExit, ReadOutput, CommitCursor,
           OutputCrash, OutputRestore
  <2> QED BY Zenon, <2>2, <2>3, <2>4
<1> QED BY <1>1, OutputInvHolds, PTL DEF OutputSpec, CommittedIsNotRepeated

==============================================================================
