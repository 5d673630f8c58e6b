-------------------------------- MODULE OciCli --------------------------------
(* The OCI command line (crates/cli/src/oci_cli): short processes that carry *)
(* create, start, kill and delete of one container ID to the Host Service.   *)
(* A journal directory remembers across processes what was asked for, under  *)
(* which operation ID, and what is still unanswered.                         *)
(*                                                                           *)
(* A process holds the directory's lock from its first read to its end, so   *)
(* there is one at a time.  What it does between two answers of the host     *)
(* touches only its memory and the journal, and is one step.  A process that *)
(* is killed, and one that returns a retryable error, leave the journal as   *)
(* it last stored it; a command that is turned away changes nothing at all.  *)
(*                                                                           *)
(* The Host Service is here what HostService.tla shows it to be: it admits a *)
(* request by journaling it, carries an operation ID out once, answers a     *)
(* decided one from its ledger, and goes on with an admitted request after   *)
(* the process is gone.  A request is admitted or lost before a later        *)
(* process's request is looked at.                                           *)
EXTENDS ClientBase, Sequences

CONSTANTS Bundles,           \* create requests that differ in what is journaled
          Signals,           \* kill requests (signal and --all)
          MaxCliIncarnation, \* lifecycles of the container ID
          MaxCliSequence,    \* operations of one lifecycle, create not counted
          MaxForeign,        \* the last generation another client may take
          MaxCliFaults       \* killed processes, I/O errors, lost answers

Modes == {"stopped", "force"}

Ids == [inc : Nat, verb : {"create", "start", "kill", "delete"}, seq : Nat,
        arg : Bundles \cup Signals \cup Modes \cup {Nil}]

Lives == [inc : Nat, bundle : Bundles, acknowledged : BOOLEAN, target : Nat, seq : Nat,
          started : BOOLEAN, start : Ids \cup {Nil}, kill : Ids \cup {Nil},
          delete : Ids \cup {Nil}]

Containers == [generation : Nat, owner : Ids \cup {Nil}, bundle : Bundles \cup {Nil},
               status : {"creating", "created", "running", "stopped"}]

ASSUME CliAssumption ==
    /\ {MaxCliIncarnation, MaxCliSequence, MaxForeign, MaxCliFaults} \subseteq Nat
    /\ Nil \notin Ids /\ Nil \notin Lives /\ Nil \notin Containers

VARIABLES
    files,      \* the snapshots in the journal directory, oldest first
    cli,        \* the process and its request
    ledger,     \* host: what became of the requests it admitted
    handling,   \* host: admitted requests it is working on
    container,  \* host: the container of this ID
    generation, \* host: the generation given out last
    history,    \* requests whose final answer reached the command line, and
                \* lifecycles that were created again with a delete unanswered
    cliFaults

cliVars == <<files, cli, ledger, handling, container, generation, history, cliFaults>>

hostVars == <<ledger, handling, container, generation>>

\* operation_id, a digest of what tells requests apart.
OperationId(inc, verb, seq, arg) == [inc |-> inc, verb |-> verb, seq |-> seq, arg |-> arg]

CreateId(life) == OperationId(life.inc, "create", 0, life.bundle)

\* No process.
Gone == [stage |-> "gone", id |-> Nil, target |-> 0, replaying |-> FALSE, reply |-> "none"]

CliInit ==
    /\ files = <<[next |-> 1, life |-> Nil]>>
    /\ cli = Gone
    /\ ledger = [o \in {} |-> Nil]
    /\ handling = {}
    /\ container = Nil /\ generation = 0
    /\ history = [answered |-> {}, crossed |-> {}]
    /\ cliFaults = 0

CliFault == cliFaults < MaxCliFaults /\ cliFaults' = cliFaults + 1

CliWorks == UNCHANGED cliFaults

-----------------------------------------------------------------------------
(* The journal.                                                              *)

\* load_latest_snapshot: the highest revision; an empty directory reads as the
\* snapshot that CliInit begins with.
Latest == files[Len(files)]

Life == Latest.life

\* Mutant: the old revision is removed before the new one is published.
PersistInPlace(snapshot, process) ==
    \/ CliWorks /\ files' = <<snapshot>> /\ cli' = process
    \/ CliFault /\ files' \in {files, <<[next |-> 1, life |-> Nil]>>} /\ cli' = Gone

\* persist_locked_journal: a new revision is published beside the old one, which
\* is removed afterwards.  An error or a death before the rename leaves the old
\* revision, one after it both, and the process does not go on, unless it is only
\* the removal that failed.
Persist(snapshot, process) ==
    \/ CliWorks /\ files' = <<snapshot>> /\ cli' = process
    \/ CliFault /\ files' = files /\ cli' = Gone
    \/ CliFault /\ files' = <<Latest, snapshot>> /\ cli' \in {Gone, process}

\* JournalSnapshot::validate and LifecycleJournal::validate.
IsValid(snapshot) ==
    LET life == snapshot.life
    IN  /\ snapshot.next # 0
        /\ life # Nil =>
              /\ life.inc # 0 /\ life.inc < snapshot.next
              /\ life.seq # 0
              /\ life.acknowledged => life.target # 0
              /\ ~(life.started /\ life.start # Nil)
              /\ \A v \in {"start", "kill", "delete"} :
                    life[v] # Nil => life[v].seq # 0 /\ life[v].seq < life.seq

\* A process that has sent a request for a generation (0 for a create).
Sent(id, target, replaying) ==
    [stage |-> "sent", id |-> id, target |-> target, replaying |-> replaying, reply |-> "none"]

-----------------------------------------------------------------------------
(* Commands.                                                                 *)

\* create of an ID without a lifecycle.
Create(b) ==
    LET life == [inc |-> Latest.next, bundle |-> b, acknowledged |-> FALSE, target |-> 0,
                 seq |-> 1, started |-> FALSE, start |-> Nil, kill |-> Nil, delete |-> Nil]
    IN  /\ cli = Gone /\ Life = Nil
        /\ Latest.next <= MaxCliIncarnation
        /\ Persist([next |-> Latest.next + 1, life |-> life], Sent(CreateId(life), 0, FALSE))
        /\ UNCHANGED <<hostVars, history>>

\* create again while its answer is unknown: the same request, or none.
CreateAgain(b) ==
    /\ cli = Gone /\ Life # Nil
    /\ ~Life.acknowledged /\ Life.bundle = b
    /\ cli' = Sent(CreateId(Life), 0, FALSE)
    /\ history' = [history EXCEPT !.crossed = @ \cup IF Life.delete = Nil THEN {} ELSE {Life.inc}]
    /\ UNCHANGED <<files, hostVars, cliFaults>>

\* validate_record: the container is the one the journal describes.
IsDescribed(life) ==
    /\ container # Nil
    /\ container.bundle = life.bundle
    /\ life.target \in {0, container.generation}

Resolved(life) ==
    [life EXCEPT !.target = container.generation,
                 !.acknowledged = @ \/ container.status # "creating"]

\* resolve_target, which any other command begins with; it then goes on as a
\* process would that finds the target in the journal.
Resolve ==
    /\ cli = Gone /\ Life # Nil
    /\ Life.target = 0 /\ IsDescribed(Life)
    /\ Persist([Latest EXCEPT !.life = Resolved(Life)], Gone)
    /\ UNCHANGED <<hostVars, history>>

\* state, once the target is known, only reads.
State == cli = Gone /\ UNCHANGED cliVars

\* The states in which a new operation is asked for.
Admissible(verb) ==
    CASE verb = "start" -> container.status = "created"
      [] verb = "kill" -> container.status \in {"created", "running"}
      [] verb = "delete" -> TRUE

\* start, kill and delete: the pending operation if there is one, and it is the
\* same; otherwise a new one, journaled before it is sent.
Command(verb, arg) ==
    LET new == OperationId(Life.inc, verb, Life.seq, arg)
        pending == Life[verb]
    IN  /\ cli = Gone /\ Life # Nil /\ Life.target # 0
        /\ verb = "start" => ~Life.started
        /\ IF pending # Nil
             THEN /\ pending.arg = arg
                  /\ cli' = Sent(pending, Life.target, TRUE)
                  /\ UNCHANGED <<files, cliFaults>>
             ELSE /\ IsDescribed(Life) /\ Admissible(verb)
                  /\ Life.seq <= MaxCliSequence
                  /\ Persist([Latest EXCEPT !.life = [Life EXCEPT ![verb] = new,
                                                                   !.seq = Life.seq + 1]],
                             Sent(new, Life.target, FALSE))
        /\ UNCHANGED <<hostVars, history>>

\* Mutant: a lifecycle is dropped whenever the host does not show the container.
ReconcileByAbsence(life) ==
    \/ container # Nil /\ Persist([Latest EXCEPT !.life.target = container.generation], Gone)
    \/ Persist([Latest EXCEPT !.life = Nil], Gone)

\* reconcile_create_error of a final error: the container is looked up.  One that
\* matches is kept, one that is not there ends the lifecycle, and one that does
\* not match, or a failed lookup, leaves the journal alone.
ReconcileCreate(life) ==
    \/ /\ container # Nil /\ container.bundle = life.bundle
       /\ Persist([Latest EXCEPT !.life.target = container.generation], Gone)
    \/ /\ container # Nil /\ container.bundle # life.bundle
       /\ cli' = Gone /\ UNCHANGED files /\ CliWorks
    \/ /\ container = Nil
       /\ Persist([Latest EXCEPT !.life = Nil], Gone)
    \/ cli' = Gone /\ UNCHANGED files /\ CliFault

SettleCreate(reply) ==
    CASE reply = "ok" ->
           Persist([Latest EXCEPT !.life.target = ledger[cli.id].generation,
                                  !.life.acknowledged = TRUE], Gone)
      [] reply = "exists" -> Persist([Latest EXCEPT !.life = Nil], Gone)
      [] reply = "refused" -> ReconcileCreate(Life)

\* An operation with a final answer, good or bad, is no longer pending.
Cleared(verb, reply) ==
    IF verb = "start" /\ reply = "ok"
      THEN [Life EXCEPT !.start = Nil, !.started = TRUE]
      ELSE [Life EXCEPT ![verb] = Nil]

\* A delete also succeeds if a repeated one finds nothing to delete.
SettleCommand(verb, reply) ==
    LET over == \/ reply = "ok"
                \/ reply = "missing" /\ cli.replaying
    IN  Persist([Latest EXCEPT !.life = IF verb = "delete" /\ over THEN Nil
                                                                   ELSE Cleared(verb, reply)],
                Gone)

\* The answer is in.  A record whose status is not the expected one ("changed")
\* is an error that leaves the journal alone.
Settle ==
    LET verb == cli.id.verb
        reply == cli.reply
    IN  /\ cli.stage = "answered"
        /\ IF reply = "changed" THEN cli' = Gone /\ UNCHANGED files /\ CliWorks
           ELSE IF verb = "create" THEN SettleCreate(reply)
           ELSE SettleCommand(verb, reply)
        /\ history' = [history EXCEPT !.answered = @ \cup {cli.id}]
        /\ UNCHANGED hostVars

\* The process is killed, or its connection breaks: a retryable error.  A request
\* that was not admitted is lost.
CliDies ==
    /\ cli # Gone
    /\ CliFault
    /\ cli' = Gone
    /\ UNCHANGED <<files, hostVars, history>>

-----------------------------------------------------------------------------
(* The Host Service.                                                         *)

Answer(o, reply) ==
    cli' = IF cli.stage = "await" /\ cli.id = o
             THEN [cli EXCEPT !.stage = "answered", !.reply = reply] ELSE cli

Reply(reply) == cli' = [cli EXCEPT !.stage = "answered", !.reply = reply]

\* The preconditions of a new request.
HostAccepts(o, target) ==
    CASE o.verb = "create" -> container = Nil
      [] OTHER ->
           /\ container # Nil /\ container.generation = target
           /\ CASE o.verb = "start" -> container.status = "created"
                [] o.verb = "kill" -> container.status \in {"created", "running"}
                [] o.verb = "delete" -> \/ container.status = "stopped"
                                        \/ o.arg = "force" /\ container.status # "creating"

TakeUp(o) == handling' = handling \cup {o} /\ cli' = [cli EXCEPT !.stage = "await"]

Creating(o, g) == [generation |-> g, owner |-> o, bundle |-> o.arg, status |-> "creating"]

\* Is the container the one an admitted operation is fenced to?
Concerns(o) == container # Nil /\ container.generation = ledger[o].generation

\* Another undecided operation of the container may hold its claim; it does not
\* if it was cut short after releasing it.
MayBeClaimed(o) ==
    \E p \in DOMAIN ledger \ {o} : ledger[p].reply = "none" /\ Concerns(p)

\* prepare_create and prepare_<kind> of an operation the host has not seen: it is
\* journaled, and carried out unless the container is claimed.
HostAdmits ==
    LET o == cli.id
        fence == IF o.verb = "create" THEN generation + 1 ELSE cli.target
    IN  /\ cli.stage = "sent"
        /\ o \notin DOMAIN ledger
        /\ HostAccepts(o, cli.target)
        /\ ledger' = [p \in DOMAIN ledger \cup {o} |->
                         IF p = o THEN [reply |-> "none", generation |-> fence, moved |-> FALSE]
                                  ELSE ledger[p]]
        /\ \/ TakeUp(o)
           \/ MayBeClaimed(o) /\ Reply("refused") /\ UNCHANGED handling
        /\ IF o.verb = "create"
             THEN /\ generation' = fence
                  /\ container' = Creating(o, fence)
             ELSE UNCHANGED <<container, generation>>
        /\ UNCHANGED <<files, history, cliFaults>>

\* A request turned away without a trace, by its preconditions or by an error.
HostTurnsAway ==
    LET o == cli.id
        reply == IF o.verb = "create" THEN "exists"
                 ELSE IF container = Nil THEN "missing" ELSE "refused"
    IN  /\ cli.stage = "sent"
        /\ o \notin DOMAIN ledger
        /\ \/ ~HostAccepts(o, cli.target) /\ Reply(reply) /\ CliWorks
           \/ Reply("refused") /\ CliFault
        /\ UNCHANGED <<files, hostVars, history>>

\* A decided operation is answered from the ledger; a known operation ID with
\* another target is refused (validate_retry).
HostAnswersAgain ==
    LET known == ledger[cli.id]
        same == cli.target \in {0, known.generation}
    IN  /\ cli.stage = "sent"
        /\ cli.id \in DOMAIN ledger
        /\ ~same \/ known.reply # "none"
        /\ Reply(IF same THEN known.reply ELSE "refused")
        /\ UNCHANGED <<files, hostVars, history, cliFaults>>

\* An undecided one is taken up again once nobody works on it.  A creation whose
\* container is not there makes it again, and a delete that has moved its
\* container away has succeeded; otherwise a container that is not there is a
\* retryable error, and one that is another's, or is back, a final one.
HostResumes ==
    LET o == cli.id
        moved == ledger[o].moved
    IN  /\ cli.stage = "sent"
        /\ o \in DOMAIN ledger \ handling
        /\ ledger[o].reply = "none" /\ cli.target \in {0, ledger[o].generation}
        /\ \/ /\ o.verb = "create" /\ container = Nil
              /\ TakeUp(o) /\ container' = Creating(o, ledger[o].generation)
              /\ UNCHANGED ledger
           \/ /\ Concerns(o) /\ ~moved
              /\ \/ TakeUp(o)
                 \/ MayBeClaimed(o) /\ Reply("refused") /\ UNCHANGED handling
              /\ UNCHANGED <<ledger, container>>
           \/ /\ moved /\ ~Concerns(o)
              /\ ledger' = [ledger EXCEPT ![o].reply = "ok"] /\ Reply("ok")
              /\ UNCHANGED <<handling, container>>
           \/ /\ o.verb # "create" /\ container = Nil /\ ~moved
              /\ cli' = Gone
              /\ UNCHANGED <<ledger, handling, container>>
           \/ /\ container # Nil /\ moved = Concerns(o)
              /\ Reply("refused")
              /\ UNCHANGED <<ledger, handling, container>>
        /\ UNCHANGED <<files, generation, history, cliFaults>>

\* complete_<kind> finds what it has to finish.
CanComplete(o) ==
    CASE o.verb = "create" -> Concerns(o) /\ container.status \in {"creating", "created"}
      [] o.verb = "delete" -> Concerns(o) # ledger[o].moved
      [] OTHER -> Concerns(o)

\* What carrying a request out makes of its container.
Outcomes(o) ==
    CASE o.verb = "create" -> {[container EXCEPT !.status = "created"]}
      [] o.verb = "start" ->
           {[container EXCEPT !.status = s] :
              s \in IF container.status = "created" THEN {"running", "stopped"}
                                                    ELSE {container.status}}
      [] o.verb = "kill" -> {container, [container EXCEPT !.status = "stopped"]}
      [] o.verb = "delete" -> {IF Concerns(o) THEN Nil ELSE container}

\* The effect of an operation, and what is then journaled of it.
TakesEffect(o, after, reply) ==
    /\ container' = after
    /\ ledger' = [ledger EXCEPT ![o].moved = o.verb = "delete", ![o].reply = reply]

\* A start that finds its process gone again returns a record that is not running.
ReplyOf(o, after) ==
    IF o.verb = "start" /\ after.status # "running" THEN "changed" ELSE "ok"

\* The driver has done it, and the outcome is journaled.
HostCompletes(o) ==
    /\ o \in handling /\ CanComplete(o)
    /\ \E after \in Outcomes(o) :
         TakesEffect(o, after, ReplyOf(o, after)) /\ Answer(o, ReplyOf(o, after))
    /\ handling' = handling \ {o}
    /\ UNCHANGED <<files, generation, history, cliFaults>>

\* The driver refuses, and the failure is journaled; a failed creation leaves.
HostFails(o) ==
    /\ o \in handling /\ Concerns(o)
    /\ ledger' = [ledger EXCEPT ![o].reply = "refused"]
    /\ container' = IF o.verb = "create" THEN Nil ELSE container
    /\ handling' = handling \ {o}
    /\ Answer(o, "refused")
    /\ CliFault
    /\ UNCHANGED <<files, generation, history>>

\* The host breaks off before the effect, after it, or when the outcome is journaled
\* and only the acknowledgement to the driver is missing: with an I/O error, which
\* is final for the command line, or with one that is retryable.
HostBreaksOff(o) ==
    /\ o \in handling
    /\ \/ UNCHANGED <<container, ledger>>
       \/ /\ CanComplete(o)
          /\ \E after \in Outcomes(o), journaled \in BOOLEAN :
               TakesEffect(o, after, IF journaled THEN ReplyOf(o, after) ELSE "none")
    /\ handling' = handling \ {o}
    /\ \/ Answer(o, "refused")
       \/ cli.stage = "await" /\ cli.id = o /\ cli' = Gone
    /\ CliFault
    /\ UNCHANGED <<files, generation, history>>

\* The container went, or stopped, while the operation was under way, and it cannot
\* be completed.  This is final, except for a delete that finds nothing at all.
HostMisses(o) ==
    /\ o \in handling
    /\ CanComplete(o) => o.verb \in {"start", "kill"} /\ container.status = "stopped"
    /\ handling' = handling \ {o}
    /\ IF container = Nil /\ o.verb = "delete"
         THEN cli' = IF cli.stage = "await" /\ cli.id = o THEN Gone ELSE cli
         ELSE Answer(o, "refused")
    /\ UNCHANGED <<files, ledger, container, generation, history, cliFaults>>

HostDies ==
    /\ handling # {}
    /\ handling' = {}
    /\ cli' = Gone
    /\ CliFault
    /\ UNCHANGED <<files, ledger, container, generation, history>>

\* The environment: the init process exits, and another client of the host has
\* a container under the same ID for a while, of one of the bundles or of none.
ContainerExits ==
    /\ container # Nil /\ container.status \in {"created", "running"}
    /\ container' = [container EXCEPT !.status = "stopped"]
    /\ UNCHANGED <<files, cli, ledger, handling, generation, history, cliFaults>>

OthersCreate(b) ==
    /\ container = Nil /\ generation < MaxForeign
    /\ generation' = generation + 1
    /\ container' = [generation |-> generation + 1, owner |-> Nil, bundle |-> b,
                     status |-> "created"]
    /\ UNCHANGED <<files, cli, ledger, handling, history, cliFaults>>

OthersDelete ==
    /\ container # Nil /\ container.owner = Nil
    /\ container' = Nil
    /\ UNCHANGED <<files, cli, ledger, handling, generation, history, cliFaults>>

-----------------------------------------------------------------------------
CliNext ==
    \/ \E b \in Bundles : Create(b)
    \/ \E b \in Bundles : CreateAgain(b)
    \/ Resolve
    \/ State
    \/ Command("start", Nil)
    \/ \E s \in Signals : Command("kill", s)
    \/ \E m \in Modes : Command("delete", m)
    \/ Settle
    \/ CliDies
    \/ HostAdmits
    \/ HostTurnsAway
    \/ HostAnswersAgain
    \/ HostResumes
    \/ \E o \in handling : HostCompletes(o)
    \/ \E o \in handling : HostFails(o)
    \/ \E o \in handling : HostBreaksOff(o)
    \/ \E o \in handling : HostMisses(o)
    \/ HostDies
    \/ ContainerExits
    \/ \E b \in Bundles \cup {Nil} : OthersCreate(b)
    \/ OthersDelete

CliSpec == CliInit /\ [][CliNext]_cliVars

-----------------------------------------------------------------------------
(* Properties.                                                               *)

\* The container was made for the command line.  If create was repeated while a
\* delete of the same lifecycle was unanswered, which the command allows, the
\* delete's answer ends the lifecycle though the container may be there again; a
\* container of such a lifecycle is excepted.
IsOurs ==
    /\ container # Nil /\ container.owner # Nil
    /\ container.owner.inc \notin history.crossed

\* A container that the host made for the command line is the one its journal
\* describes: whichever process died, whichever answer was lost or wrong, there
\* is a lifecycle through which it can be killed and deleted.
CreatedIsJournaled == IsOurs => Life # Nil /\ CreateId(Life) = container.owner

\* The journal is ahead of the host.  Every operation the host has admitted has
\* numbers that the journal will not give out again, and one that is unanswered
\* while its container exists is what the command will repeat.
RequestsAreJournaled ==
    \A o \in DOMAIN ledger :
      /\ o.inc < Latest.next
      /\ Life # Nil /\ o.inc = Life.inc => o.seq < Life.seq
      /\ o.verb # "create" /\ o \notin history.answered /\ Concerns(o) /\ IsOurs =>
           Life # Nil /\ Life[o.verb] = o

\* Every revision in the directory passes the validation that persist_locked_journal
\* and the loading of a revision ask for: no sequence of commands, answers and
\* deaths makes a journal that no later command can open.
RevisionsAreValid == \A i \in DOMAIN files : IsValid(files[i])

==============================================================================
