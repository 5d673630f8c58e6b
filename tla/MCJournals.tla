----------------------------- MODULE MCJournals ------------------------------
(* The two journals that are kept outside the container records, in one run: *)
(* the event journal of the host, with events of two containers, a client    *)
(* that follows both and one that follows only that of e1; and the journal   *)
(* of the command line.  A behaviour has one subject; the other stays as it  *)
(* begins.                                                                   *)
EXTENDS EventJournal, OciCli, TLC

CONSTANTS e1, e2, all, some

Filters == all :> {e1, e2} @@ some :> {e1}

VARIABLE subject

journalVars == <<subject, vars, cliVars>>

MCJournalsInit ==
    /\ subject \in {"events", "cli"}
    /\ Init /\ CliInit

\* Two faults in the first lifecycle, or one and a second lifecycle.
WithinBounds == cliFaults' < 2 \/ files'[Len(files')].next <= 2

MCJournalsNext ==
    /\ UNCHANGED subject
    /\ \/ subject = "events" /\ Next /\ UNCHANGED cliVars
       \/ subject = "cli" /\ CliNext /\ WithinBounds /\ UNCHANGED vars

MCJournalsSpec == MCJournalsInit /\ [][MCJournalsNext]_journalVars /\ Fairness
==============================================================================
