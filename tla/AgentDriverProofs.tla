------------------------- MODULE AgentDriverProofs -------------------------
(* The steps of the driver client and of the host, and the theorems: the     *)
(* safety properties of AgentDriver hold of AgentSpec, and AgentSpec         *)
(* implements ReplayContract.                                                *)
EXTENDS GuestExecutorProofs

-----------------------------------------------------------------------------
(* Steps of the driver client and of the host.                               *)

\* The gates one client held open again.
LEMMA ReleaseType ==
    ASSUME AgentInv, NEW c \in Tasks, Release(c)
    PROVE  gate' \in [HostOps -> Tasks \cup {Nothing}]
BY DEF AgentInv, DriverTypes, Release

\* A call that is dropped leaves the guest to finish what it claimed.
LEMMA CancelStep ==
    ASSUME AgentInv, NEW c \in Tasks, Cancel(c)
    PROVE  AgentInv'
  <1>1. client \in [Tasks -> Clients] /\ call \in [Tasks -> Calls]
    BY DEF AgentInv, GuestTypes, DriverTypes
  <1>2. client' = [client EXCEPT ![c] = IdleClient] /\ call' = [call EXCEPT ![c] = IdleCall]
    BY DEF Cancel
  <1>3. /\ client' \in [Tasks -> Clients] /\ call' \in [Tasks -> Calls]
        /\ client'[c] = IdleClient /\ call'[c] = IdleCall
        /\ \A d \in Tasks \ {c} : client'[d] = client[d] /\ call'[d] = call[d]
    BY <1>1, <1>2, IdleTypes
  <1>4. call'[c].stage = "idle" /\ client'[c].stage = "idle"
    BY <1>3 DEF IdleCall, IdleClient
  <1>5. UNCHANGED operations /\ UNCHANGED guestRest /\ UNCHANGED <<host, retained, reattached>>
    BY DEF Cancel, guestRest
  <1>6. ASSUME NEW d \in Tasks PROVE ClientOk(d)' /\ CallOk(d)' /\ ReplyOk(d)'
    <2>1. CASE d = c
      BY <1>3, <1>4, <2>1, IdleIsOk
    <2>2. CASE d # c
      <3>1. client'[d] = client[d] /\ call'[d] = call[d] /\ pending' = pending
        BY Zenon, <1>3, <1>5, <2>2 DEF guestRest
      <3>2. \A h \in GuestIds : Done(h)' <=> Done(h)
        BY <1>5, Zenon DEF Done
      <3>3. Kept(client[d].op) => Kept(client[d].op)'
        BY <1>5, <3>1, Zenon DEF Kept, Request
      <3>4. \A e \in Tasks \ {d} : Sending(e)' => Sending(e) /\ client'[e].op = client[e].op
        BY <1>3, <1>4 DEF Sending
      <3>5. client[d].stage \in {"ack_gate", "ack_call", "ack_done"} =>
              host'[client[d].op].status \in Decided
        BY <1>5, Zenon DEF AgentInv, ClientOk
      <3> QED BY ZenonT(30), <1>5, <3>1, <3>2, <3>3, <3>4, <3>5, OtherClient
    <2> QED BY <2>1, <2>2
  <1>7. \A g \in GuestIds : AckOk(g)'
    <2>1. \A d \in Tasks : client'[d].stage \in {"ack_call", "ack_done"} => client'[d] = client[d]
      BY <1>3, <1>4
    <2> QED BY <1>5, <2>1, AckFrame
  <1>8. gate' \in [HostOps -> Tasks \cup {Nothing}]
    BY ReleaseType DEF Cancel
  <1> QED BY Zenon, <1>3, <1>5, <1>6, <1>7, <1>8, ClientStep

\* The host starts to release a decided operation.
LEMMA BeginAcknowledgeStep ==
    ASSUME AgentInv, NEW c \in Tasks, NEW p \in HostOps, BeginAcknowledge(c, p)
    PROVE  AgentInv'
  <1>1. client \in [Tasks -> Clients] /\ call \in [Tasks -> Calls] /\ ClientOk(c)
    BY DEF AgentInv, GuestTypes, DriverTypes
  <1>2. /\ client' = [client EXCEPT ![c] = [IdleClient EXCEPT !.stage = "ack_gate", !.op = p]]
        /\ client[c].stage = "idle" /\ host[p].status \in Decided
    BY DEF BeginAcknowledge
  <1>3. /\ client' \in [Tasks -> Clients]
        /\ client'[c].stage = "ack_gate" /\ client'[c].op = p
        /\ \A d \in Tasks \ {c} : client'[d] = client[d]
    <2>1. PICK begun : begun = [IdleClient EXCEPT !.stage = "ack_gate", !.op = p]
      OBVIOUS
    <2>2. begun \in Clients /\ begun.stage = "ack_gate" /\ begun.op = p
      BY Zenon, <2>1, IdleTypes DEF Clients
    <2> QED BY <1>1, <1>2, <2>1, <2>2
  <1>4. /\ UNCHANGED operations /\ UNCHANGED guestRest /\ UNCHANGED <<host, retained, reattached>>
        /\ call' = call /\ gate' = gate
    BY DEF BeginAcknowledge, guestRest, guestVars
  <1>5. call[c].stage = "idle"
    BY <1>1, <1>2 DEF ClientOk
  <1>6. ASSUME NEW d \in Tasks PROVE ClientOk(d)' /\ CallOk(d)' /\ ReplyOk(d)'
    <2>1. CASE d = c
      <3>1. ~Sending(c)'
        BY <1>3 DEF Sending
      <3>2. ClientOk(c)'
        BY <1>2, <1>3, <1>4, <1>5, <3>1 DEF ClientOk
      <3> QED BY Zenon, <1>3, <2>1, <3>2 DEF CallOk, ReplyOk
    <2>2. CASE d # c
      <3>1. client'[d] = client[d] /\ call'[d] = call[d] /\ pending' = pending
        BY Zenon, <1>3, <1>4, <2>2 DEF guestRest
      <3>2. \A h \in GuestIds : Done(h)' <=> Done(h)
        BY <1>4, Zenon DEF Done
      <3>3. Kept(client[d].op) => Kept(client[d].op)'
        BY <1>4, <3>1, Zenon DEF Kept, Request
      <3>4. \A e \in Tasks \ {d} : Sending(e)' => Sending(e) /\ client'[e].op = client[e].op
        BY <1>3 DEF Sending
      <3>5. client[d].stage \in {"ack_gate", "ack_call", "ack_done"} =>
              host'[client[d].op].status \in Decided
        BY <1>4, Zenon DEF AgentInv, ClientOk
      <3> QED BY ZenonT(30), <1>4, <3>1, <3>2, <3>3, <3>4, <3>5, OtherClient
    <2> QED BY <2>1, <2>2
  <1>7. \A g \in GuestIds : AckOk(g)'
    <2>1. \A d \in Tasks : client'[d].stage \in {"ack_call", "ack_done"} => client'[d] = client[d]
      BY <1>3
    <2> QED BY ZenonT(30), <1>4, <2>1, AckFrame
  <1>8. gate' \in [HostOps -> Tasks \cup {Nothing}] /\ call' \in [Tasks -> Calls]
    BY <1>4, Zenon DEF AgentInv, DriverTypes, GuestTypes
  <1> QED BY <1>3, <1>4, <1>6, <1>7, <1>8, ClientStep

\* The derived IDs of a request are guest IDs.
LEMMA ChunksAreIds ==
    ASSUME NEW q \in Requests
    PROVE  ChunkIds(q) \subseteq GuestIds /\ ChunkIds(q) # {}
  <1>1. q.op \in HostOps /\ q.chunks \in 1 .. MaxChunks
    BY RequestsAssumption
  <1>2. MaxChunks \in Nat
    BY GuestAssumption
  <1>3. ChunkIds(q) \subseteq GuestIds
    BY <1>1, <1>2 DEF ChunkIds, GuestIds
  <1>4. GuestId(q, 1) \in ChunkIds(q)
    BY <1>1, <1>2, PartIds
  <1> QED BY <1>3, <1>4

\* An acknowledgement under its gate knows every ID the guest has recorded of
\* the operation.
LEMMA AcknowledgeOperationStep ==
    ASSUME AgentInv, NEW c \in Tasks, AcknowledgeOperation(c)
    PROVE  AgentInv'
  <1>1. client \in [Tasks -> Clients] /\ call \in [Tasks -> Calls] /\ ClientOk(c)
    BY DEF AgentInv, GuestTypes, DriverTypes
  <1>2. client[c].stage = "ack_gate"
    BY DEF AcknowledgeOperation
  <1>3. PICK p \in HostOps : p = client[c].op
    BY ZenonT(30), <1>1, <1>2 DEF ClientOk
  <1>4. PICK ids : ids = IF retained[p] = {} THEN {<<p, 0>>} ELSE retained[p]
    BY Zenon
  <1>5. client' = [client EXCEPT ![c].stage = "ack_call", ![c].ids = ids]
    BY <1>3, <1>4 DEF AcknowledgeOperation
  <1>6. RetainedOk(p) /\ retained[p] \subseteq GuestIds /\ Request(p) \in Requests \cup {Nothing}
    BY DEF AgentInv, DriverTypes, Hosts, Request
  <1>7. RequestOk(p)
    BY DEF AgentInv
  <1>8. ids \subseteq GuestIds /\ \A g \in ids : g[1] = p
    <2>1. CASE retained[p] = {}
      BY <1>4, <2>1, GuestAssumption DEF GuestIds
    <2>2. CASE retained[p] # {}
      <3>1. Request(p) \in Requests /\ Request(p).op = p /\ retained[p] = ChunkIds(Request(p))
        BY <1>6, <1>7, <2>2 DEF RetainedOk, RequestOk
      <3>2. \A g \in ChunkIds(Request(p)) : g[1] = p
        BY <3>1, ChunksOfOp
      <3> QED BY Zenon, <1>4, <1>6, <2>2, <3>1, <3>2
    <2> QED BY <2>1, <2>2
  <1>9. /\ client' \in [Tasks -> Clients]
        /\ client'[c].stage = "ack_call" /\ client'[c].op = p /\ client'[c].ids = ids
        /\ \A d \in Tasks \ {c} : client'[d] = client[d]
    BY ZenonT(30), <1>1, <1>3, <1>5, <1>8 DEF Clients
  <1>10. /\ UNCHANGED operations /\ UNCHANGED guestRest
         /\ UNCHANGED <<host, retained, reattached>> /\ call' = call
    BY DEF AcknowledgeOperation, guestRest, guestVars
  <1>11. host[p].status \in Decided /\ call[c].stage = "idle"
    BY <1>1, <1>2, <1>3 DEF ClientOk
  <1>12. ASSUME NEW d \in Tasks PROVE ClientOk(d)' /\ CallOk(d)' /\ ReplyOk(d)'
    <2>1. CASE d = c
      <3>1. ~Sending(c)'
        BY <1>9 DEF Sending
      <3>2. ClientOk(c)'
        BY <1>8, <1>9, <1>10, <1>11, <3>1 DEF ClientOk
      <3> QED BY Zenon, <1>9, <2>1, <3>2 DEF CallOk, ReplyOk
    <2>2. CASE d # c
      <3>1. client'[d] = client[d] /\ call'[d] = call[d] /\ pending' = pending
        BY Zenon, <1>9, <1>10, <2>2 DEF guestRest
      <3>2. \A h \in GuestIds : Done(h)' <=> Done(h)
        BY <1>10, Zenon DEF Done
      <3>3. Kept(client[d].op) => Kept(client[d].op)'
        BY <1>10, <3>1, Zenon DEF Kept, Request
      <3>4. \A e \in Tasks \ {d} : Sending(e)' => Sending(e) /\ client'[e].op = client[e].op
        BY <1>9 DEF Sending
      <3>5. client[d].stage \in {"ack_gate", "ack_call", "ack_done"} =>
              host'[client[d].op].status \in Decided
        BY <1>10, Zenon DEF AgentInv, ClientOk
      <3> QED BY ZenonT(30), <1>10, <3>1, <3>2, <3>3, <3>4, <3>5, OtherClient
    <2> QED BY <2>1, <2>2
  <1>13. ASSUME NEW g \in GuestIds PROVE AckOk(g)'
    <2> SUFFICES ASSUME ~reattached, operations[g] # Nothing PROVE AckOk(g)'
      BY <1>10, Zenon DEF AckOk
    <2>1. AckOk(g) /\ RecordOk(g)
      BY DEF AgentInv
    <2>2. g[1] = p => g \in ids
      <3> SUFFICES ASSUME g[1] = p PROVE g \in ids
        OBVIOUS
      <3>1. PICK n \in 1 .. MaxChunks : IsPart(g, n)
        BY <2>1, Zenon DEF RecordOk
      <3>2. /\ Request(p) \in Requests /\ n \in 1 .. Request(p).chunks
            /\ g = GuestId(Request(p), n) /\ Request(p).op = p
        BY Zenon, <1>7, <3>1, NothingElse DEF IsPart, RequestOk
      <3>3. CASE Request(p).chunks > 1
        <4>1. retained[p] = ChunkIds(Request(p))
          BY <2>1, <3>3, Zenon DEF RecordOk, Kept
        <4> QED BY <1>4, <3>2, <4>1, PartIds
      <3>4. CASE ~(Request(p).chunks > 1)
        <4>1. retained[p] = {}
          BY <1>6, <3>4, Zenon DEF RetainedOk
        <4> QED BY <1>4, <3>2, <3>4, <4>1 DEF GuestId
      <3> QED BY ZenonT(30), <3>3, <3>4
    <2>3. host'[g[1]].status # "acked"
      BY <1>10, <2>1, Zenon DEF AckOk
    <2>4. ASSUME NEW d \in Tasks, client'[d].op = g[1]
          PROVE  /\ client'[d].stage = "ack_call" => g \in client'[d].ids
                 /\ client'[d].stage # "ack_done"
      <3>1. CASE d = c
        BY <1>9, <2>2, <2>4, <3>1
      <3>2. CASE d # c
        BY <1>9, <2>1, <2>4, <3>2, Zenon DEF AckOk
      <3> QED BY <3>1, <3>2
    <2> QED BY <2>3, <2>4, Zenon DEF AckOk
  <1>14. gate' \in [HostOps -> Tasks \cup {Nothing}] /\ call' \in [Tasks -> Calls]
    BY Zenon, <1>10 DEF AgentInv, DriverTypes, GuestTypes, AcknowledgeOperation
  <1> QED BY Zenon, <1>9, <1>10, <1>12, <1>13, <1>14, ClientStep

\* A new client for the same guest: no call is left, and the derived IDs are
\* forgotten.
LEMMA ReattachStep ==
    ASSUME AgentInv, Reattach
    PROVE  AgentInv'
  <1>1. /\ client' = [c \in Tasks |-> IdleClient] /\ call' = [c \in Tasks |-> IdleCall]
        /\ gate' = [p \in HostOps |-> Nothing] /\ retained' = [p \in HostOps |-> {}]
        /\ reattached' = TRUE /\ host' = host
    BY DEF Reattach
  <1>2. UNCHANGED operations /\ UNCHANGED guestRest
    BY DEF Reattach, guestRest
  <1>3. GuestTypes'
    BY <1>1, <1>2, IdleTypes DEF AgentInv, GuestTypes, guestRest
  <1>4. DriverTypes'
    BY <1>1, IdleTypes DEF AgentInv, DriverTypes
  <1>5. \A p \in HostOps : RequestOk(p)' /\ RetainedOk(p)'
    BY Zenon, <1>1 DEF AgentInv, RequestOk, RetainedOk, Request
  <1>6. \A p \in HostOps : /\ Request(p)' = Request(p) /\ host'[p].status = host[p].status
                           /\ Kept(p)'
    BY <1>1, Zenon DEF Request, Kept
  <1>7. \A p \in HostOps : Request(p) = Nothing => host'[p].status \in {"new", "sent"}
    BY <1>1, Zenon DEF AgentInv, RequestOk
  <1>8. /\ \A g \in GuestIds : PendingOk(g)' /\ RecordOk(g)' /\ RunOk(g)' /\ FedOk(g)'
        /\ \A k \in Generations \X Procs : InputOk(k)'
        /\ OwnersOk' /\ NoOrphanProcess'
    BY Zenon, <1>2, <1>6, <1>7, BoundFrame
  <1>9. \A g \in GuestIds : AckOk(g)'
    BY <1>1, Zenon DEF AckOk
  <1>10. ASSUME NEW d \in Tasks PROVE ClientOk(d)' /\ CallOk(d)' /\ ReplyOk(d)'
    <2>1. client'[d] = IdleClient /\ call'[d].stage = "idle"
      BY <1>1 DEF IdleCall
    <2> QED BY Zenon, <2>1, IdleIsOk
  <1> QED BY <1>3, <1>4, <1>5, <1>8, <1>9, <1>10, Zenon DEF AgentInv

\* The guest forgets IDs of one decided operation.
LEMMA ForgetStep ==
    ASSUME AgentInv, NEW c \in Tasks, client[c].stage = "ack_call",
           Forget(client[c].ids),
           client' = [client EXCEPT ![c].stage = "ack_done"],
           UNCHANGED guestRest, UNCHANGED <<call, host, gate, retained, reattached>>
    PROVE  AgentInv'
  <1>1. client \in [Tasks -> Clients] /\ ClientOk(c) /\ operations \in [GuestIds -> Records \cup {Nothing}]
    BY DEF AgentInv, GuestTypes, DriverTypes
  <1>2. PICK p \in HostOps : p = client[c].op
    BY <1>1 DEF ClientOk
  <1>3. PICK ids : ids = client[c].ids
    OBVIOUS
  <1>4. host[p].status \in Decided /\ (\A g \in ids : g[1] = p) /\ call[c].stage = "idle"
    BY <1>1, <1>2, <1>3 DEF ClientOk
  <1>5. /\ client' \in [Tasks -> Clients] /\ client'[c].stage = "ack_done" /\ client'[c].op = p
        /\ \A d \in Tasks \ {c} : client'[d] = client[d]
    BY <1>1, <1>2 DEF Clients
  <1>6. /\ operations' \in [GuestIds -> Records \cup {Nothing}]
        /\ \A h \in GuestIds : operations'[h] = IF h \in ids THEN Nothing ELSE operations[h]
    BY <1>1, <1>3 DEF Forget
  <1>7. \A h \in GuestIds : h[1] # p => operations'[h] = operations[h]
    BY <1>4, <1>6
  <1>8. \A h \in GuestIds : operations'[h] # Nothing => h \notin ids /\ operations'[h] = operations[h]
    BY <1>6
  <1>9. \A r \in HostOps : host[r].status = "sent" => r # p
    BY <1>4 DEF Decided
  <1>10. \A r \in HostOps : Request(r)' = Request(r) /\ (Kept(r)' <=> Kept(r))
    BY Zenon DEF Request, Kept
  <1>11. ASSUME NEW r \in HostOps, NEW n \in 1 .. MaxChunks, host[r].status = "sent",
                Request(r) \in Requests, n \in 1 .. Request(r).chunks, PartsDone(r, n)
         PROVE  PartsDone(r, n)'
    <2>1. r # p /\ Request(r).op = r /\ Request(r)' = Request(r)
      BY <1>9, <1>10, <1>11, NothingElse DEF AgentInv, RequestOk
    <2>2. Request(r).chunks \in Nat
      BY <1>11, PartIds
    <2>3. \A m \in 1 .. n - 1 : m \in 1 .. Request(r).chunks
      BY <1>11, <2>2
    <2>4. \A m \in 1 .. n - 1 : /\ GuestId(Request(r), m) \in GuestIds
                                /\ GuestId(Request(r), m)[1] = r
      BY <1>11, <2>1, <2>3, PartIds
    <2> QED BY <1>7, <1>11, <2>1, <2>4, Zenon DEF PartsDone, Done
  <1>12. GuestTypes' /\ DriverTypes'
    BY <1>5, <1>6, Zenon DEF AgentInv, GuestTypes, DriverTypes, guestRest
  <1>13. \A r \in HostOps : RequestOk(r)' /\ RetainedOk(r)'
    BY Zenon DEF AgentInv, RequestOk, RetainedOk, Request
  <1>14. ASSUME NEW g \in GuestIds PROVE PendingOk(g)' /\ RecordOk(g)'
    <2>1. PendingOk(g) /\ RecordOk(g) /\ g[1] \in HostOps /\ pending' = pending
          /\ job' = job /\ lock' = lock
      BY OpOfId DEF AgentInv, guestRest
    <2>2. \A n : /\ IsPart(g, n)' <=> IsPart(g, n)
                 /\ Part(Request(g[1]), n)' = Part(Request(g[1]), n)
      BY <1>10, <2>1, Zenon DEF IsPart, Part
    <2>3. ASSUME NEW n \in 1 .. MaxChunks, IsPart(g, n), host[g[1]].status = "sent",
                 PartsDone(g[1], n)
          PROVE  PartsDone(g[1], n)'
      BY Zenon, <1>11, <2>1, <2>3 DEF IsPart
    <2>4. PendingOk(g)'
      <3> SUFFICES ASSUME pending[g] # Nothing PROVE PendingOk(g)'
        BY <2>1, Zenon DEF PendingOk
      <3>1. operations'[g] = Nothing
        BY <1>6, <2>1, Zenon DEF PendingOk
      <3>2. PICK n \in 1 .. MaxChunks : /\ IsPart(g, n) /\ pending[g] = Part(Request(g[1]), n)
                                        /\ PartsDone(g[1], n)
        BY <2>1, Zenon DEF PendingOk
      <3>3. host[g[1]].status = "sent"
        BY <2>1, Zenon DEF PendingOk
      <3>4. IsPart(g, n)' /\ pending[g] = Part(Request(g[1]), n)' /\ PartsDone(g[1], n)'
        BY <2>2, <2>3, <3>2, <3>3, Zenon
      <3> QED BY <1>10, <2>1, <3>1, <3>3, <3>4, Zenon DEF PendingOk
    <2>5. RecordOk(g)'
      <3> SUFFICES ASSUME operations'[g] # Nothing PROVE RecordOk(g)'
        BY Zenon DEF RecordOk
      <3>1. operations'[g] = operations[g] /\ operations[g] # Nothing
        BY <1>8, Zenon
      <3>2. PICK n \in 1 .. MaxChunks : /\ IsPart(g, n)
                                        /\ operations[g].body = Part(Request(g[1]), n)
                                        /\ host[g[1]].status = "sent" => PartsDone(g[1], n)
        BY <2>1, <3>1, Zenon DEF RecordOk
      <3>3. /\ IsPart(g, n)' /\ operations'[g].body = Part(Request(g[1]), n)'
            /\ host[g[1]].status = "sent" => PartsDone(g[1], n)'
        BY <2>2, <2>3, <3>1, <3>2, Zenon
      <3> QED BY <1>10, <2>1, <3>1, <3>3, Zenon DEF RecordOk
    <2> QED BY <2>4, <2>5
  <1>15. ASSUME NEW g \in GuestIds PROVE AckOk(g)'
    <2> SUFFICES ASSUME ~reattached, operations'[g] # Nothing PROVE AckOk(g)'
      BY Zenon DEF AckOk
    <2>1. AckOk(g) /\ operations[g] # Nothing /\ g \notin ids
      BY <1>8, Zenon DEF AgentInv
    <2>2. g[1] # p
      BY <1>2, <1>3, <2>1, Zenon DEF AckOk
    <2>3. \A d \in Tasks : client'[d].op = g[1] => client'[d] = client[d]
      BY <1>5, <2>2, Zenon
    <2> QED BY <2>1, <2>3, Zenon DEF AckOk
  <1>16. ASSUME NEW g \in GuestIds PROVE RunOk(g)' /\ FedOk(g)'
    <2>1. /\ RunOk(g) /\ FedOk(g) /\ g[1] \in HostOps
          /\ job' = job /\ applied' = applied /\ stdio' = stdio
      BY OpOfId DEF AgentInv, guestRest
    <2>2. (Ran(g)' <=> Ran(g)) /\ (Fed(g)' <=> Fed(g))
      BY <2>1, Zenon DEF Ran, Fed, Input, Request
    <2>3. host[g[1]].status \notin Decided => g[1] # p
      BY <1>4
    <2>4. RunOk(g)'
      BY <1>7, <1>8, <2>1, <2>2, <2>3, Zenon DEF RunOk
    <2>5. Done(g)' => Done(g)
      BY <1>8, Zenon DEF Done
    <2>6. FedOk(g)'
      BY <1>10, <2>1, <2>2, <2>5, Zenon DEF FedOk
    <2> QED BY <2>4, <2>6
  <1>17. (\A k \in Generations \X Procs : InputOk(k)') /\ OwnersOk' /\ NoOrphanProcess'
    <2>1. \A k \in Generations \X Procs : InputOk(k)'
      BY <1>10, BoundInput DEF guestRest
    <2> QED BY <2>1, Zenon DEF AgentInv, OwnersOk, NoOrphanProcess, guestRest
  <1>18. ASSUME NEW d \in Tasks PROVE ClientOk(d)' /\ CallOk(d)' /\ ReplyOk(d)'
    <2>1. CASE d = c
      <3>1. ~Sending(c)'
        BY <1>5 DEF Sending
      <3>2. ClientOk(c)'
        BY <1>4, <1>5, <3>1 DEF ClientOk
      <3> QED BY <1>5, <2>1, <3>2 DEF CallOk, ReplyOk
    <2>2. CASE d # c
      <3>1. client'[d] = client[d] /\ call'[d] = call[d] /\ pending' = pending
        BY <1>5, <2>2 DEF guestRest
      <3>2. Sending(d) => client[d].op \in HostOps /\ client[d].op # p
        BY <1>9 DEF AgentInv, ClientOk, Sending
      <3>3. Sending(d) => \A h \in GuestIds : h[1] = client[d].op => (Done(h)' <=> Done(h))
        BY <1>7, <3>2, Zenon DEF Done
      <3>4. Sending(d) /\ Kept(client[d].op) => Kept(client[d].op)'
        BY <3>1, Zenon DEF Kept, Request
      <3>5. \A e \in Tasks \ {d} : Sending(e)' => Sending(e) /\ client'[e].op = client[e].op
        BY <1>5 DEF Sending
      <3>6. client[d].stage \in {"ack_gate", "ack_call", "ack_done"} =>
              host'[client[d].op].status \in Decided
        BY Zenon DEF AgentInv, ClientOk
      <3> QED BY <3>1, <3>3, <3>4, <3>5, <3>6, OtherClient
    <2> QED BY <2>1, <2>2
  <1> QED BY <1>12, <1>13, <1>14, <1>15, <1>16, <1>17, <1>18, Zenon DEF AgentInv

\* The guest's answer to an acknowledgement: all forgotten, or refused.
LEMMA GuestAcknowledgeStep ==
    ASSUME AgentInv, NEW c \in Tasks, GuestAcknowledge(c)
    PROVE  AgentInv'
  <1>1. /\ client[c].stage = "ack_call"
        /\ UNCHANGED guestRest /\ UNCHANGED <<call, host, retained, reattached>>
    BY DEF GuestAcknowledge, guestRest
  <1>2. CASE Acknowledged(client[c].ids)
    <2>1. /\ Forget(client[c].ids) /\ UNCHANGED gate
          /\ client' = [client EXCEPT ![c].stage = "ack_done"]
      BY <1>2, Zenon DEF GuestAcknowledge
    <2> QED BY Zenon, <1>1, <2>1, ForgetStep
  <1>3. CASE ~Acknowledged(client[c].ids)
    <2>1. UNCHANGED operations /\ client' = [client EXCEPT ![c] = IdleClient] /\ Release(c)
      BY <1>3, Zenon DEF GuestAcknowledge
    <2>2. client \in [Tasks -> Clients] /\ call \in [Tasks -> Calls] /\ ClientOk(c)
      BY DEF AgentInv, GuestTypes, DriverTypes
    <2>3. /\ client' \in [Tasks -> Clients] /\ client'[c] = IdleClient
          /\ \A d \in Tasks \ {c} : client'[d] = client[d]
      BY Zenon, <2>1, <2>2, IdleTypes
    <2>4. call'[c].stage = "idle" /\ client'[c].stage = "idle" /\ call' \in [Tasks -> Calls]
      BY <1>1, <2>2, <2>3 DEF IdleClient, ClientOk
    <2>5. ASSUME NEW d \in Tasks PROVE ClientOk(d)' /\ CallOk(d)' /\ ReplyOk(d)'
      <3>1. CASE d = c
        BY Zenon, <2>3, <2>4, <3>1, IdleIsOk
      <3>2. CASE d # c
        <4>1. client'[d] = client[d] /\ call'[d] = call[d] /\ pending' = pending
          BY Zenon, <1>1, <2>3, <3>2 DEF guestRest
        <4>2. \A h \in GuestIds : Done(h)' <=> Done(h)
          BY <2>1, Zenon DEF Done
        <4>3. Kept(client[d].op) => Kept(client[d].op)'
          BY <1>1, <4>1, Zenon DEF Kept, Request
        <4>4. \A e \in Tasks \ {d} : Sending(e)' => Sending(e) /\ client'[e].op = client[e].op
          BY <2>3, <2>4 DEF Sending
        <4>5. client[d].stage \in {"ack_gate", "ack_call", "ack_done"} =>
                host'[client[d].op].status \in Decided
          BY <1>1, Zenon DEF AgentInv, ClientOk
        <4> QED BY ZenonT(30), <1>1, <4>1, <4>2, <4>3, <4>4, <4>5, OtherClient
      <3> QED BY <3>1, <3>2
    <2>6. \A g \in GuestIds : AckOk(g)'
      <3>1. \A d \in Tasks : client'[d].stage \in {"ack_call", "ack_done"} => client'[d] = client[d]
        BY <2>3, <2>4
      <3> QED BY ZenonT(30), <1>1, <2>1, <3>1, AckFrame
    <2>7. gate' \in [HostOps -> Tasks \cup {Nothing}]
      BY <2>1, ReleaseType
    <2> QED BY Zenon, <1>1, <2>1, <2>3, <2>4, <2>5, <2>6, <2>7, ClientStep
  <1> QED BY <1>2, <1>3

\* The client returns from an acknowledgement, and the host records it.
LEMMA FinishAcknowledgeStep ==
    ASSUME AgentInv, NEW c \in Tasks, FinishAcknowledge(c)
    PROVE  AgentInv'
  <1>1. /\ client \in [Tasks -> Clients] /\ ClientOk(c) /\ host \in [HostOps -> Hosts]
        /\ retained \in [HostOps -> SUBSET GuestIds] /\ client[c].stage = "ack_done"
    BY DEF AgentInv, DriverTypes, FinishAcknowledge
  <1>2. PICK p \in HostOps : p = client[c].op
    BY <1>1 DEF ClientOk
  <1>3. host[p].status \in Decided /\ call[c].stage = "idle"
    BY Zenon, <1>1, <1>2 DEF ClientOk
  <1>4. /\ UNCHANGED operations /\ UNCHANGED guestRest /\ call' = call /\ reattached' = reattached
    BY DEF FinishAcknowledge, guestRest, guestVars
  <1>5. /\ client' = [client EXCEPT ![c] = IdleClient]
        /\ host' = [host EXCEPT ![p].status = "acked"]
        /\ retained' = IF retained[p] = client[c].ids THEN [retained EXCEPT ![p] = {}] ELSE retained
    BY <1>2 DEF FinishAcknowledge
  <1>6. /\ client' \in [Tasks -> Clients] /\ client'[c] = IdleClient
        /\ \A d \in Tasks \ {c} : client'[d] = client[d]
    BY <1>1, <1>5, IdleTypes
  <1>7. /\ host' \in [HostOps -> Hosts] /\ host'[p].status = "acked"
        /\ \A r \in HostOps : host'[r].request = host[r].request
        /\ \A r \in HostOps \ {p} : host'[r] = host[r]
    BY <1>1, <1>5 DEF Hosts
  <1>8. /\ retained' \in [HostOps -> SUBSET GuestIds]
        /\ retained'[p] = {} \/ retained'[p] = retained[p]
        /\ \A r \in HostOps \ {p} : retained'[r] = retained[r]
    BY <1>1, <1>5
  <1>9. gate' \in [HostOps -> Tasks \cup {Nothing}]
    BY ReleaseType DEF FinishAcknowledge
  <1>10. \A r \in HostOps : Request(r)' = Request(r)
    BY <1>7, Zenon DEF Request
  <1>11. \A r \in HostOps \ {p} : Kept(r)' <=> Kept(r)
    BY <1>4, <1>8, <1>10, Zenon DEF Kept
  <1>12. \A g \in GuestIds : g[1] = p /\ ~reattached => operations[g] = Nothing
    BY <1>1, <1>2, Zenon DEF AgentInv, AckOk
  <1>13. GuestTypes'
    BY <1>4, Zenon DEF AgentInv, GuestTypes, guestRest
  <1>14. DriverTypes'
    BY <1>4, <1>6, <1>7, <1>8, <1>9, Zenon DEF AgentInv, DriverTypes
  <1>15. ASSUME NEW r \in HostOps PROVE RequestOk(r)' /\ RetainedOk(r)'
    <2>1. RequestOk(r) /\ RetainedOk(r) /\ Request(r)' = Request(r)
      BY <1>10 DEF AgentInv
    <2>2. CASE r = p
      <3>1. host[p].status # "new" /\ host'[p].status # "new"
        BY Zenon, <1>3, <1>7 DEF Decided
      <3>2. RequestOk(r)'
        BY <2>1, <2>2, <3>1, Zenon DEF RequestOk
      <3>3. RetainedOk(r)'
        BY <1>8, <2>1, <2>2, Zenon DEF RetainedOk
      <3> QED BY <3>2, <3>3
    <2>3. CASE r # p
      BY <1>7, <1>8, <2>1, <2>3, Zenon DEF RequestOk, RetainedOk
    <2> QED BY <2>2, <2>3
  <1>16. ASSUME NEW g \in GuestIds
         PROVE  PendingOk(g)' /\ RecordOk(g)' /\ AckOk(g)' /\ RunOk(g)' /\ FedOk(g)'
    <2>1. /\ PendingOk(g) /\ RecordOk(g) /\ AckOk(g) /\ RunOk(g) /\ FedOk(g) /\ g[1] \in HostOps
          /\ Request(g[1])' = Request(g[1])
      BY <1>10, OpOfId DEF AgentInv
    <2>2. /\ pending' = pending /\ job' = job /\ lock' = lock /\ applied' = applied
          /\ stdio' = stdio /\ operations' = operations
      BY <1>4 DEF guestRest
    <2>3. \A n : /\ IsPart(g, n)' <=> IsPart(g, n)
                 /\ Part(Request(g[1]), n)' = Part(Request(g[1]), n)
                 /\ PartsDone(g[1], n)' <=> PartsDone(g[1], n)
      BY <2>1, <2>2, Zenon DEF IsPart, Part, PartsDone, Done
    <2>4. (Done(g)' <=> Done(g)) /\ (Ran(g)' <=> Ran(g)) /\ (Fed(g)' <=> Fed(g))
      BY <2>1, <2>2, Zenon DEF Done, Ran, Fed, Input
    <2>5. \A d \in Tasks : client'[d].stage \in {"ack_call", "ack_done"} => client'[d] = client[d]
      BY <1>6 DEF IdleClient
    <2>6. CASE g[1] = p
      <3>1. pending[g] = Nothing
        <4>1. host[p].status # "sent"
          BY <1>3 DEF Decided
        <4> QED BY <2>1, <2>6, <4>1, Zenon DEF PendingOk
      <3>2. host'[g[1]].status = "acked" /\ "acked" \in Decided
        BY <1>7, <2>6 DEF Decided
      <3>3. operations[g] = Nothing \/ reattached
        BY <1>12, <2>6, Zenon
      <3>4. reattached => Kept(g[1])'
        BY <1>4, Zenon DEF Kept
      <3>5. host'[g[1]].status # "new" /\ host'[g[1]].status # "sent" /\ host'[g[1]].status # "succeeded"
        BY <3>2
      <3>6. PendingOk(g)'
        BY <2>2, <3>1, Zenon DEF PendingOk
      <3>7. RecordOk(g)'
        BY <2>1, <2>2, <2>3, <3>3, <3>4, <3>5, Zenon DEF RecordOk
      <3>8. AckOk(g)'
        BY <1>4, <2>2, <3>3, Zenon DEF AckOk
      <3>9. RunOk(g)'
        BY <2>1, <2>2, <2>4, <3>2, ZenonT(30) DEF RunOk
      <3>10. FedOk(g)'
        <4>1. Request(g[1]) # Nothing /\ Request(g[1]).body.kind = "write" =>
                (Done(g) => Fed(g)) /\ (Ran(g) /\ job[g].result = "ok" => Fed(g))
          BY <2>1, Zenon DEF FedOk
        <4> QED BY <2>1, <2>2, <2>4, <3>5, <4>1 DEF FedOk
      <3> QED BY <3>6, <3>7, <3>8, <3>9, <3>10
    <2>7. CASE g[1] # p
      <3>1. host'[g[1]].status = host[g[1]].status /\ (Kept(g[1])' <=> Kept(g[1]))
        BY <1>7, <1>11, <2>1, <2>7, Zenon
      <3>2. PendingOk(g)'
        BY <2>1, <2>2, <2>3, <3>1, Zenon DEF PendingOk
      <3>3. RecordOk(g)'
        BY <2>1, <2>2, <2>3, <3>1, Zenon DEF RecordOk
      <3>4. AckOk(g)'
        <4> SUFFICES ASSUME ~reattached, operations[g] # Nothing PROVE AckOk(g)'
          BY <1>4, <2>2, Zenon DEF AckOk
        <4>1. ASSUME NEW d \in Tasks, client'[d].op = g[1]
              PROVE  /\ client'[d].stage = "ack_call" => g \in client'[d].ids
                     /\ client'[d].stage # "ack_done"
          <5>1. CASE client'[d].stage \in {"ack_call", "ack_done"}
            BY <2>1, <2>5, <4>1, <5>1, Zenon DEF AckOk
          <5>2. CASE client'[d].stage \notin {"ack_call", "ack_done"}
            BY Zenon, <5>2
          <5> QED BY Zenon, <5>1, <5>2
        <4> QED BY <2>1, <3>1, <4>1, Zenon DEF AckOk
      <3>5. RunOk(g)'
        BY <2>1, <2>2, <2>4, <3>1, Zenon DEF RunOk
      <3>6. FedOk(g)'
        BY <2>1, <2>2, <2>4, <3>1, Zenon DEF FedOk
      <3> QED BY <3>2, <3>3, <3>4, <3>5, <3>6
    <2> QED BY <2>6, <2>7
  <1>17. (\A k \in Generations \X Procs : InputOk(k)') /\ OwnersOk' /\ NoOrphanProcess'
    <2>1. \A k \in Generations \X Procs : InputOk(k)'
      BY <1>4, <1>10, BoundInput DEF guestRest
    <2> QED BY <1>4, <2>1, Zenon DEF AgentInv, OwnersOk, NoOrphanProcess, guestRest
  <1>18. ASSUME NEW d \in Tasks PROVE ClientOk(d)' /\ CallOk(d)' /\ ReplyOk(d)'
    <2>1. CASE d = c
      BY Zenon, <1>3, <1>4, <1>6, <2>1, IdleIsOk
    <2>2. CASE d # c
      <3>1. client'[d] = client[d] /\ call'[d] = call[d] /\ pending' = pending
        BY Zenon, <1>4, <1>6, <2>2 DEF guestRest
      <3>2. Sending(d) => client[d].op \in HostOps \ {p}
        BY Zenon, <1>3 DEF AgentInv, ClientOk, Sending, Decided
      <3>3. \A h \in GuestIds : Done(h)' <=> Done(h)
        BY <1>4, Zenon DEF Done
      <3>4. Sending(d) => /\ host'[client[d].op] = host[client[d].op]
                          /\ Kept(client[d].op) => Kept(client[d].op)'
        <4> SUFFICES ASSUME Sending(d)
                     PROVE  /\ host'[client[d].op] = host[client[d].op]
                            /\ Kept(client[d].op) => Kept(client[d].op)'
          BY Zenon
        <4>1. PICK r \in HostOps \ {p} : r = client[d].op
          BY <3>2
        <4>2. host'[r] = host[r] /\ (Kept(r) => Kept(r)')
          BY <1>7, <1>11, Zenon
        <4> QED BY <3>1, <4>1, <4>2, Zenon DEF Kept, Request
      <3>5. \A e \in Tasks \ {d} : Sending(e)' => Sending(e) /\ client'[e].op = client[e].op
        BY <1>6 DEF Sending, IdleClient
      <3>6. client[d].stage \in {"ack_gate", "ack_call", "ack_done"} =>
              host'[client[d].op].status \in Decided
        <4>1. client[d].stage \in {"ack_gate", "ack_call", "ack_done"} =>
                client[d].op \in HostOps /\ host[client[d].op].status \in Decided
          BY Zenon DEF AgentInv, ClientOk
        <4>2. "acked" \in Decided
          BY DEF Decided
        <4> QED BY <1>7, <4>1, <4>2
      <3> QED BY ZenonT(30), <3>1, <3>3, <3>4, <3>5, <3>6, OtherClient
    <2> QED BY <2>1, <2>2
  <1> QED BY <1>13, <1>14, <1>15, <1>16, <1>17, <1>18, Zenon DEF AgentInv

\* What a client sends is part n of its request (Message).
LEMMA MessageShape ==
    ASSUME NEW q \in Requests, NEW n \in 1 .. q.chunks
    PROVE  LET m == Message(q, n)
           IN  m \in Calls /\ m.stage = "sent" /\ m.id = GuestId(q, n) /\ m.body = Part(q, n)
  <1>1. GuestId(q, n) \in GuestIds
    BY PartIds
  <1>2. Part(q, n) \in Bodies
    BY PartBody
  <1>3. Message(q, n) = [stage |-> "sent", id |-> GuestId(q, n), body |-> Part(q, n), reply |-> "none"]
    BY Zenon DEF Message, Part
  <1> QED BY <1>1, <1>2, <1>3 DEF Calls

\* The invariant of a client that has just sent part n.
LEMMA SentIsOk ==
    ASSUME NEW c \in Tasks, NEW p \in HostOps, NEW q \in Requests, NEW n \in 1 .. q.chunks,
           q.op = p, Request(p)' = q,
           client'[c].stage = "call", client'[c].op = p, client'[c].index = n,
           call'[c] = Message(q, n), PartsDone(p, n)', Kept(p)'
    PROVE  CallOk(c)' /\ ReplyOk(c)'
  <1>1. /\ call'[c].stage = "sent" /\ call'[c].id = GuestId(q, n) /\ call'[c].body = Part(q, n)
    BY ZenonT(30), MessageShape
  <1>2. PICK g \in GuestIds : g = GuestId(q, n)
    BY PartIds
  <1>3. g[1] = p
    BY Zenon, <1>2, PartIds
  <1>4. IsPart(g, n)'
    BY <1>2, <1>3, Zenon DEF IsPart
  <1>5. Part(Request(p), n)' = Part(q, n)
    BY Zenon DEF Part
  <1>6. CallOk(c)'
    <2>1. call'[c].stage # "idle"
      BY <1>1
    <2> QED BY <1>1, <1>2, <1>3, <1>4, <1>5, <2>1, Zenon DEF CallOk
  <1>7. ReplyOk(c)'
    BY Zenon, <1>1 DEF ReplyOk
  <1> QED BY <1>6, <1>7

\* A write under its gate retains its derived IDs and sends its first part.
LEMMA WriteStdinStep ==
    ASSUME AgentInv, NEW c \in Tasks, WriteStdin(c)
    PROVE  AgentInv'
  <1>1. /\ client \in [Tasks -> Clients] /\ call \in [Tasks -> Calls] /\ ClientOk(c)
        /\ retained \in [HostOps -> SUBSET GuestIds] /\ gate \in [HostOps -> Tasks \cup {Nothing}]
        /\ client[c].stage = "gate"
    BY DEF AgentInv, GuestTypes, DriverTypes, WriteStdin
  <1>2. PICK p \in HostOps : p = client[c].op
    BY Zenon, <1>1 DEF ClientOk
  <1>3. Sending(c)
    BY <1>1 DEF Sending
  <1>4. host[p].status = "sent" /\ client[c].request = Request(p)
    BY <1>1, <1>2, <1>3, Zenon DEF ClientOk
  <1>5. Request(p) # Nothing /\ Request(p).op = p /\ RetainedOk(p)
    BY Zenon, <1>4 DEF AgentInv, RequestOk
  <1>6. PICK q \in Requests : q = Request(p)
    BY <1>5 DEF AgentInv, DriverTypes, Hosts, Request
  <1>7. q = client[c].request /\ q.op = p
    BY Zenon, <1>4, <1>5, <1>6
  <1>8. q.chunks \in Nat /\ 1 \in 1 .. q.chunks
    BY RequestsAssumption, GuestAssumption
  <1>9. ~(q.chunks > 1 /\ retained[q.op] \notin {{}, ChunkIds(q)})
    BY <1>5, <1>6, <1>7 DEF RetainedOk
  <1>10. /\ call' = [call EXCEPT ![c] = Message(q, 1)]
         /\ retained' = IF q.chunks > 1 THEN [retained EXCEPT ![p] = ChunkIds(q)] ELSE retained
    BY <1>7, <1>9, Zenon DEF WriteStdin
  <1>11. /\ client' = [client EXCEPT ![c].stage = "call", ![c].index = 1]
         /\ gate' = [gate EXCEPT ![p] = c]
         /\ UNCHANGED operations /\ UNCHANGED guestRest /\ UNCHANGED <<host, reattached>>
    BY <1>7 DEF WriteStdin, guestRest
  <1>12. /\ client' \in [Tasks -> Clients]
         /\ client'[c].stage = "call" /\ client'[c].op = p /\ client'[c].index = 1
         /\ client'[c].request = q
         /\ \A d \in Tasks \ {c} : client'[d] = client[d]
    <2>1. PICK m : m = [client EXCEPT ![c].stage = "call"]
      BY Zenon
    <2>2. /\ m \in [Tasks -> Clients] /\ m[c].stage = "call" /\ m[c].op = p
          /\ m[c].request = q /\ \A d \in Tasks \ {c} : m[d] = client[d]
      BY <1>1, <1>2, <1>7, <2>1 DEF Clients
    <2>3. client' = [m EXCEPT ![c].index = 1]
      BY <1>11, <2>1
    <2> QED BY <2>2, <2>3 DEF Clients
  <1>13. /\ call' \in [Tasks -> Calls] /\ call'[c] = Message(q, 1)
         /\ \A d \in Tasks \ {c} : call'[d] = call[d]
    BY Zenon, <1>1, <1>8, <1>10, MessageShape
  <1>14. /\ retained' \in [HostOps -> SUBSET GuestIds]
         /\ q.chunks > 1 => retained'[p] = ChunkIds(q)
         /\ ~(q.chunks > 1) => retained'[p] = retained[p]
         /\ \A r \in HostOps \ {p} : retained'[r] = retained[r]
    BY <1>1, <1>10, ChunksAreIds
  <1>15. gate' \in [HostOps -> Tasks \cup {Nothing}]
    BY <1>1, <1>11
  <1>16. \A r \in HostOps : Request(r)' = Request(r) /\ host'[r].status = host[r].status
    BY <1>11, Zenon DEF Request
  <1>17. Kept(p)' /\ \A r \in HostOps : Kept(r) => Kept(r)'
    <2>1. Kept(p)'
      BY <1>6, <1>14, <1>16, Zenon DEF Kept
    <2>2. \A r \in HostOps \ {p} : Kept(r) => Kept(r)'
      BY <1>11, <1>14, <1>16, Zenon DEF Kept
    <2> QED BY <2>1, <2>2, Zenon
  <1>18. ASSUME NEW r \in HostOps PROVE RequestOk(r)' /\ RetainedOk(r)'
    <2>1. RequestOk(r) /\ RetainedOk(r) /\ Request(r)' = Request(r) /\ host'[r].status = host[r].status
      BY <1>16 DEF AgentInv
    <2>2. RequestOk(r)'
      BY <2>1, Zenon DEF RequestOk
    <2>3. CASE r = p
      BY <1>5, <1>6, <1>14, <2>1, <2>2, <2>3, Zenon DEF RetainedOk
    <2>4. CASE r # p
      BY <1>14, <2>1, <2>2, <2>4, Zenon DEF RetainedOk
    <2> QED BY Zenon, <2>3, <2>4
  <1>19. GuestTypes' /\ DriverTypes'
    BY <1>11, <1>12, <1>13, <1>14, <1>15, Zenon DEF AgentInv, GuestTypes, DriverTypes, guestRest
  <1>20. \A r \in HostOps : Request(r) = Nothing => host'[r].status \in {"new", "sent"}
    BY <1>16, Zenon DEF AgentInv, RequestOk
  <1>21. /\ \A g \in GuestIds : PendingOk(g)' /\ RecordOk(g)' /\ RunOk(g)' /\ FedOk(g)'
         /\ \A k \in Generations \X Procs : InputOk(k)'
         /\ OwnersOk' /\ NoOrphanProcess'
    BY <1>11, <1>16, <1>17, <1>20, BoundFrame
  <1>22. \A g \in GuestIds : AckOk(g)'
    <2>1. \A d \in Tasks : client'[d].stage \in {"ack_call", "ack_done"} => client'[d] = client[d]
      BY <1>12
    <2> QED BY Zenon, <1>11, <2>1, AckFrame
  <1>23. ASSUME NEW d \in Tasks PROVE ClientOk(d)' /\ CallOk(d)' /\ ReplyOk(d)'
    <2>1. CASE d = c
      <3>1. PartsDone(p, 1)'
        BY DEF PartsDone
      <3>2. CallOk(c)' /\ ReplyOk(c)'
        BY ZenonT(30), <1>6, <1>7, <1>8, <1>12, <1>13, <1>16, <1>17, <3>1, SentIsOk
      <3>3. \A e \in Tasks \ {c} : Sending(e)' => client'[e].op # p
        BY <1>1, <1>2, <1>3, <1>12, Zenon DEF ClientOk, Sending
      <3>4. ClientOk(c)'
        <4>1. host'[p].status = "sent" /\ Request(p)' = q
          BY <1>4, <1>6, <1>16
        <4> QED BY ZenonT(30), <1>12, <3>3, <4>1 DEF ClientOk
      <3> QED BY <2>1, <3>2, <3>4
    <2>2. CASE d # c
      <3>1. client'[d] = client[d] /\ call'[d] = call[d] /\ pending' = pending
        BY <1>11, <1>12, <1>13, <2>2 DEF guestRest
      <3>2. \A h \in GuestIds : Done(h)' <=> Done(h)
        BY <1>11, Zenon DEF Done
      <3>3. Sending(d) => client[d].op \in HostOps
        BY Zenon DEF AgentInv, ClientOk, Sending
      <3>4. Sending(d) /\ Kept(client[d].op) => Kept(client[d].op)'
        <4> SUFFICES ASSUME Sending(d), Kept(client[d].op) PROVE Kept(client[d].op)'
          BY Zenon
        <4>1. PICK r \in HostOps : r = client[d].op
          BY <3>3
        <4>2. Kept(r)'
          BY <1>17, <4>1, Zenon
        <4> QED BY <3>1, <4>1, <4>2, Zenon DEF Kept, Request
      <3>5. \A e \in Tasks \ {d} : Sending(e)' => Sending(e) /\ client'[e].op = client[e].op
        BY <1>2, <1>3, <1>12, Zenon DEF Sending
      <3>6. client[d].stage \in {"ack_gate", "ack_call", "ack_done"} =>
              host'[client[d].op].status \in Decided
        BY <1>11, Zenon DEF AgentInv, ClientOk
      <3> QED BY Zenon, <1>11, <3>1, <3>2, <3>4, <3>5, <3>6, OtherClient
    <2> QED BY <2>1, <2>2
  <1> QED BY <1>18, <1>19, <1>21, <1>22, <1>23, Zenon DEF AgentInv

\* The host dispatches an operation, for the first time or again.
LEMMA BeginStep ==
    ASSUME AgentInv, NEW c \in Tasks, NEW q \in Requests, Begin(c, q)
    PROVE  AgentInv'
  <1>1. /\ client \in [Tasks -> Clients] /\ call \in [Tasks -> Calls] /\ ClientOk(c)
        /\ host \in [HostOps -> Hosts] /\ client[c].stage = "idle" /\ call[c].stage = "idle"
    BY DEF AgentInv, GuestTypes, DriverTypes, Begin, ClientOk
  <1>2. PICK p \in HostOps : p = q.op
    BY RequestsAssumption
  <1>3. \/ host[p].status = "new"
        \/ host[p].status = "sent" /\ Request(p) = q /\ ~Running(p)
    BY <1>2 DEF Begin, Request
  <1>4. /\ host' = [host EXCEPT ![p] = [status |-> "sent", request |-> q]]
        /\ UNCHANGED operations /\ UNCHANGED guestRest
        /\ UNCHANGED <<gate, retained, reattached>>
    BY <1>2 DEF Begin, guestRest
  <1>5. /\ host' \in [HostOps -> Hosts] /\ host'[p].status = "sent" /\ Request(p)' = q
        /\ \A r \in HostOps \ {p} : host'[r] = host[r]
    BY <1>1, <1>4 DEF Hosts, Request
  <1>6. RequestOk(p) /\ q # Nothing
    BY NothingElse DEF AgentInv
  <1>7. \A r \in HostOps : Request(r) # Nothing =>
               Request(r)' = Request(r) /\ host'[r].status = host[r].status
    <2>1. Request(p) # Nothing => Request(p) = q /\ host[p].status = "sent"
      BY Zenon, <1>3, <1>6 DEF RequestOk
    <2>2. \A r \in HostOps \ {p} : Request(r)' = Request(r) /\ host'[r].status = host[r].status
      BY <1>5, Zenon DEF Request
    <2> QED BY <1>5, <2>1, <2>2
  <1>8. \A r \in HostOps : Request(r) = Nothing => host'[r].status \in {"new", "sent"}
    BY ZenonT(30), <1>5 DEF AgentInv, RequestOk, Request
  <1>9. \A r \in HostOps : Request(r) # Nothing => (Kept(r) => Kept(r)')
    BY <1>4, <1>7, Zenon DEF Kept
  <1>10. /\ \A g \in GuestIds : PendingOk(g)' /\ RecordOk(g)' /\ RunOk(g)' /\ FedOk(g)'
         /\ \A k \in Generations \X Procs : InputOk(k)'
         /\ OwnersOk' /\ NoOrphanProcess'
    BY <1>4, <1>7, <1>8, <1>9, BoundFrame
  <1>11. ASSUME NEW r \in HostOps PROVE RequestOk(r)' /\ RetainedOk(r)'
    <2>1. RequestOk(r) /\ RetainedOk(r)
      BY DEF AgentInv
    <2>2. CASE r = p
      <3>1. RequestOk(r)'
        BY Zenon, <1>2, <1>5, <1>6, <2>2 DEF RequestOk
      <3>2. RetainedOk(r)'
        BY <1>4, <1>7, <2>1, <2>2, Zenon DEF RetainedOk
      <3> QED BY <3>1, <3>2
    <2>3. CASE r # p
      <3>1. host'[r] = host[r]
        BY <1>5, <2>3
      <3> QED BY <1>4, <2>1, <3>1, Zenon DEF RequestOk, RetainedOk, Request
    <2> QED BY <2>2, <2>3
  <1>12. q.chunks \in Nat /\ 1 \in 1 .. q.chunks
    BY RequestsAssumption, GuestAssumption
  <1>13. q.body.kind # "write" => ~(q.chunks > 1)
    BY RequestsAssumption
  <1>14. PICK begun \in Clients : /\ begun.stage = IF q.body.kind = "write" THEN "gate" ELSE "call"
                                  /\ begun.request = q /\ begun.op = p
                                  /\ q.body.kind # "write" => begun.index = 1
                                  /\ client' = [client EXCEPT ![c] = begun]
    <2>1. CASE q.body.kind = "write"
      <3>1. PICK b : b = [IdleClient EXCEPT !.stage = "gate", !.request = q, !.op = q.op]
        OBVIOUS
      <3>2. b \in Clients /\ b.stage = "gate" /\ b.request = q /\ b.op = p
        BY Zenon, <1>2, <3>1, IdleTypes DEF Clients
      <3>3. client' = [client EXCEPT ![c] = b]
        BY <2>1, <3>1 DEF Begin
      <3> QED BY Zenon, <2>1, <3>2, <3>3
    <2>2. CASE q.body.kind # "write"
      <3>1. PICK b : b = [IdleClient EXCEPT !.stage = "call", !.request = q, !.op = q.op, !.index = 1]
        BY Zenon
      <3>2. b \in Clients /\ b.stage = "call" /\ b.request = q /\ b.op = p /\ b.index = 1
        <4>1. b = [stage |-> "call", request |-> q, op |-> p, index |-> 1, ids |-> {}]
          BY ZenonT(30), <1>2, <3>1 DEF IdleClient
        <4> QED BY <4>1 DEF Clients
      <3>3. client' = [client EXCEPT ![c] = b]
        BY <2>2, <3>1 DEF Begin
      <3> QED BY Zenon, <2>2, <3>2, <3>3
    <2> QED BY <2>1, <2>2
  <1>15. /\ client' \in [Tasks -> Clients] /\ client'[c] = begun
         /\ \A d \in Tasks \ {c} : client'[d] = client[d]
    BY Zenon, <1>1, <1>14
  <1>16. /\ call' \in [Tasks -> Calls]
         /\ q.body.kind = "write" => call'[c] = call[c]
         /\ q.body.kind # "write" => call'[c] = Message(q, 1)
         /\ \A d \in Tasks \ {c} : call'[d] = call[d]
    <2>1. CASE q.body.kind = "write"
      <3>1. call' = call
        BY <2>1 DEF Begin
      <3> QED BY Zenon, <1>1, <2>1, <3>1
    <2>2. CASE q.body.kind # "write"
      <3>1. call' = [call EXCEPT ![c] = Message(q, 1)]
        BY <2>2 DEF Begin
      <3> QED BY ZenonT(30), <1>1, <1>12, <2>2, <3>1, MessageShape
    <2> QED BY ZenonT(30), <2>1, <2>2
  <1>17. GuestTypes' /\ DriverTypes'
    BY <1>4, <1>5, <1>15, <1>16, Zenon DEF AgentInv, GuestTypes, DriverTypes, guestRest
  <1>18. \A g \in GuestIds : AckOk(g)'
    <2>1. \A d \in Tasks : client'[d].stage \in {"ack_call", "ack_done"} => client'[d] = client[d]
      BY ZenonT(30), <1>14, <1>15
    <2>2. \A r \in HostOps : host'[r].status = "acked" => host[r].status = "acked"
      BY ZenonT(30), <1>5
    <2> QED BY ZenonT(30), <1>4, <2>1, <2>2, AckFrame
  <1>19. \A d \in Tasks \ {c} : Sending(d) => client[d].op # p
    <2> SUFFICES ASSUME NEW d \in Tasks \ {c}, Sending(d), client[d].op = p PROVE FALSE
      OBVIOUS
    <2>1. host[p].status = "sent"
      BY ZenonT(30) DEF AgentInv, ClientOk
    <2>2. ~Running(p)
      BY Zenon, <1>3, <2>1
    <2> QED BY Zenon, <2>2 DEF Running, Sending
  <1>20. ASSUME NEW d \in Tasks PROVE ClientOk(d)' /\ CallOk(d)' /\ ReplyOk(d)'
    <2>1. CASE d = c
      <3>1. client'[c].stage = IF q.body.kind = "write" THEN "gate" ELSE "call"
        BY <1>14, <1>15
      <3>2. client'[c].request = q /\ client'[c].op = p
        BY <1>14, <1>15
      <3>3. \A e \in Tasks \ {c} : Sending(e)' => client'[e].op # p
        BY <1>15, <1>19, Zenon DEF Sending
      <3>4. ClientOk(c)'
        BY ZenonT(30), <1>1, <1>5, <1>16, <3>1, <3>2, <3>3 DEF ClientOk
      <3>5. CallOk(c)' /\ ReplyOk(c)'
        <4>1. CASE q.body.kind = "write"
          BY ZenonT(30), <3>1, <4>1 DEF CallOk, ReplyOk
        <4>2. CASE q.body.kind # "write"
          <5>1. client'[c].stage = "call" /\ client'[c].index = 1 /\ call'[c] = Message(q, 1)
            BY Zenon, <1>14, <1>15, <1>16, <3>1, <4>2
          <5>2. Kept(p)'
            BY <1>5, <1>13, <4>2, Zenon DEF Kept
          <5>3. PartsDone(p, 1)'
            BY DEF PartsDone
          <5> QED BY ZenonT(30), <1>2, <1>5, <1>12, <3>2, <5>1, <5>2, <5>3, SentIsOk
        <4> QED BY ZenonT(30), <4>1, <4>2
      <3> QED BY <2>1, <3>4, <3>5
    <2>2. CASE d # c
      <3>1. client'[d] = client[d] /\ call'[d] = call[d] /\ pending' = pending
        BY Zenon, <1>4, <1>15, <1>16, <2>2 DEF guestRest
      <3>2. \A h \in GuestIds : Done(h)' <=> Done(h)
        BY <1>4, Zenon DEF Done
      <3>3. Sending(d) => client[d].op \in HostOps \ {p}
        BY Zenon, <1>19, <2>2 DEF AgentInv, ClientOk, Sending
      <3>4. Sending(d) => /\ host'[client[d].op] = host[client[d].op]
                          /\ Kept(client[d].op) => Kept(client[d].op)'
        <4> SUFFICES ASSUME Sending(d)
                     PROVE  /\ host'[client[d].op] = host[client[d].op]
                            /\ Kept(client[d].op) => Kept(client[d].op)'
          BY Zenon
        <4>1. host'[client[d].op] = host[client[d].op]
          BY <1>5, <3>3, Zenon
        <4> QED BY <1>4, <3>1, <4>1, Zenon DEF Kept, Request
      <3>5. Sending(d) => \A e \in Tasks \ {d} : Sending(e)' =>
                              \/ Sending(e) /\ client'[e].op = client[e].op
                              \/ client'[e].op # client[d].op
        <4>1. client'[c].op = p
          BY ZenonT(30), <1>14, <1>15
        <4> QED BY <1>15, <3>3, <4>1, Zenon DEF Sending
      <3>6. client[d].stage \in {"ack_gate", "ack_call", "ack_done"} =>
              host'[client[d].op].status \in Decided
        <4>1. client[d].stage \in {"ack_gate", "ack_call", "ack_done"} =>
                client[d].op \in HostOps /\ host[client[d].op].status \in Decided
          BY ZenonT(30) DEF AgentInv, ClientOk
        <4>2. host[p].status \notin Decided
          BY <1>3 DEF Decided
        <4> QED BY ZenonT(30), <1>5, <4>1, <4>2
      <3> QED BY ZenonT(30), <3>1, <3>2, <3>4, <3>5, <3>6, OtherClient
    <2> QED BY <2>1, <2>2
  <1> QED BY <1>10, <1>11, <1>17, <1>18, <1>20, ZenonT(30) DEF AgentInv

\* What a client knows when the guest has answered: p, q, i and h are its
\* operation, request, part and guest ID.
Received(c, p, q, i, h) ==
    /\ p \in HostOps /\ q \in Requests /\ q = Request(p) /\ q.op = p
    /\ host[p].status = "sent"
    /\ q.chunks \in Nat /\ i \in 1 .. q.chunks /\ h \in GuestIds /\ h = GuestId(q, i)
    /\ PartsDone(p, i) /\ Kept(p)
    /\ pending[h] = Nothing
    /\ call[c].reply = "ok" => Done(h)
    /\ q.body.kind # "exec" /\ Done(h) => call[c].reply = "ok"
    /\ \A d \in Tasks \ {c} : Sending(d) => client[d].op # p

\* What is known when a part was answered.
LEMMA ReceiveFacts ==
    ASSUME AgentInv, NEW c \in Tasks, client[c].stage = "call", call[c].stage = "replied",
           NEW p, NEW q, NEW i, NEW h,
           p = client[c].op, q = client[c].request, i = client[c].index, h = call[c].id
    PROVE  Received(c, p, q, i, h)
  <1>1. ClientOk(c) /\ CallOk(c) /\ ReplyOk(c) /\ Sending(c)
    BY DEF AgentInv, Sending
  <1>2. p \in HostOps /\ host[p].status = "sent" /\ Request(p) \in Requests /\ Request(p).op = p
        /\ call[c].body.kind = Request(p).body.kind /\ h[1] = p /\ h \in GuestIds
        /\ IsPart(h, i)
    BY Zenon, CallFacts
  <1>3. q = Request(p) /\ \A d \in Tasks \ {c} : Sending(d) => client[d].op # p
    BY <1>1, Zenon DEF ClientOk
  <1>4. PartsDone(p, i) /\ Kept(p)
    BY <1>1, Zenon DEF CallOk
  <1>5. i \in 1 .. q.chunks /\ h = GuestId(q, i)
    BY ZenonT(30), <1>2, <1>3 DEF IsPart
  <1>6. q.chunks \in Nat
    BY ZenonT(30), <1>2, <1>3, <1>5, PartIds
  <1>7. /\ pending[h] = Nothing
        /\ call[c].reply = "ok" => Done(h)
        /\ q.body.kind # "exec" /\ Done(h) => call[c].reply = "ok"
    BY ZenonT(30), <1>1, <1>2, <1>3 DEF ReplyOk
  <1> QED BY ZenonT(30), <1>2, <1>3, <1>4, <1>5, <1>6, <1>7 DEF Received

\* The next part is sent once the one before it has succeeded.
LEMMA ReceiveNextStep ==
    ASSUME AgentInv, NEW c \in Tasks, Receive(c),
           call[c].reply = "ok", client[c].index < client[c].request.chunks
    PROVE  AgentInv'
  <1>1. /\ client[c].stage = "call" /\ call[c].stage = "replied"
        /\ client \in [Tasks -> Clients] /\ call \in [Tasks -> Calls]
    BY DEF Receive, AgentInv, GuestTypes, DriverTypes
  <1>2. PICK p, q, i, h :
          p = client[c].op /\ q = client[c].request /\ i = client[c].index /\ h = call[c].id
    BY Zenon
  <1>3. /\ p \in HostOps /\ q \in Requests /\ q = Request(p) /\ q.op = p
        /\ host[p].status = "sent"
        /\ q.chunks \in Nat /\ i \in 1 .. q.chunks /\ h = GuestId(q, i)
        /\ PartsDone(p, i) /\ Kept(p) /\ Done(h)
        /\ \A d \in Tasks \ {c} : Sending(d) => client[d].op # p
    <2>1. Received(c, p, q, i, h)
      BY Zenon, <1>1, <1>2, ReceiveFacts
    <2> QED BY Zenon, <2>1 DEF Received
  <1>4. i < q.chunks /\ i + 1 \in 1 .. q.chunks
    BY <1>2, <1>3
  <1>5. PICK n \in 1 .. q.chunks : n = i + 1
    BY Zenon, <1>4
  <1>6. /\ call' = [call EXCEPT ![c] = Message(q, n)]
        /\ client' = [client EXCEPT ![c].index = n]
        /\ UNCHANGED <<gate, host>>
    BY <1>2, <1>4, <1>5, Zenon DEF Receive
  <1>7. UNCHANGED operations /\ UNCHANGED guestRest /\ UNCHANGED <<host, retained, reattached>>
    BY <1>6 DEF Receive, guestRest
  <1>8. /\ client' \in [Tasks -> Clients]
        /\ client'[c].stage = "call" /\ client'[c].op = p /\ client'[c].index = n
        /\ client'[c].request = q
        /\ \A d \in Tasks \ {c} : client'[d] = client[d]
    <2>1. n \in Int
      BY <1>3, <1>5
    <2> QED BY Zenon, <1>1, <1>2, <1>6, <2>1 DEF Clients
  <1>9. /\ call' \in [Tasks -> Calls] /\ call'[c] = Message(q, n)
        /\ \A d \in Tasks \ {c} : call'[d] = call[d]
    <2>1. PICK m \in Calls : m = Message(q, n)
      BY Zenon, <1>3, <1>5, MessageShape
    <2> QED BY <1>1, <1>6, <2>1
  <1>10. Request(p)' = q /\ Kept(p)' /\ host'[p].status = "sent"
    BY <1>3, <1>7, Zenon DEF Request, Kept
  <1>11. PartsDone(p, n)'
    <2>1. \A m \in 1 .. n - 1 : m \in 1 .. i - 1 \/ m = i
      BY <1>3, <1>5
    <2>2. \A m \in 1 .. n - 1 : Done(GuestId(q, m))
      BY <1>3, <2>1, Zenon DEF PartsDone
    <2>3. \A m \in 1 .. n - 1 : Done(GuestId(q, m))'
      BY <1>7, <2>2, Zenon DEF Done
    <2> QED BY <1>10, <2>3, Zenon DEF PartsDone
  <1>12. ASSUME NEW d \in Tasks PROVE ClientOk(d)' /\ CallOk(d)' /\ ReplyOk(d)'
    <2>1. CASE d = c
      <3>1. CallOk(c)' /\ ReplyOk(c)'
        BY Zenon, <1>3, <1>8, <1>9, <1>10, <1>11, SentIsOk
      <3>2. \A e \in Tasks \ {c} : Sending(e)' => client'[e].op # p
        BY <1>3, <1>8, Zenon DEF Sending
      <3>3. ClientOk(c)'
        BY ZenonT(30), <1>3, <1>8, <1>10, <3>2 DEF ClientOk
      <3> QED BY <2>1, <3>1, <3>3
    <2>2. CASE d # c
      <3>1. client'[d] = client[d] /\ call'[d] = call[d] /\ pending' = pending
        BY Zenon, <1>7, <1>8, <1>9, <2>2 DEF guestRest
      <3>2. \A g \in GuestIds : Done(g)' <=> Done(g)
        BY <1>7, Zenon DEF Done
      <3>3. Kept(client[d].op) => Kept(client[d].op)'
        BY <1>7, <3>1, Zenon DEF Kept, Request
      <3>4. \A e \in Tasks \ {d} : Sending(e)' => Sending(e) /\ client'[e].op = client[e].op
        BY Zenon, <1>1, <1>2, <1>8 DEF Sending
      <3>5. client[d].stage \in {"ack_gate", "ack_call", "ack_done"} =>
              host'[client[d].op].status \in Decided
        BY <1>7, Zenon DEF AgentInv, ClientOk
      <3> QED BY ZenonT(30), <1>7, <3>1, <3>2, <3>3, <3>4, <3>5, OtherClient
    <2> QED BY Zenon, <2>1, <2>2
  <1>13. \A g \in GuestIds : AckOk(g)'
    <2>1. \A d \in Tasks : client'[d].stage \in {"ack_call", "ack_done"} => client'[d] = client[d]
      BY Zenon, <1>8
    <2> QED BY ZenonT(30), <1>7, <2>1, AckFrame
  <1>14. gate' \in [HostOps -> Tasks \cup {Nothing}]
    BY <1>6, Zenon DEF AgentInv, DriverTypes
  <1> QED BY Zenon, <1>7, <1>8, <1>9, <1>12, <1>13, <1>14, ClientStep

\* The host decides an operation once nothing of it is pending in the guest, and
\* as a success only when every part of it has succeeded.
LEMMA ReceiveLastStep ==
    ASSUME AgentInv, NEW c \in Tasks, Receive(c),
           ~(call[c].reply = "ok" /\ client[c].index < client[c].request.chunks)
    PROVE  AgentInv'
  <1>1. /\ client[c].stage = "call" /\ call[c].stage = "replied"
        /\ client \in [Tasks -> Clients] /\ call \in [Tasks -> Calls] /\ host \in [HostOps -> Hosts]
    BY DEF Receive, AgentInv, GuestTypes, DriverTypes
  <1>2. PICK p, q, i, h :
          p = client[c].op /\ q = client[c].request /\ i = client[c].index /\ h = call[c].id
    BY Zenon
  <1>3. /\ p \in HostOps /\ q \in Requests /\ q = Request(p) /\ q.op = p
        /\ host[p].status = "sent"
        /\ q.chunks \in Nat /\ i \in 1 .. q.chunks /\ h \in GuestIds /\ h = GuestId(q, i)
        /\ PartsDone(p, i) /\ pending[h] = Nothing
        /\ call[c].reply = "ok" => Done(h)
        /\ q.body.kind # "exec" /\ Done(h) => call[c].reply = "ok"
        /\ \A d \in Tasks \ {c} : Sending(d) => client[d].op # p
    <2>1. Received(c, p, q, i, h)
      BY Zenon, <1>1, <1>2, ReceiveFacts
    <2> QED BY Zenon, <2>1 DEF Received
  <1>4. PICK v \in {"succeeded", "failed"} : v = "succeeded" <=> call[c].reply = "ok"
    <2>1. CASE call[c].reply = "ok"
      BY ZenonT(30), <2>1
    <2>2. CASE call[c].reply # "ok"
      BY ZenonT(30), <2>2
    <2> QED BY Zenon, <2>1, <2>2
  <1>5. v = IF call[c].reply = "ok" THEN "succeeded" ELSE "failed"
    BY Zenon, <1>4
  <1>6. /\ call' = [call EXCEPT ![c] = IdleCall]
        /\ client' = [client EXCEPT ![c] = IdleClient]
        /\ Release(c)
        /\ host' = [host EXCEPT ![p].status = v]
    BY <1>2, <1>3, <1>5, ZenonT(30) DEF Receive
  <1>7. UNCHANGED operations /\ UNCHANGED guestRest /\ UNCHANGED <<retained, reattached>>
    BY DEF Receive, guestRest
  <1>8. /\ client' \in [Tasks -> Clients] /\ call' \in [Tasks -> Calls]
        /\ client'[c] = IdleClient /\ call'[c] = IdleCall
        /\ \A d \in Tasks \ {c} : client'[d] = client[d] /\ call'[d] = call[d]
    BY <1>1, <1>6, IdleTypes
  <1>9. call'[c].stage = "idle" /\ client'[c].stage = "idle"
    <2>1. IdleCall.stage = "idle" /\ IdleClient.stage = "idle"
      BY DEF IdleCall, IdleClient
    <2> QED BY Zenon, <1>8, <2>1
  <1>10. /\ host' \in [HostOps -> Hosts] /\ host'[p].status = v
         /\ \A r \in HostOps : host'[r].request = host[r].request
         /\ \A r \in HostOps \ {p} : host'[r] = host[r]
    BY <1>1, <1>3, <1>6 DEF Hosts
  <1>11. \A r \in HostOps : Request(r)' = Request(r) /\ (Kept(r)' <=> Kept(r))
    <2>1. \A r \in HostOps : Request(r)' = Request(r)
      BY <1>10, Zenon DEF Request
    <2> QED BY <1>7, <2>1, Zenon DEF Kept
  <1>12. ASSUME NEW g \in GuestIds, g[1] = p PROVE pending[g] = Nothing
    <2> SUFFICES ASSUME pending[g] # Nothing PROVE FALSE
      BY ZenonT(30)
    <2>1. PendingOk(g)
      BY Zenon DEF AgentInv
    <2>2. PICK n \in 1 .. MaxChunks : IsPart(g, n) /\ PartsDone(p, n) /\ operations[g] = Nothing
      BY <1>12, <2>1, Zenon DEF PendingOk
    <2>3. n \in 1 .. q.chunks /\ g = GuestId(q, n)
      BY <1>3, <1>12, <2>2 DEF IsPart
    <2>4. n # i
      BY ZenonT(30), <1>3, <2>3
    <2>5. CASE n < i
      <3>1. n \in 1 .. i - 1
        BY <1>3, <2>3, <2>5
      <3>2. Done(g)
        BY <1>3, <2>3, <3>1, Zenon DEF PartsDone
      <3> QED BY <2>2, <3>2 DEF Done
    <2>6. CASE i < n
      <3>1. i \in 1 .. n - 1 /\ i < q.chunks /\ q.chunks > 1
        BY <1>3, <2>3, <2>6
      <3>2. Done(h)
        BY <1>3, <2>2, <3>1, Zenon DEF PartsDone
      <3>3. q.body.kind = "write"
        BY <1>3, <3>1, RequestsAssumption
      <3>4. call[c].reply = "ok"
        BY Zenon, <1>3, <3>2, <3>3
      <3> QED BY ZenonT(30), <1>2, <3>1, <3>4
    <2> QED BY <1>3, <2>3, <2>4, <2>5, <2>6
  <1>13. v = "succeeded" => \A n \in 1 .. q.chunks : Done(GuestId(q, n))
    <2> SUFFICES ASSUME v = "succeeded", NEW n \in 1 .. q.chunks PROVE Done(GuestId(q, n))
      BY ZenonT(30)
    <2>1. call[c].reply = "ok" /\ Done(h)
      BY ZenonT(30), <1>3, <1>4
    <2>2. ~(i < q.chunks)
      BY ZenonT(30), <1>2, <2>1
    <2>3. n \in 1 .. i - 1 \/ n = i
      BY <1>3, <2>2
    <2> QED BY <1>3, <2>1, <2>3, Zenon DEF PartsDone
  <1>14. v # "new" /\ v # "sent" /\ v # "acked" /\ v \in Decided
    BY DEF Decided
  <1>15. GuestTypes'
    BY <1>7, <1>8, Zenon DEF AgentInv, GuestTypes, guestRest
  <1>16. DriverTypes'
    <2>1. gate' \in [HostOps -> Tasks \cup {Nothing}]
      BY <1>6, ReleaseType
    <2> QED BY <1>7, <1>8, <1>10, <2>1, Zenon DEF AgentInv, DriverTypes
  <1>17. ASSUME NEW r \in HostOps PROVE RequestOk(r)' /\ RetainedOk(r)'
    <2>1. RequestOk(r) /\ RetainedOk(r) /\ Request(r)' = Request(r)
      BY Zenon, <1>11 DEF AgentInv
    <2>2. RetainedOk(r)'
      BY <1>7, <2>1, Zenon DEF RetainedOk
    <2>3. CASE r = p
      <3>1. host'[r].status # "new" /\ Request(r) # Nothing
        BY Zenon, <1>3, <1>10, <1>14, <2>3, NothingElse
      <3> QED BY <2>1, <2>2, <3>1, Zenon DEF RequestOk
    <2>4. CASE r # p
      BY <1>10, <2>1, <2>2, <2>4, Zenon DEF RequestOk
    <2> QED BY <2>3, <2>4
  <1>18. ASSUME NEW g \in GuestIds
         PROVE  PendingOk(g)' /\ RecordOk(g)' /\ RunOk(g)' /\ FedOk(g)'
    <2>1. /\ PendingOk(g) /\ RecordOk(g) /\ RunOk(g) /\ FedOk(g) /\ g[1] \in HostOps
          /\ Request(g[1])' = Request(g[1]) /\ (Kept(g[1])' <=> Kept(g[1]))
      BY ZenonT(30), <1>11, OpOfId DEF AgentInv
    <2>2. /\ pending' = pending /\ job' = job /\ lock' = lock /\ applied' = applied
          /\ stdio' = stdio /\ operations' = operations
      BY Zenon, <1>7 DEF guestRest
    <2>3. \A n : /\ IsPart(g, n)' <=> IsPart(g, n)
                 /\ Part(Request(g[1]), n)' = Part(Request(g[1]), n)
                 /\ PartsDone(g[1], n)' <=> PartsDone(g[1], n)
      BY <2>1, <2>2, Zenon DEF IsPart, Part, PartsDone, Done
    <2>4. (Done(g)' <=> Done(g)) /\ (Ran(g)' <=> Ran(g)) /\ (Fed(g)' <=> Fed(g))
      BY <2>1, <2>2, Zenon DEF Done, Ran, Fed, Input
    <2>5. CASE g[1] = p
      <3>1. host'[g[1]].status = v
        BY <1>10, <2>5
      <3>2. PendingOk(g)'
        BY <1>12, <2>2, <2>5, Zenon DEF PendingOk
      <3>3. RecordOk(g)'
        BY <1>14, <2>1, <2>2, <2>3, <3>1, Zenon DEF RecordOk
      <3>4. RunOk(g)'
        BY <1>14, <2>1, <2>2, <2>4, <3>1, Zenon DEF RunOk
      <3>5. FedOk(g)'
        <4> SUFFICES ASSUME Request(g[1]) # Nothing, Request(g[1]).body.kind = "write"
                     PROVE  FedOk(g)'
          BY <2>1, Zenon DEF FedOk
        <4>1. (Done(g) => Fed(g)) /\ (Ran(g) /\ job[g].result = "ok" => Fed(g))
          BY <2>1, Zenon DEF FedOk
        <4>2. ASSUME NEW n \in 1 .. Request(g[1]).chunks, g = GuestId(Request(g[1]), n),
                     v = "succeeded"
              PROVE  Fed(g)
          BY ZenonT(30), <1>3, <1>13, <2>5, <4>1, <4>2
        <4> QED BY <2>1, <2>2, <2>4, <3>1, <4>1, <4>2, Zenon DEF FedOk
      <3> QED BY ZenonT(30), <3>2, <3>3, <3>4, <3>5
    <2>6. CASE g[1] # p
      <3>1. host'[g[1]].status = host[g[1]].status
        BY <1>10, <2>1, <2>6, Zenon
      <3>2. PendingOk(g)'
        BY <2>1, <2>2, <2>3, <3>1, Zenon DEF PendingOk
      <3>3. RecordOk(g)'
        BY <2>1, <2>2, <2>3, <3>1, Zenon DEF RecordOk
      <3>4. RunOk(g)'
        BY <2>1, <2>2, <2>4, <3>1, Zenon DEF RunOk
      <3>5. FedOk(g)'
        BY <2>1, <2>2, <2>4, <3>1, Zenon DEF FedOk
      <3> QED BY Zenon, <3>2, <3>3, <3>4, <3>5
    <2> QED BY ZenonT(30), <2>5, <2>6
  <1>19. \A g \in GuestIds : AckOk(g)'
    <2>1. \A d \in Tasks : client'[d].stage \in {"ack_call", "ack_done"} => client'[d] = client[d]
      BY <1>8, <1>9
    <2>2. \A r \in HostOps : host'[r].status = "acked" => host[r].status = "acked"
      BY <1>10, <1>14
    <2> QED BY ZenonT(30), <1>7, <2>1, <2>2, AckFrame
  <1>20. (\A k \in Generations \X Procs : InputOk(k)') /\ OwnersOk' /\ NoOrphanProcess'
    <2>1. \A k \in Generations \X Procs : InputOk(k)'
      BY ZenonT(30), <1>7, <1>11, BoundInput DEF guestRest
    <2> QED BY <1>7, <2>1, Zenon DEF AgentInv, OwnersOk, NoOrphanProcess, guestRest
  <1>21. ASSUME NEW d \in Tasks PROVE ClientOk(d)' /\ CallOk(d)' /\ ReplyOk(d)'
    <2>1. CASE d = c
      BY Zenon, <1>8, <1>9, <2>1, IdleIsOk
    <2>2. CASE d # c
      <3>1. client'[d] = client[d] /\ call'[d] = call[d] /\ pending' = pending
        BY Zenon, <1>7, <1>8, <2>2 DEF guestRest
      <3>2. \A g \in GuestIds : Done(g)' <=> Done(g)
        BY <1>7, Zenon DEF Done
      <3>3. Sending(d) => client[d].op \in HostOps \ {p}
        BY Zenon, <1>3, <2>2 DEF AgentInv, ClientOk, Sending
      <3>4. Sending(d) => /\ host'[client[d].op] = host[client[d].op]
                          /\ Kept(client[d].op) => Kept(client[d].op)'
        <4> SUFFICES ASSUME Sending(d)
                     PROVE  /\ host'[client[d].op] = host[client[d].op]
                            /\ Kept(client[d].op) => Kept(client[d].op)'
          BY Zenon
        <4>1. host'[client[d].op] = host[client[d].op]
          BY <1>10, <3>3, Zenon
        <4> QED BY <1>7, <3>1, <4>1, Zenon DEF Kept, Request
      <3>5. \A e \in Tasks \ {d} : Sending(e)' => Sending(e) /\ client'[e].op = client[e].op
        BY <1>8, <1>9 DEF Sending
      <3>6. client[d].stage \in {"ack_gate", "ack_call", "ack_done"} =>
              host'[client[d].op].status \in Decided
        <4>1. client[d].stage \in {"ack_gate", "ack_call", "ack_done"} =>
                client[d].op \in HostOps /\ host[client[d].op].status \in Decided
          BY ZenonT(30) DEF AgentInv, ClientOk
        <4>2. host[p].status \notin Decided
          BY Zenon, <1>3 DEF Decided
        <4> QED BY <1>10, <4>1, <4>2
      <3> QED BY ZenonT(30), <3>1, <3>2, <3>4, <3>5, <3>6, OtherClient
    <2> QED BY <2>1, <2>2
  <1> QED BY <1>15, <1>16, <1>17, <1>18, <1>19, <1>20, <1>21, Zenon DEF AgentInv

-----------------------------------------------------------------------------
(* The invariant.                                                            *)

\* It holds of a fresh guest and a fresh client.
LEMMA AgentInvInit == AgentInit => AgentInv
  <1> SUFFICES ASSUME AgentInit PROVE AgentInv
    OBVIOUS
  <1>1. /\ operations = [g \in GuestIds |-> Nothing] /\ pending = [g \in GuestIds |-> Nothing]
        /\ lock = Nothing /\ box = Nothing /\ live = {} /\ job = [g \in GuestIds |-> Nothing]
        /\ stdio = [k \in Generations \X Procs |-> NewStdio]
        /\ call = [t \in Tasks |-> IdleCall] /\ applied = [g \in GuestIds |-> 0]
        /\ host = [p \in HostOps |-> [status |-> "new", request |-> Nothing]]
        /\ client = [c \in Tasks |-> IdleClient] /\ gate = [p \in HostOps |-> Nothing]
        /\ retained = [p \in HostOps |-> {}] /\ reattached = FALSE
    BY DEF AgentInit, GuestInit
  <1>2. NewStdio \in Stdios /\ NewStdio.fed = << >>
    BY DEF NewStdio, Stdios
  <1>3. GuestTypes
    BY ZenonT(30), <1>1, <1>2, IdleTypes DEF GuestTypes
  <1>4. [status |-> "new", request |-> Nothing] \in Hosts
    BY DEF Hosts
  <1>5. DriverTypes
    BY ZenonT(30), <1>1, <1>4, IdleTypes DEF DriverTypes
  <1>6. \A p \in HostOps : RequestOk(p) /\ RetainedOk(p)
    BY <1>1 DEF RequestOk, RetainedOk, Request
  <1>7. \A c \in Tasks : client[c].stage = "idle" /\ call[c].stage = "idle"
    BY Zenon, <1>1 DEF IdleClient, IdleCall
  <1>8. \A c \in Tasks : ClientOk(c) /\ CallOk(c) /\ ReplyOk(c)
    BY Zenon, <1>7 DEF ClientOk, CallOk, ReplyOk, Sending
  <1>9. ASSUME NEW g \in GuestIds
        PROVE  PendingOk(g) /\ RecordOk(g) /\ AckOk(g) /\ RunOk(g) /\ FedOk(g)
    <2>1. /\ operations[g] = Nothing /\ pending[g] = Nothing /\ job[g] = Nothing /\ applied[g] = 0
          /\ Request(g[1]) = Nothing
      BY Zenon, <1>1, OpOfId DEF Request
    <2>2. ~Ran(g) /\ ~(applied[g] > 0)
      BY <2>1 DEF Ran
    <2> QED BY <2>1, <2>2, Zenon DEF PendingOk, RecordOk, AckOk, RunOk, FedOk
  <1>10. \A k \in Generations \X Procs : InputOk(k)
    <2>1. \A k \in Generations \X Procs : DOMAIN stdio[k].fed = {}
      BY <1>1, <1>2
    <2> QED BY <2>1, Zenon DEF InputOk
  <1>11. OwnersOk
    BY <1>1 DEF OwnersOk
  <1>12. NoOrphanProcess
    BY Zenon, <1>1 DEF NoOrphanProcess
  <1> QED BY <1>3, <1>5, <1>6, <1>8, <1>9, <1>10, <1>11, <1>12, Zenon DEF AgentInv

\* Every step of the guest, of the driver client and of the host keeps it.
LEMMA AgentInvNext == AgentInv /\ [AgentNext]_agentVars => AgentInv'
  <1> SUFFICES ASSUME AgentInv, [AgentNext]_agentVars PROVE AgentInv'
    OBVIOUS
  <1>1. CASE ExecutorStep /\ UNCHANGED driverVars
    <2>1. ASSUME NEW t \in Tasks, Lookup(t) \/ Replay(t) \/ Join(t) \/ Exhausted(t) \/ Claim(t)
                                  \/ ClaimStdin(t) \/ RunSync(t)
          PROVE  AgentInv'
      BY <1>1, <2>1, LookupStep, ReplayStep, JoinStep, ExhaustedStep, ClaimStep, ClaimStdinStep,
         RunSyncStep, Zenon
    <2>2. CASE Run
      BY <1>1, <2>2, RunStep
    <2>3. ASSUME NEW g \in GuestIds, StdinTurn(g) \/ StdinDone(g) PROVE AgentInv'
      BY <1>1, <2>3, StdinTurnStep, StdinDoneStep, Zenon
    <2>4. CASE ShutdownRun
      BY <1>1, <2>4, ShutdownRunStep
    <2> QED BY <1>1, <2>1, <2>2, <2>3, <2>4, Zenon DEF ExecutorStep
  <1>2. CASE GuestEnvironment /\ UNCHANGED driverVars
    BY <1>2, ObserveStep, ShutdownBeginStep, ExitStep, Zenon DEF GuestEnvironment
  <1>3. CASE DriverStep
    <2>1. ASSUME NEW c \in Tasks, Receive(c) PROVE AgentInv'
      BY <2>1, ReceiveNextStep, ReceiveLastStep, Zenon
    <2> QED BY <1>3, <2>1, WriteStdinStep, AcknowledgeOperationStep, GuestAcknowledgeStep,
               FinishAcknowledgeStep, Zenon DEF DriverStep
  <1>4. CASE HostStep
    BY <1>4, BeginStep, BeginAcknowledgeStep, Zenon DEF HostStep
  <1>5. ASSUME NEW c \in Tasks, Cancel(c) PROVE AgentInv'
    BY <1>5, CancelStep
  <1>6. CASE Reattach
    BY <1>6, ReattachStep
  <1>7. CASE UNCHANGED agentVars
    <2>1. /\ UNCHANGED <<operations, pending, lock, stdio, job, call, applied>>
          /\ UNCHANGED driverVars /\ live' = live /\ box' = box /\ shutdown' = shutdown
      BY <1>7 DEF agentVars, guestVars
    <2>2. Covered(live, box) /\ box \in Boxes \cup {Nothing}
      BY CoveredIsEnough DEF AgentInv, GuestTypes
    <2>3. Covered(live, box)'
      BY <2>1, <2>2 DEF Covered, Owned
    <2> QED BY <2>1, <2>2, <2>3, BoxStep
  <1> QED BY <1>1, <1>2, <1>3, <1>4, <1>5, <1>6, <1>7, Zenon DEF AgentNext

\* AgentInv holds of every reachable state.
THEOREM AgentInvHolds == AgentSpec => []AgentInv
  BY AgentInvInit, AgentInvNext, PTL DEF AgentSpec

-----------------------------------------------------------------------------
(* The properties.                                                           *)

\* Every process the kernel runs belongs to the container record, unless the
\* shutdown has reported that it failed (ForceStopAll, DeleteNew, ShutdownRun).
THEOREM NoOrphanProcessHolds == AgentSpec => []NoOrphanProcess
  <1>1. AgentInv => NoOrphanProcess
    BY Zenon DEF AgentInv
  <1> QED BY <1>1, AgentInvHolds, PTL

\* An operation the host knows to be acknowledged has no entry in the guest's
\* journal under any of its IDs, as long as the client that retained the
\* derived ones was not replaced (acknowledge_operation).
THEOREM AcknowledgedLeavesNothingHolds == AgentSpec => []AcknowledgedLeavesNothing
  <1>1. AgentInv => AcknowledgedLeavesNothing
    <2> SUFFICES ASSUME AgentInv, NEW p \in HostOps, host[p].status = "acked", ~reattached,
                        NEW i \in 0 .. MaxChunks
                 PROVE  operations[<<p, i>>] = Nothing /\ pending[<<p, i>>] = Nothing
      BY Zenon DEF AcknowledgedLeavesNothing
    <2>0. <<p, i>> \in GuestIds
      BY DEF GuestIds
    <2>1. PICK g \in GuestIds : g = <<p, i>> /\ g[1] = p
      BY <2>0
    <2>2. operations[g] = Nothing
      BY <2>1, Zenon DEF AgentInv, AckOk
    <2>3. host[g[1]].status # "sent"
      BY <2>1
    <2>4. pending[g] = Nothing
      BY <2>3, Zenon DEF AgentInv, PendingOk
    <2> QED BY <2>1, <2>2, <2>4
  <1> QED BY <1>1, AgentInvHolds, PTL

\* The input of a process from one write is a prefix of its parts, in order and
\* without repetition, and all of them once the host was told that the write
\* succeeded, whatever was cancelled, repeated, joined or replayed (write_stdin).
THEOREM InputIsExactHolds == AgentSpec => []InputIsExact
  <1>1. AgentInv => InputIsExact
    <2> SUFFICES ASSUME AgentInv PROVE InputIsExact
      OBVIOUS
    <2> SUFFICES ASSUME NEW q \in Requests, q = host[q.op].request, q.body.kind = "write"
                 PROVE  LET fed == stdio[StdioOf(q.body)].fed
                            mine == {a \in DOMAIN fed : fed[a][1] = q.op}
                        IN  /\ \A a \in mine : \E i \in 1 .. q.chunks :
                                 /\ fed[a] = GuestId(q, i)
                                 /\ i > 1 => \E b \in mine : b < a /\ fed[b] = GuestId(q, i - 1)
                            /\ \A a, b \in mine : fed[a] = fed[b] => a = b
                            /\ host[q.op].status = "succeeded" =>
                                 \A i \in 1 .. q.chunks : \E a \in mine : fed[a] = GuestId(q, i)
      BY Zenon DEF InputIsExact
    <2> DEFINE fed == stdio[StdioOf(q.body)].fed
               mine == {a \in DOMAIN fed : fed[a][1] = q.op}
    <2>0. fed = stdio[StdioOf(q.body)].fed /\ mine = {a \in DOMAIN fed : fed[a][1] = q.op}
      OBVIOUS
    <2> HIDE DEF fed, mine
    <2>1. PICK p \in HostOps : p = q.op
      BY RequestsAssumption
    <2>2. q.chunks \in Nat /\ 1 \in 1 .. q.chunks
      BY RequestsAssumption, GuestAssumption
    <2>3. PICK k \in Generations \X Procs : k = StdioOf(q.body)
      BY <2>2, PartBody
    <2>4. InputOk(k) /\ Request(p) = q /\ fed = stdio[k].fed
      BY ZenonT(30), <2>0, <2>1, <2>3 DEF AgentInv, Request
    <2>5. ASSUME NEW a \in mine
          PROVE  \E i \in 1 .. q.chunks :
                   /\ fed[a] = GuestId(q, i)
                   /\ i > 1 => \E b \in mine : b < a /\ fed[b] = GuestId(q, i - 1)
      <3>1. a \in DOMAIN fed
        BY ZenonT(30), <2>0
      <3>2. PICK g : g = fed[a] /\ g[1] = p
        BY <2>0, <2>1
      <3>3. PlaceOk(k, a, g)
        BY <2>4, <3>1, <3>2, Zenon DEF InputOk
      <3>4. PICK n \in 1 .. MaxChunks :
              /\ IsPart(g, n)
              /\ n > 1 => \E b \in DOMAIN stdio[k].fed :
                            b < a /\ stdio[k].fed[b] = GuestId(Request(g[1]), n - 1)
        BY <3>3, Zenon DEF PlaceOk
      <3>5. n \in 1 .. q.chunks /\ g = GuestId(q, n)
        BY ZenonT(30), <2>4, <3>2, <3>4 DEF IsPart
      <3>6. n > 1 => \E b \in mine : b < a /\ fed[b] = GuestId(q, n - 1)
        <4> SUFFICES ASSUME n > 1 PROVE \E b \in mine : b < a /\ fed[b] = GuestId(q, n - 1)
          OBVIOUS
        <4>1. PICK b \in DOMAIN fed : b < a /\ fed[b] = GuestId(q, n - 1)
          BY <2>4, <3>2, <3>4, Zenon
        <4>2. n - 1 \in 1 .. q.chunks
          BY <2>2, <3>5
        <4>3. fed[b][1] = q.op
          BY Zenon, <4>1, <4>2, PartIds
        <4> QED BY <2>0, <4>1, <4>3
      <3> QED BY ZenonT(30), <3>2, <3>5, <3>6
    <2>6. \A a, b \in mine : fed[a] = fed[b] => a = b
      <3>1. mine \subseteq DOMAIN fed
        BY Zenon, <2>0
      <3> QED BY <2>4, <3>1, Zenon DEF InputOk
    <2>7. ASSUME host[q.op].status = "succeeded", NEW i \in 1 .. q.chunks
          PROVE  \E a \in mine : fed[a] = GuestId(q, i)
      <3>1. PICK g \in GuestIds : g = GuestId(q, i) /\ g[1] = p
        BY <2>1, PartIds
      <3>2. FedOk(g) /\ Request(g[1]) = q /\ q # Nothing
        BY Zenon, <2>4, <3>1, NothingElse DEF AgentInv
      <3>3. Fed(g)
        BY <2>1, <2>7, <3>1, <3>2, Zenon DEF FedOk
      <3>4. Input(g[1]) = fed
        BY <2>0, <3>2, Zenon DEF Input
      <3>5. PICK a \in DOMAIN fed : fed[a] = g
        BY <3>3, <3>4, Zenon DEF Fed
      <3> QED BY Zenon, <2>0, <2>1, <3>1, <3>5
    <2> QED BY <2>5, <2>6, <2>7, Zenon DEF fed, mine
  <1> QED BY <1>1, AgentInvHolds, PTL

-----------------------------------------------------------------------------
(* AgentSpec implements ReplayContract.                                      *)

\* What is remembered of one operation ID (Memory).
Remembered(g) ==
    IF operations[g] # Nothing THEN operations[g].outcome
    ELSE IF job[g] # Nothing /\ job[g].result # "none" THEN job[g].result
    ELSE IF applied[g] > 0 THEN "released" ELSE "none"

\* Memory is what is remembered of each.
LEMMA MemoryIs ==
    /\ Memory = [g \in GuestIds |-> Remembered(g)]
    /\ Memory' = [g \in GuestIds |-> Remembered(g)']
BY Zenon DEF Memory, Remembered

\* What an operation ID is remembered by depends on its own entries only.
LEMMA MemoryFrame ==
    ASSUME NEW g \in GuestIds, operations'[g] = operations[g], job'[g] = job[g],
           applied'[g] = applied[g]
    PROVE  Memory'[g] = Memory[g]
  <1>1. Remembered(g)' = Remembered(g)
    BY Zenon DEF Remembered
  <1> QED BY <1>1, MemoryIs

\* A step that touches neither journal nor jobs is not seen in the contract.
LEMMA MemoryStays ==
    ASSUME UNCHANGED <<operations, job, applied>>
    PROVE  UNCHANGED <<Memory, applied>>
BY Zenon DEF Memory

\* An undecided operation that is neither recorded nor run is carried out: the
\* contract's Execute.
LEMMA ExecuteOnce ==
    ASSUME AgentInv, NEW g \in GuestIds, NEW outcome \in {"ok", "error"},
           operations[g] = Nothing, ~Ran(g), host[g[1]].status = "sent",
           \A h \in GuestIds \ {g} : operations'[h] = operations[h] /\ job'[h] = job[h],
           applied' = [applied EXCEPT ![g] = @ + 1],
           Remembered(g)' = outcome
    PROVE  Contract!Next
  <1>1. applied \in [GuestIds -> Nat] /\ RunOk(g)
    BY Zenon DEF AgentInv, GuestTypes
  <1>2. ~(applied[g] > 0)
    BY Zenon, <1>1 DEF RunOk, Decided
  <1>3. Memory[g] = "none"
    <2>1. Remembered(g) = "none"
      BY <1>2, Zenon DEF Remembered, Ran
    <2> QED BY <2>1, MemoryIs
  <1>4. \A h \in GuestIds \ {g} : Memory'[h] = Memory[h]
    <2>1. \A h \in GuestIds \ {g} : applied'[h] = applied[h]
      BY ZenonT(30), <1>1
    <2> QED BY <2>1, MemoryFrame, Zenon
  <1>5. Memory'[g] = outcome
    BY Zenon, MemoryIs
  <1>6. Memory' = [Memory EXCEPT ![g] = outcome]
    BY <1>4, <1>5, MemoryIs
  <1> QED BY Zenon, <1>3, <1>6 DEF Contract!Next, Contract!Execute

\* The detached owner of a lifecycle operation runs it.
LEMMA RunExecutes == ASSUME AgentInv, Run PROVE Contract!Next
  <1>1. PICK g : g = lock
    OBVIOUS
  <1>2. g \in GuestIds /\ pending[g] # Nothing /\ pending[g].kind \notin StdinKinds
    BY <1>1 DEF Run, AgentInv, GuestTypes, OwnersOk
  <1>3. PICK s \in Handler(pending[g]) : Carry(s) /\ Complete(g, s.ok)
    BY <1>1 DEF Run, Outcomes
  <1>4. pending[g] \in Bodies /\ operations \in [GuestIds -> Records \cup {Nothing}]
    BY <1>2 DEF AgentInv, GuestTypes
  <1>5. box \in Boxes \cup {Nothing} /\ Covered(live, box)
    BY CoveredIsEnough DEF AgentInv, GuestTypes
  <1>6. s.ok \in {"ok", "error"}
    BY Zenon, <1>2, <1>3, <1>4, <1>5, HandlerSound DEF Sound
  <1>7. PendingOk(g)
    BY <1>2 DEF AgentInv
  <1>8. operations[g] = Nothing /\ job[g] = Nothing /\ host[g[1]].status = "sent"
    BY <1>2, <1>7, Zenon DEF PendingOk
  <1>9. ~Ran(g)
    BY <1>8 DEF Ran
  <1>10. PICK o \in {"ok", "error"} : o = s.ok
    BY <1>6
  <1>11. PICK entry : entry = [body |-> pending[g], outcome |-> o]
    BY Zenon
  <1>12. operations' = [operations EXCEPT ![g] = entry]
    BY Zenon, <1>3, <1>10, <1>11 DEF Complete
  <1>13. entry \in Records /\ entry.outcome = o
    BY Zenon, <1>4, <1>11 DEF Records
  <1>14. /\ operations'[g] # Nothing /\ operations'[g].outcome = o
         /\ \A h \in GuestIds \ {g} : operations'[h] = operations[h]
    BY <1>2, <1>4, <1>12, <1>13, NothingElse
  <1>15. Remembered(g)' = o
    BY <1>14, Zenon DEF Remembered
  <1>16. job' = job /\ applied' = [applied EXCEPT ![g] = @ + 1]
    BY <1>1 DEF Run
  <1> QED BY Zenon, <1>2, <1>8, <1>9, <1>14, <1>15, <1>16, ExecuteOnce

\* Signals and resizes run at once.
LEMMA RunSyncExecutes == ASSUME AgentInv, NEW t \in Tasks, RunSync(t) PROVE Contract!Next
  <1>1. call[t].stage # "idle" /\ operations[call[t].id] = Nothing /\ pending[call[t].id] = Nothing
        /\ call[t].body.kind \in SyncKinds
    BY Zenon DEF RunSync, Unseen
  <1>2. PICK g \in GuestIds : g = call[t].id /\ host[g[1]].status = "sent"
    <2>1. call[t].id \in GuestIds /\ call[t].id[1] = client[t].op
          /\ host[client[t].op].status = "sent"
      BY Zenon, <1>1, CallFacts
    <2>2. host[call[t].id[1]].status = "sent"
      BY Zenon, <2>1
    <2> QED BY Zenon, <2>1, <2>2
  <1>3. PICK r \in Bodies : r = call[t].body
    BY Zenon, <1>1, CallFacts
  <1>4. r.kind \notin StdinKinds
    BY ZenonT(30), <1>1, <1>3 DEF SyncKinds, StdinKinds
  <1>5. PICK s \in Handler(r) :
          operations' = [operations EXCEPT ![g] = [body |-> r, outcome |-> s.ok]]
    BY ZenonT(30), <1>2, <1>3 DEF RunSync, Outcomes
  <1>6. box \in Boxes \cup {Nothing} /\ Covered(live, box)
    BY CoveredIsEnough DEF AgentInv, GuestTypes
  <1>7. PICK o \in {"ok", "error"} : o = s.ok
    BY <1>4, <1>5, <1>6, HandlerSound DEF Sound
  <1>8. PICK entry : entry = [body |-> r, outcome |-> o]
    BY Zenon
  <1>9. entry \in Records /\ entry.outcome = o
    BY <1>8 DEF Records
  <1>10. operations \in [GuestIds -> Records \cup {Nothing}]
    BY DEF AgentInv, GuestTypes
  <1>11. /\ operations'[g] # Nothing /\ operations'[g].outcome = o
         /\ \A h \in GuestIds \ {g} : operations'[h] = operations[h]
    BY Zenon, <1>5, <1>7, <1>8, <1>9, <1>10, NothingElse
  <1>12. Remembered(g)' = o
    BY <1>11, Zenon DEF Remembered
  <1>13. job' = job /\ applied' = [applied EXCEPT ![g] = @ + 1]
    BY Zenon, <1>2 DEF RunSync
  <1>14. job[g] = Nothing
    BY <1>1, <1>2, ZenonT(30) DEF AgentInv, OwnersOk
  <1>15. ~Ran(g)
    BY <1>14 DEF Ran
  <1> QED BY ZenonT(30), <1>1, <1>2, <1>11, <1>12, <1>13, <1>15, ExecuteOnce

\* A claimed stdin operation waits for its turn, or has failed already.
LEMMA ClaimStdinExecutes ==
    ASSUME AgentInv, NEW t \in Tasks, ClaimStdin(t)
    PROVE  Contract!Next \/ UNCHANGED <<Memory, applied>>
  <1>1. call[t].stage # "idle" /\ operations[call[t].id] = Nothing /\ pending[call[t].id] = Nothing
    BY Zenon DEF ClaimStdin, Unseen
  <1>2. PICK g \in GuestIds : g = call[t].id /\ host[g[1]].status = "sent"
    <2>1. call[t].id \in GuestIds /\ call[t].id[1] = client[t].op
          /\ host[client[t].op].status = "sent"
      BY Zenon, <1>1, CallFacts
    <2>2. host[call[t].id[1]].status = "sent"
      BY Zenon, <2>1
    <2> QED BY Zenon, <2>1, <2>2
  <1>3. job[g] = Nothing
    BY <1>1, <1>2, ZenonT(30) DEF AgentInv, OwnersOk
  <1>4. ~Ran(g)
    BY <1>3 DEF Ran
  <1>5. operations' = operations
    BY DEF ClaimStdin
  <1>6. job \in [GuestIds -> Jobs \cup {Nothing}]
    BY DEF AgentInv, GuestTypes
  <1>7. CASE applied' = applied
    <2>1. /\ job'[g] # Nothing /\ \A h \in GuestIds \ {g} : job'[h] = job[h]
          /\ \/ job'[g].result = "none"
             \/ job'[g].result = "error" /\ applied'[g] = applied[g] + 1
      BY Zenon, <1>2, ClaimStdinShape
    <2>2. applied[g] \in Nat
      BY Zenon DEF AgentInv, GuestTypes
    <2>3. job'[g].result = "none"
      BY <1>7, <2>1, <2>2
    <2>4. Remembered(g)' = Remembered(g)
      BY <1>1, <1>2, <1>3, <1>5, <1>7, <2>3, Zenon DEF Remembered
    <2>5. \A h \in GuestIds \ {g} : Remembered(h)' = Remembered(h)
      BY <1>5, <1>7, <2>1, Zenon DEF Remembered
    <2>6. \A h \in GuestIds : Remembered(h)' = Remembered(h)
      BY <2>4, <2>5, Zenon
    <2>7. Memory' = Memory
      BY <2>6, MemoryIs
    <2> QED BY <1>7, <2>7
  <1>8. CASE applied' # applied
    <2>1. /\ job' = [job EXCEPT ![g] = [ticket |-> -1, result |-> "error"]]
          /\ applied' = [applied EXCEPT ![g] = @ + 1]
      BY <1>2, <1>8, Zenon DEF ClaimStdin
    <2>2. PICK failed : failed = [ticket |-> -1, result |-> "error"]
      BY Zenon
    <2>3. failed \in Jobs /\ failed.result = "error"
      BY <2>2 DEF Jobs
    <2>4. /\ job'[g] # Nothing /\ job'[g].result = "error"
          /\ \A h \in GuestIds \ {g} : job'[h] = job[h]
      BY Zenon, <1>6, <2>1, <2>2, <2>3, NothingElse
    <2>5. Remembered(g)' = "error"
      <3>1. job'[g].result # "none" /\ operations'[g] = Nothing
        BY <1>1, <1>2, <1>5, <2>4
      <3> QED BY <2>4, <3>1, Zenon DEF Remembered
    <2>6. PICK o \in {"ok", "error"} : o = "error"
      OBVIOUS
    <2>7. Remembered(g)' = o
      BY <2>5, <2>6
    <2> QED BY Zenon, <1>1, <1>2, <1>4, <1>5, <2>1, <2>4, <2>7, ExecuteOnce
  <1> QED BY <1>7, <1>8

\* A stdin operation is carried out at its turn.
LEMMA StdinTurnExecutes == ASSUME AgentInv, NEW g \in GuestIds, StdinTurn(g) PROVE Contract!Next
  <1>1. /\ pending[g] # Nothing /\ job[g] # Nothing /\ job[g].result = "none"
        /\ operations' = operations /\ applied' = [applied EXCEPT ![g] = @ + 1]
    BY DEF StdinTurn
  <1>2. PendingOk(g) /\ pending[g] \in Bodies /\ job \in [GuestIds -> Jobs \cup {Nothing}]
    BY <1>1 DEF AgentInv, GuestTypes
  <1>3. operations[g] = Nothing /\ host[g[1]].status = "sent"
    BY <1>1, <1>2, Zenon DEF PendingOk
  <1>4. ~Ran(g)
    BY ZenonT(30), <1>1 DEF Ran
  <1>5. PICK k \in Generations \X Procs : k = StdioOf(pending[g])
    BY ZenonT(30), <1>2 DEF Bodies, StdioOf
  <1>6. /\ job' \in [GuestIds -> Jobs \cup {Nothing}]
        /\ job'[g] # Nothing /\ job'[g].result # "none"
        /\ \A h \in GuestIds \ {g} : job'[h] = job[h]
    BY Zenon, <1>5, TurnShape
  <1>7. PICK o \in {"ok", "error"} : o = job'[g].result
    BY Zenon, <1>6 DEF Jobs
  <1>8. Remembered(g)' = o
    BY <1>1, <1>3, <1>6, <1>7, Zenon DEF Remembered
  <1> QED BY ZenonT(30), <1>1, <1>3, <1>4, <1>6, <1>8, ExecuteOnce

\* Recording the result of a stdin operation does not change it.
LEMMA StdinDoneStays ==
    ASSUME AgentInv, NEW g \in GuestIds, StdinDone(g)
    PROVE  UNCHANGED <<Memory, applied>>
  <1>1. /\ job[g] # Nothing /\ job[g].result # "none" /\ Complete(g, job[g].result)
        /\ job' = [job EXCEPT ![g] = Nothing] /\ applied' = applied
    BY Zenon DEF StdinDone
  <1>2. /\ operations \in [GuestIds -> Records \cup {Nothing}] /\ pending[g] \in Bodies \cup {Nothing}
        /\ job \in [GuestIds -> Jobs \cup {Nothing}] /\ pending[g] # Nothing /\ PendingOk(g)
    BY <1>1 DEF AgentInv, GuestTypes, OwnersOk
  <1>3. operations[g] = Nothing
    BY <1>2, Zenon DEF PendingOk
  <1>4. PICK o \in {"ok", "error"} : o = job[g].result
    BY Zenon, <1>1, <1>2 DEF Jobs
  <1>5. PICK entry : entry = [body |-> pending[g], outcome |-> o]
    BY ZenonT(30)
  <1>6. entry \in Records /\ entry.outcome = o
    BY Zenon, <1>2, <1>5 DEF Records
  <1>7. operations' = [operations EXCEPT ![g] = entry]
    BY Zenon, <1>1, <1>4, <1>5 DEF Complete
  <1>8. /\ operations'[g] # Nothing /\ operations'[g].outcome = o
        /\ \A h \in GuestIds \ {g} : operations'[h] = operations[h] /\ job'[h] = job[h]
    BY Zenon, <1>1, <1>2, <1>6, <1>7, NothingElse
  <1>9. Remembered(g)' = Remembered(g)
    BY <1>1, <1>3, <1>4, <1>8, Zenon DEF Remembered
  <1>10. ASSUME NEW h \in GuestIds \ {g} PROVE Remembered(h)' = Remembered(h)
    <2>1. operations'[h] = operations[h] /\ job'[h] = job[h] /\ applied'[h] = applied[h]
      BY <1>1, <1>8, Zenon
    <2> QED BY <2>1, Zenon DEF Remembered
  <1>11. \A h \in GuestIds : Remembered(h)' = Remembered(h)
    BY <1>9, <1>10, Zenon
  <1>12. Memory' = Memory
    BY <1>11, MemoryIs
  <1> QED BY Zenon, <1>1, <1>12

\* An acknowledgement releases what is remembered of its IDs.
LEMMA AcknowledgeReleases ==
    ASSUME AgentInv, NEW c \in Tasks, GuestAcknowledge(c)
    PROVE  Contract!Next \/ UNCHANGED <<Memory, applied>>
  <1>1. UNCHANGED <<job, applied>>
    BY DEF GuestAcknowledge
  <1>2. CASE ~Acknowledged(client[c].ids)
    <2>1. operations' = operations
      BY <1>2, Zenon DEF GuestAcknowledge
    <2> QED BY <1>1, <2>1, MemoryStays
  <1>3. CASE Acknowledged(client[c].ids)
    <2>1. PICK ids : ids = client[c].ids
      OBVIOUS
    <2>2. /\ operations' = [g \in GuestIds |-> IF g \in ids THEN Nothing ELSE operations[g]]
          /\ \A g \in ids : pending[g] = Nothing
      BY <1>3, <2>1, Zenon DEF GuestAcknowledge, Forget, Acknowledged
    <2>3. ASSUME NEW g \in GuestIds
          PROVE  \/ Memory'[g] = Memory[g]
                 \/ Memory[g] # "none" /\ Memory'[g] = "released"
      <3>1. CASE operations'[g] = operations[g]
        BY <1>1, <3>1, MemoryFrame
      <3>2. CASE operations'[g] # operations[g]
        <4>1. g \in ids /\ operations'[g] = Nothing /\ operations[g] # Nothing
          BY <2>2, <3>2
        <4>2. pending[g] = Nothing
          BY <2>2, <4>1
        <4>3. job[g] = Nothing
          BY <4>2, Zenon DEF AgentInv, OwnersOk
        <4>4. RunOk(g) /\ applied[g] \in Nat /\ operations[g] \in Records
          BY ZenonT(30), <4>1 DEF AgentInv, GuestTypes
        <4>5. applied[g] > 0
          BY <4>1, <4>4 DEF RunOk
        <4>6. Remembered(g)' = "released"
          BY <1>1, <4>1, <4>3, <4>5, Zenon DEF Remembered
        <4>7. Remembered(g) = operations[g].outcome
          BY <4>1, Zenon DEF Remembered
        <4>8. operations[g].outcome # "none"
          BY <4>4 DEF Records
        <4> QED BY Zenon, <4>6, <4>7, <4>8, MemoryIs
      <3> QED BY Zenon, <3>1, <3>2
    <2>4. Memory' = [g \in GuestIds |-> IF Memory[g] # "none" /\ Memory'[g] = "released"
                                        THEN "released" ELSE Memory[g]]
      BY <2>3, MemoryIs
    <2> QED BY <1>1, <2>4, Zenon DEF Contract!Next, Contract!Release
  <1> QED BY <1>2, <1>3

\* Every step is a step of the contract or is not seen in it.
LEMMA ContractNext ==
    AgentInv /\ [AgentNext]_agentVars => [Contract!Next]_<<Memory, applied>>
  <1> SUFFICES ASSUME AgentInv, [AgentNext]_agentVars
               PROVE  Contract!Next \/ UNCHANGED <<Memory, applied>>
    BY Zenon
  <1>1. CASE ExecutorStep
    <2>1. ASSUME NEW t \in Tasks, Lookup(t) \/ Replay(t) \/ Join(t) \/ Exhausted(t) \/ Claim(t)
          PROVE  UNCHANGED <<operations, job, applied>>
      BY <2>1, Zenon DEF Lookup, Replay, Join, Exhausted, Claim
    <2>2. CASE ShutdownRun
      <3>1. UNCHANGED <<operations, job, applied>>
        BY <2>2, Zenon DEF ShutdownRun
      <3> QED BY <3>1, MemoryStays
    <2>3. ASSUME NEW t \in Tasks, Lookup(t) \/ Replay(t) \/ Join(t) \/ Exhausted(t) \/ Claim(t)
                                  \/ ClaimStdin(t) \/ RunSync(t)
          PROVE  Contract!Next \/ UNCHANGED <<Memory, applied>>
      BY <2>1, <2>3, MemoryStays, ClaimStdinExecutes, RunSyncExecutes, Zenon
    <2>4. ASSUME NEW g \in GuestIds, StdinTurn(g) \/ StdinDone(g)
          PROVE  Contract!Next \/ UNCHANGED <<Memory, applied>>
      BY <2>4, StdinTurnExecutes, StdinDoneStays, Zenon
    <2> QED BY <1>1, <2>2, <2>3, <2>4, RunExecutes, Zenon DEF ExecutorStep
  <1>2. CASE GuestEnvironment
    <2>1. UNCHANGED <<operations, job, applied>>
      BY <1>2, Zenon DEF GuestEnvironment, Observe, ShutdownBegin, ProcessExit
    <2> QED BY <2>1, MemoryStays
  <1>3. CASE DriverStep
    <2>1. ASSUME NEW c \in Tasks, WriteStdin(c) \/ Receive(c) \/ AcknowledgeOperation(c)
                                  \/ FinishAcknowledge(c)
          PROVE  UNCHANGED <<operations, job, applied>>
      BY <2>1, Zenon DEF WriteStdin, Receive, AcknowledgeOperation, FinishAcknowledge, guestVars
    <2> QED BY <1>3, <2>1, MemoryStays, AcknowledgeReleases, Zenon DEF DriverStep
  <1>4. CASE HostStep
    <2>1. UNCHANGED <<operations, job, applied>>
      BY <1>4, Zenon DEF HostStep, Begin, BeginAcknowledge, guestVars
    <2> QED BY <2>1, MemoryStays
  <1>5. CASE (\E c \in Tasks : Cancel(c)) \/ Reattach \/ UNCHANGED agentVars
    <2>1. UNCHANGED <<operations, job, applied>>
      BY <1>5, Zenon DEF Cancel, Reattach, agentVars, guestVars
    <2> QED BY <2>1, MemoryStays
  <1> QED BY <1>1, <1>2, <1>3, <1>4, <1>5, Zenon DEF AgentNext

\* The driver keeps the contract the host is built on: each operation ID is
\* carried out once, its outcome does not change while it is remembered, and it
\* is not carried out again after its release (AgentDriver, OperationJournal).
THEOREM DriverKeepsContractHolds == AgentSpec => DriverKeepsContract
  <1>1. AgentInit => Contract!Init
    <2> SUFFICES ASSUME AgentInit PROVE Contract!Init
      OBVIOUS
    <2>1. /\ operations = [g \in GuestIds |-> Nothing] /\ job = [g \in GuestIds |-> Nothing]
          /\ applied = [g \in GuestIds |-> 0]
      BY DEF AgentInit, GuestInit
    <2>2. \A g \in GuestIds : Remembered(g) = "none"
      BY <2>1 DEF Remembered
    <2>3. Memory = [g \in GuestIds |-> "none"]
      BY <2>2, MemoryIs
    <2> QED BY <2>1, <2>3, Zenon DEF Contract!Init
  <1> QED BY <1>1, ContractNext, AgentInvHolds, PTL DEF AgentSpec, DriverKeepsContract, Contract!Spec
=============================================================================
