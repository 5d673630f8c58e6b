------------------------ MODULE GuestExecutorProofs ------------------------
(* The inductive invariant of the guest executor and the driver client, and  *)
(* the steps of the guest, for any number of operations, calls, chunks,      *)
(* generations and processes.                                                *)
(*                                                                           *)
(* The invariant AgentInv follows one operation ID through the two sides.  A *)
(* claimed or recorded guest operation is a part of the one request its host *)
(* operation is bound to, and every earlier part was recorded as a success;  *)
(* a client that still sends owns its operation alone; a decided operation   *)
(* has nothing pending.  So a split write that is cancelled and repeated     *)
(* finds exactly what it left, and an operation the guest has forgotten is   *)
(* never sent again.                                                         *)
EXTENDS AgentDriver, TLAPS

-----------------------------------------------------------------------------
(* The inductive invariant.                                                  *)

Boxes == [gen : Generations, status : {"created", "running", "stopped"},
          paused : BOOLEAN, execs : SUBSET Execs]
Records == [body : Bodies, outcome : {"ok", "error"}]
Jobs == [ticket : Int, result : {"none", "ok", "error"}]
Calls == [stage : {"idle", "sent", "admitted", "waiting", "replied"},
          id : GuestIds \cup {Nothing}, body : Bodies \cup {Nothing},
          reply : {"none", "ok", "error", "reused", "exhausted"}]
Stdios == [next : Int, serving : Int, open : BOOLEAN, fed : Seq(GuestIds)]
Clients == [stage : {"idle", "gate", "call", "ack_gate", "ack_call", "ack_done"},
            request : Requests \cup {Nothing}, op : HostOps \cup {Nothing}, index : Int,
            ids : SUBSET GuestIds]
Hosts == [status : {"new", "sent", "succeeded", "failed", "acked"},
          request : Requests \cup {Nothing}]

GuestTypes ==
    /\ operations \in [GuestIds -> Records \cup {Nothing}]
    /\ pending \in [GuestIds -> Bodies \cup {Nothing}]
    /\ lock \in GuestIds \cup {Nothing}
    /\ box \in Boxes \cup {Nothing}
    /\ stdio \in [Generations \X Procs -> Stdios]
    /\ job \in [GuestIds -> Jobs \cup {Nothing}]
    /\ call \in [Tasks -> Calls]
    /\ applied \in [GuestIds -> Nat]

DriverTypes ==
    /\ host \in [HostOps -> Hosts]
    /\ client \in [Tasks -> Clients]
    /\ gate \in [HostOps -> Tasks \cup {Nothing}]
    /\ retained \in [HostOps -> SUBSET GuestIds]
    /\ reattached \in BOOLEAN

Request(p) == host[p].request
Part(q, n) == [q.body EXCEPT !.data = n]
Done(g) == operations[g] # Nothing /\ operations[g].outcome = "ok"
Ran(g) == job[g] # Nothing /\ job[g].result # "none"

\* g is part n of the request its host operation is bound to.
IsPart(g, n) ==
    /\ Request(g[1]) \in Requests
    /\ n \in 1 .. Request(g[1]).chunks
    /\ g = GuestId(Request(g[1]), n)

\* Every part before part n was recorded as a success.
PartsDone(p, n) == \A m \in 1 .. n - 1 : Done(GuestId(Request(p), m))

\* The client knows the derived IDs of p, if there are any.
Kept(p) == ~reattached /\ Request(p).chunks > 1 => retained[p] = ChunkIds(Request(p))

RequestOk(p) ==
    /\ (host[p].status = "new") = (Request(p) = Nothing)
    /\ Request(p) # Nothing => Request(p).op = p

Sending(c) == client[c].stage \in {"gate", "call"}

\* One client at a time sends an operation, and only an undecided one.
ClientOk(c) ==
    /\ client[c].stage # "call" => call[c].stage = "idle"
    /\ client[c].stage # "idle" => client[c].op \in HostOps
    /\ Sending(c) =>
         /\ host[client[c].op].status = "sent"
         /\ client[c].request = Request(client[c].op)
         /\ \A d \in Tasks \ {c} : Sending(d) => client[d].op # client[c].op
    /\ client[c].stage = "gate" => client[c].request.body.kind = "write"
    /\ client[c].stage \in {"ack_gate", "ack_call", "ack_done"} =>
         host[client[c].op].status \in Decided
    /\ client[c].stage = "ack_call" => \A g \in client[c].ids : g[1] = client[c].op

\* A call in the guest carries the part the client has come to.
CallOk(c) ==
    client[c].stage = "call" =>
        /\ call[c].stage # "idle"
        /\ call[c].id \in GuestIds
        /\ call[c].id[1] = client[c].op
        /\ IsPart(call[c].id, client[c].index)
        /\ call[c].body = Part(Request(client[c].op), client[c].index)
        /\ PartsDone(client[c].op, client[c].index)
        /\ Kept(client[c].op)

\* An answer agrees with the journal.  Only an exec can be refused although it
\* is recorded as a success: its container is looked up first.
ReplyOk(c) ==
    client[c].stage = "call" /\ call[c].stage = "replied" =>
        /\ pending[call[c].id] = Nothing
        /\ call[c].reply = "ok" => Done(call[c].id)
        /\ call[c].body.kind # "exec" /\ Done(call[c].id) => call[c].reply = "ok"

\* A claimed operation is undecided, is not recorded, and is owned by the
\* holder of the mutex or by an input job.
PendingOk(g) ==
    pending[g] # Nothing =>
        /\ host[g[1]].status = "sent"
        /\ \E n \in 1 .. MaxChunks : /\ IsPart(g, n)
                                     /\ pending[g] = Part(Request(g[1]), n)
                                     /\ PartsDone(g[1], n)
        /\ Kept(g[1])
        /\ operations[g] = Nothing
        /\ pending[g].kind \notin SyncKinds
        /\ pending[g].kind \in StdinKinds => job[g] # Nothing
        /\ pending[g].kind \notin StdinKinds => lock = g /\ job[g] = Nothing

\* A recorded operation.
RecordOk(g) ==
    operations[g] # Nothing =>
        /\ host[g[1]].status # "new"
        /\ \E n \in 1 .. MaxChunks : /\ IsPart(g, n)
                                     /\ operations[g].body = Part(Request(g[1]), n)
                                     /\ host[g[1]].status = "sent" => PartsDone(g[1], n)
        /\ Kept(g[1])

OwnersOk ==
    /\ lock # Nothing => pending[lock] # Nothing /\ pending[lock].kind \notin StdinKinds
    /\ \A g \in GuestIds : job[g] # Nothing => pending[g] # Nothing

\* Derived IDs are retained of a split request only, and then all of them.
RetainedOk(p) ==
    retained[p] # {} => /\ Request(p) # Nothing
                        /\ Request(p).chunks > 1
                        /\ retained[p] = ChunkIds(Request(p))

\* What an acknowledgement is about to release is all there is, and after it
\* nothing is left.
AckOk(g) ==
    ~reattached /\ operations[g] # Nothing =>
        /\ host[g[1]].status # "acked"
        /\ \A c \in Tasks : client[c].op = g[1] =>
             /\ client[c].stage = "ack_call" => g \in client[c].ids
             /\ client[c].stage # "ack_done"

\* What was carried out is remembered at least until the host has decided.
RunOk(g) ==
    /\ applied[g] = 0 => operations[g] = Nothing /\ ~Ran(g)
    /\ applied[g] > 0 /\ host[g[1]].status \notin Decided => operations[g] # Nothing \/ Ran(g)

Input(p) == stdio[StdioOf(Request(p).body)].fed
Fed(g) == \E a \in DOMAIN Input(g[1]) : Input(g[1])[a] = g

\* At place a of its input, process k has received g: a part of a request
\* addressed to it, after the part before it.
PlaceOk(k, a, g) ==
    /\ applied[g] > 0
    /\ \E n \in 1 .. MaxChunks :
         /\ IsPart(g, n)
         /\ k = StdioOf(Request(g[1]).body)
         /\ n > 1 => \E b \in DOMAIN stdio[k].fed :
                       b < a /\ stdio[k].fed[b] = GuestId(Request(g[1]), n - 1)

\* The input of one process, in which nothing is repeated.
InputOk(k) ==
    /\ \A a \in DOMAIN stdio[k].fed : PlaceOk(k, a, stdio[k].fed[a])
    /\ \A a, b \in DOMAIN stdio[k].fed : stdio[k].fed[a] = stdio[k].fed[b] => a = b

\* A part of a write that succeeded has reached the process.
FedOk(g) ==
    Request(g[1]) # Nothing /\ Request(g[1]).body.kind = "write" =>
        /\ Done(g) => Fed(g)
        /\ Ran(g) /\ job[g].result = "ok" => Fed(g)
        /\ host[g[1]].status = "succeeded" =>
             \A n \in 1 .. Request(g[1]).chunks : g = GuestId(Request(g[1]), n) => Fed(g)

AgentInv ==
    /\ GuestTypes
    /\ DriverTypes
    /\ \A p \in HostOps : RequestOk(p) /\ RetainedOk(p)
    /\ \A c \in Tasks : ClientOk(c) /\ CallOk(c) /\ ReplyOk(c)
    /\ \A g \in GuestIds : PendingOk(g) /\ RecordOk(g) /\ AckOk(g) /\ RunOk(g) /\ FedOk(g)
    /\ \A k \in Generations \X Procs : InputOk(k)
    /\ OwnersOk
    /\ NoOrphanProcess

-----------------------------------------------------------------------------
(* Identifiers, parts and frames.                                            *)

\* The host operation of a guest ID (the pair GuestIds is made of).
LEMMA OpOfId ==
    \A g \in GuestIds : g[1] \in HostOps
BY DEF GuestIds

\* The IDs a request becomes are guest IDs of its own operation (ChunkIds,
\* GuestId).
LEMMA PartIds ==
    ASSUME NEW q \in Requests, NEW n \in 1 .. q.chunks
    PROVE  /\ GuestId(q, n) \in GuestIds
           /\ GuestId(q, n)[1] = q.op
           /\ GuestId(q, n) \in ChunkIds(q)
           /\ q.chunks \in Nat /\ q.chunks <= MaxChunks
           /\ n \in 1 .. MaxChunks
  <1>1. q.op \in HostOps /\ q.chunks \in 1 .. MaxChunks
    BY RequestsAssumption
  <1>2. MaxChunks \in Nat
    BY GuestAssumption
  <1> QED BY <1>1, <1>2 DEF GuestId, GuestIds, ChunkIds

\* The numbers of the earlier parts.
LEMMA EarlierParts ==
    ASSUME NEW z \in Nat, NEW n \in 1 .. z PROVE \A m \in 1 .. n - 1 : m \in 1 .. z
OBVIOUS

\* Every derived ID belongs to the operation it is derived from.
LEMMA ChunksOfOp ==
    ASSUME NEW q \in Requests, NEW g \in ChunkIds(q)
    PROVE  g[1] = q.op
BY DEF ChunkIds

\* Different parts have different IDs.
LEMMA PartsDiffer ==
    ASSUME NEW q \in Requests, NEW n \in 1 .. q.chunks, NEW m \in 1 .. q.chunks,
           GuestId(q, n) = GuestId(q, m)
    PROVE  n = m
  <1>1. q.chunks \in 1 .. MaxChunks
    BY RequestsAssumption
  <1>2. MaxChunks \in Nat
    BY GuestAssumption
  <1> QED BY <1>1, <1>2 DEF GuestId

\* A part has the body of the request, except for its data (Message).
LEMMA PartBody ==
    ASSUME NEW q \in Requests, NEW n \in 1 .. q.chunks
    PROVE  /\ Part(q, n) \in Bodies
           /\ Part(q, n).kind = q.body.kind
           /\ StdioOf(Part(q, n)) = StdioOf(q.body)
           /\ StdioOf(q.body) \in Generations \X Procs
  <1>1. q.body \in Bodies /\ q.chunks \in 1 .. MaxChunks
    BY RequestsAssumption
  <1>2. MaxChunks \in Nat
    BY GuestAssumption
  <1>3. n \in Nat
    BY <1>1, <1>2
  <1> QED BY <1>1, <1>3 DEF Part, Bodies, StdioOf

\* Nothing is no entry of any of the tables.
LEMMA NothingElse ==
    /\ Nothing \notin Requests /\ Nothing \notin Bodies /\ Nothing \notin GuestIds
    /\ Nothing \notin Tasks /\ Nothing \notin Boxes /\ Nothing \notin Records
    /\ Nothing \notin Jobs
BY RequestsAssumption DEF Boxes, Records, Jobs

\* What is known of an operation ID that a client has sent to the guest.
LEMMA CallFacts ==
    ASSUME AgentInv, NEW t \in Tasks, call[t].stage # "idle"
    PROVE  /\ client[t].stage = "call"
           /\ call[t].id \in GuestIds
           /\ call[t].id[1] = client[t].op
           /\ client[t].op \in HostOps
           /\ host[client[t].op].status = "sent"
           /\ Request(client[t].op) \in Requests
           /\ Request(client[t].op).op = client[t].op
           /\ IsPart(call[t].id, client[t].index)
           /\ call[t].body = Part(Request(client[t].op), client[t].index)
           /\ call[t].body \in Bodies
           /\ call[t].body.kind = Request(client[t].op).body.kind
           /\ StdioOf(call[t].body) = StdioOf(Request(client[t].op).body)
           /\ StdioOf(call[t].body) \in Generations \X Procs
           /\ client[t].index \in 1 .. MaxChunks
           /\ PartsDone(client[t].op, client[t].index)
           /\ Kept(client[t].op)
           /\ \A d \in Tasks \ {t} : call[d].stage # "idle" => call[d].id # call[t].id
  <1>1. ClientOk(t) /\ CallOk(t)
    BY DEF AgentInv
  <1>2. client[t].stage = "call"
    BY <1>1 DEF ClientOk
  <1>3. /\ call[t].id \in GuestIds
        /\ call[t].id[1] = client[t].op
        /\ IsPart(call[t].id, client[t].index)
        /\ call[t].body = Part(Request(client[t].op), client[t].index)
        /\ PartsDone(client[t].op, client[t].index)
        /\ Kept(client[t].op)
    BY <1>1, <1>2 DEF CallOk
  <1>4. /\ client[t].op \in HostOps
        /\ host[client[t].op].status = "sent"
        /\ \A d \in Tasks \ {t} : Sending(d) => client[d].op # client[t].op
    BY <1>1, <1>2 DEF ClientOk, Sending
  <1>5. /\ Request(client[t].op) \in Requests
        /\ client[t].index \in 1 .. Request(client[t].op).chunks
    BY <1>3 DEF IsPart
  <1>6. Request(client[t].op).op = client[t].op
    BY <1>4, <1>5, NothingElse DEF AgentInv, RequestOk
  <1>7. \A d \in Tasks \ {t} : call[d].stage # "idle" => call[d].id # call[t].id
    <2> SUFFICES ASSUME NEW d \in Tasks \ {t}, call[d].stage # "idle"
                 PROVE  call[d].id # call[t].id
      OBVIOUS
    <2>1. ClientOk(d) /\ CallOk(d)
      BY DEF AgentInv
    <2>2. client[d].stage = "call"
      BY <2>1 DEF ClientOk
    <2>3. call[d].id[1] = client[d].op
      BY <2>1, <2>2 DEF CallOk
    <2> QED BY <1>3, <1>4, <2>2, <2>3 DEF Sending
  <1> QED BY <1>2, <1>3, <1>4, <1>5, <1>6, <1>7, PartBody, PartIds

-----------------------------------------------------------------------------
(* The handlers: the record they leave accounts for every process.           *)

Owned(b) == IF b = Nothing THEN {} ELSE {<<b.gen, p>> : p \in {"init"} \cup b.execs}

Covered(l, b) == shutdown = "failed" \/ l \subseteq Owned(b)

Sound(s) ==
    /\ s.box \in Boxes \cup {Nothing}
    /\ s.ok \in {"ok", "error"}
    /\ Covered(s.live, s.box)

\* A result is sound when its record covers its processes (Result).
LEMMA SoundResult ==
    ASSUME NEW b \in Boxes \cup {Nothing}, NEW h, NEW l, NEW ok \in {"ok", "error"}, NEW cost,
           Covered(l, b)
    PROVE  Sound(Result(b, h, l, ok, cost))
BY DEF Sound, Result

\* The three shapes of a result (Succeeds, Refuses, Faults).
LEMMA SoundShapes ==
    ASSUME NEW b \in Boxes \cup {Nothing}, NEW l, Covered(l, b)
    PROVE  Sound(Succeeds(b, l)) /\ Sound(Faults(b, l)) /\ (l = live => Sound(Refuses(b)))
BY SoundResult DEF Succeeds, Faults, Refuses

\* Fewer processes are covered as well.
LEMMA CoversLess ==
    ASSUME NEW b, NEW l, NEW m, Covered(l, b), m \subseteq l
    PROVE  Covered(m, b)
BY DEF Covered

\* A record with the same generation and execs covers the same processes.
LEMMA CoversSame ==
    ASSUME NEW b \in Boxes, NEW d \in Boxes, NEW l, Covered(l, b), d.gen = b.gen,
           d.execs = b.execs
    PROVE  Covered(l, d)
  <1>1. b # Nothing /\ d # Nothing
    BY NothingElse
  <1> QED BY <1>1 DEF Covered, Owned

\* Refreshing a record keeps its generation and its execs (refresh).
LEMMA RefreshKeeps ==
    ASSUME NEW b \in Boxes
    PROVE  Refresh(b) \in Boxes /\ Refresh(b).gen = b.gen /\ Refresh(b).execs = b.execs
BY Zenon DEF Refresh, Boxes

\* Stopping everything leaves no process of the record's generation, or says
\* that it failed (force_stop_all).
LEMMA StopKeeps ==
    ASSUME NEW b \in Boxes, Covered(live, b), NEW s \in ForceStopAll(b)
    PROVE  /\ Sound(s)
           /\ s.box \in Boxes
           /\ s.ok = "ok" => shutdown = "failed" \/ s.live = {}
  <1> DEFINE mine == {k \in live : k[1] = b.gen}
  <1>1. CASE s = Succeeds([b EXCEPT !.paused = FALSE], live \ mine)
    <2> DEFINE d == [b EXCEPT !.paused = FALSE]
    <2>1. d \in Boxes /\ d.gen = b.gen /\ d.execs = b.execs
      BY Zenon DEF Boxes
    <2>2. Covered(live \ mine, d)
      BY Zenon, <2>1, CoversSame, CoversLess
    <2>3. shutdown = "failed" \/ live \ mine = {}
      BY NothingElse DEF Covered, Owned
    <2>4. Sound(s)
      BY <1>1, <2>1, <2>2, SoundShapes
    <2>5. s.box = d /\ s.live = live \ mine
      BY <1>1 DEF Succeeds, Result
    <2> QED BY <2>1, <2>3, <2>4, <2>5
  <1>2. ASSUME NEW z \in {FALSE, b.paused}, NEW gone \in SUBSET mine,
               s = Faults([b EXCEPT !.paused = z], live \ gone)
        PROVE  Sound(s) /\ s.box \in Boxes /\ s.ok = "error"
    <2> DEFINE d == [b EXCEPT !.paused = z]
    <2>1. d \in Boxes /\ d.gen = b.gen /\ d.execs = b.execs
      BY Zenon, <1>2 DEF Boxes
    <2>2. Covered(live \ gone, d)
      BY Zenon, <2>1, CoversSame, CoversLess
    <2>3. Sound(s)
      BY <1>2, <2>1, <2>2, SoundShapes
    <2>4. s.box = d /\ s.ok = "error"
      BY <1>2 DEF Faults, Result
    <2> QED BY <2>1, <2>3, <2>4
  <1>3. \/ s = Succeeds([b EXCEPT !.paused = FALSE], live \ mine)
        \/ \E z \in {FALSE, b.paused}, gone \in SUBSET mine :
             s = Faults([b EXCEPT !.paused = z], live \ gone)
    BY Zenon DEF ForceStopAll
  <1>4. s # Succeeds([b EXCEPT !.paused = FALSE], live \ mine)
          => Sound(s) /\ s.box \in Boxes /\ s.ok = "error"
    BY <1>2, <1>3, Zenon
  <1> QED BY <1>1, <1>4

\* Whatever a handler does, the record it leaves accounts for every process
\* (the _new handlers of the executor).
LEMMA HandlerSound ==
    ASSUME box \in Boxes \cup {Nothing}, Covered(live, box), NEW r \in Bodies,
           r.kind \notin StdinKinds, NEW s \in Handler(r)
    PROVE  Sound(s)
  <1>1. CASE s = Faults(box, live)
    BY <1>1, SoundShapes
  <1>2. CASE s = Refuses(box)
    BY <1>2, SoundShapes
  <1>3. CASE r.kind = "create" /\ s \in CreateNew(r) /\ s # Refuses(box) /\ s # Faults(box, live)
    <2> DEFINE d == [gen |-> r.gen, status |-> "created", paused |-> FALSE, execs |-> {}]
    <2>1. s = Result(d, r.gen, live \cup {<<r.gen, "init">>}, "ok", 0) /\ box = Nothing
      BY <1>3 DEF CreateNew
    <2>2. d \in Boxes /\ d.gen = r.gen
      BY DEF Boxes, Bodies
    <2>3. <<r.gen, "init">> \in Owned(d)
      BY Zenon, <2>2, NothingElse DEF Owned
    <2>4. Covered(live \cup {<<r.gen, "init">>}, d)
      BY <2>1, <2>3 DEF Covered, Owned
    <2> QED BY <2>1, <2>2, <2>4, SoundResult
  <1>4. CASE r.kind # "create" /\ Holds(r.gen)
    <2> DEFINE b == Refresh(box)
    <2>1. box \in Boxes
      BY <1>4 DEF Holds
    <2>2. b \in Boxes /\ b.gen = box.gen /\ b.execs = box.execs
      BY <2>1, RefreshKeeps
    <2>3. Covered(live, b)
      BY <2>1, <2>2, CoversSame
    <2>4. Sound(Refuses(b)) /\ Sound(Succeeds(b, live)) /\ Sound(Faults(b, live))
      BY <2>2, <2>3, SoundShapes
    <2>5. ASSUME NEW d \in Boxes, d.gen = b.gen, d.execs = b.execs, NEW l, l \subseteq live
          PROVE  Sound(Succeeds(d, l)) /\ Sound(Faults(d, l))
      BY <2>2, <2>3, <2>5, CoversSame, CoversLess, SoundShapes
    <2> HIDE DEF b
    <2>6. CASE s \in StartNew(r)
      <3> DEFINE u == [b EXCEPT !.status = "running"]
                 v == [b EXCEPT !.status = "stopped"]
      <3>1. u \in Boxes /\ u.gen = b.gen /\ u.execs = b.execs
        BY <2>2 DEF Boxes
      <3>2. v \in Boxes /\ v.gen = b.gen /\ v.execs = b.execs
        BY <2>2 DEF Boxes
      <3> QED BY Zenon, <2>4, <2>5, <2>6, <3>1, <3>2 DEF StartNew, b
    <2>7. CASE s \in KillNew(r)
      <3> DEFINE u == [b EXCEPT !.status = "stopped", !.paused = FALSE]
      <3>1. u \in Boxes /\ u.gen = b.gen /\ u.execs = b.execs
        BY Zenon, <2>2 DEF Boxes
      <3> QED BY Zenon, <2>4, <2>5, <2>7, <3>1 DEF KillNew, b
    <2>8. CASE s \in DeleteNew(r)
      <3>1. CASE s = Refuses(b)
        BY <2>4, <3>1
      <3>2. CASE s # Refuses(b)
        <4>1. PICK x \in ForceStopAll(b) :
                s \in IF x.ok = "error" THEN {x}
                      ELSE {Succeeds(Nothing, x.live),
                            Faults([x.box EXCEPT !.status = "stopped"], x.live)}
          BY <2>8, <3>2 DEF DeleteNew, b
        <4>2. Sound(x) /\ x.box \in Boxes /\ (x.ok = "ok" => shutdown = "failed" \/ x.live = {})
          BY <2>2, <2>3, StopKeeps
        <4>3. CASE x.ok = "error"
          BY <4>1, <4>2, <4>3
        <4>4. CASE x.ok # "error"
          <5> DEFINE u == [x.box EXCEPT !.status = "stopped"]
          <5>1. shutdown = "failed" \/ x.live = {}
            BY <4>2, <4>4 DEF Sound
          <5>2. Covered(x.live, Nothing) /\ Covered(x.live, u)
            BY <5>1 DEF Covered
          <5>3. u \in Boxes
            BY <4>2 DEF Boxes
          <5> QED BY <4>1, <4>4, <5>2, <5>3, SoundShapes
        <4> QED BY <4>3, <4>4
      <3> QED BY <3>1, <3>2
    <2>9. CASE s \in SetFrozen(r, TRUE) \/ s \in SetFrozen(r, FALSE)
      <3>1. ASSUME NEW z \in BOOLEAN
            PROVE  LET u == [b EXCEPT !.paused = z]
                   IN  u \in Boxes /\ u.gen = b.gen /\ u.execs = b.execs
        BY <2>2 DEF Boxes
      <3> QED BY Zenon, <2>4, <2>5, <2>9, <3>1 DEF SetFrozen, b
    <2>10. CASE s \in UpdateResources(r) \/ s \in FileMutation(r) \/ s \in ResizeNew(r)
      BY <2>4, <2>10 DEF FileMutation, UpdateResources, ResizeNew, b
    <2>11. CASE s \in ExecNew(r)
      <3> DEFINE u == [b EXCEPT !.execs = @ \cup {r.proc}]
      <3>1. CASE s = Succeeds(u, live \cup {<<b.gen, r.proc>>}) /\ r.proc # "init"
        <4>1. r.proc \in Execs
          BY <3>1 DEF Bodies, Procs
        <4>2. u \in Boxes /\ u.gen = b.gen /\ u.execs = b.execs \cup {r.proc}
          BY <2>2, <4>1 DEF Boxes
        <4>3. u # Nothing /\ b # Nothing
          BY Zenon, <2>2, <4>2, NothingElse
        <4>4. Covered(live \cup {<<b.gen, r.proc>>}, u)
          BY <2>3, <4>2, <4>3 DEF Covered, Owned
        <4> QED BY <3>1, <4>2, <4>4, SoundShapes
      <3> QED BY <2>4, <2>11, <3>1 DEF ExecNew, b
    <2>12. CASE s \in SignalProcessNew(r)
      BY <2>2, <2>4, <2>5, <2>12 DEF SignalProcessNew, b
    <2>13. r.kind \in Kinds
      BY DEF Bodies
    <2>14. \/ s = Faults(box, live) \/ s \in StartNew(r) \/ s \in KillNew(r) \/ s \in DeleteNew(r)
           \/ s \in SetFrozen(r, TRUE) \/ s \in SetFrozen(r, FALSE) \/ s \in UpdateResources(r)
           \/ s \in FileMutation(r) \/ s \in ResizeNew(r) \/ s \in ExecNew(r)
           \/ s \in SignalProcessNew(r)
      BY Zenon, <1>4, <2>13 DEF Handler, Kinds, StdinKinds
    <2> QED BY Zenon, <1>1, <2>6, <2>7, <2>8, <2>9, <2>10, <2>11, <2>12, <2>14
  <1> QED BY Zenon, <1>1, <1>2, <1>3, <1>4 DEF Handler

-----------------------------------------------------------------------------
(* Steps that leave the journal alone.                                       *)

\* Nothing is orphaned when the record covers the processes.
LEMMA CoveredIsEnough ==
    NoOrphanProcess <=> Covered(live, box)
BY Zenon DEF NoOrphanProcess, Covered, Owned

\* What the invariant says of bindings and derived IDs depends on these.
LEMMA HostFrame ==
    ASSUME AgentInv, UNCHANGED <<host, retained>>
    PROVE  \A p \in HostOps : RequestOk(p)' /\ RetainedOk(p)'
BY Zenon DEF AgentInv, RequestOk, RetainedOk, Request

\* What it says of records depends on these.
LEMMA RecordFrame ==
    ASSUME AgentInv, UNCHANGED <<operations, host, client, retained, reattached>>
    PROVE  \A g \in GuestIds : RecordOk(g)' /\ AckOk(g)'
  <1>1. \A g \in GuestIds : RecordOk(g)'
    BY Zenon DEF AgentInv, RecordOk, IsPart, PartsDone, Kept, Done, Request
  <1>2. \A g \in GuestIds : AckOk(g)'
    BY Zenon DEF AgentInv, AckOk
  <1> QED BY <1>1, <1>2, Zenon

\* The input of one process stays in order when more operations have been
\* carried out.
LEMMA SameInput ==
    ASSUME AgentInv, UNCHANGED host, NEW k \in Generations \X Procs,
           stdio'[k].fed = stdio[k].fed,
           \A g \in GuestIds : applied[g] > 0 => applied'[g] > 0
    PROVE  InputOk(k)'
  <1>1. InputOk(k)
    BY DEF AgentInv
  <1>2. DOMAIN stdio'[k].fed = DOMAIN stdio[k].fed
    BY Zenon
  <1>3. stdio[k].fed \in Seq(GuestIds)
    BY DEF AgentInv, GuestTypes, Stdios
  <1>4. \A a \in DOMAIN stdio[k].fed : stdio[k].fed[a] \in GuestIds
    BY <1>3
  <1>5. \A a, g : PlaceOk(k, a, g) /\ applied'[g] > 0 => PlaceOk(k, a, g)'
    BY <1>2, Zenon DEF PlaceOk, IsPart, Request
  <1>6. \A a \in DOMAIN stdio[k].fed : applied'[stdio[k].fed[a]] > 0
    BY <1>1, <1>4, Zenon DEF InputOk, PlaceOk
  <1> QED BY <1>1, <1>2, <1>5, <1>6, Zenon DEF InputOk

\* The same for every process.
LEMMA InputFrame ==
    ASSUME AgentInv, UNCHANGED <<stdio, host>>,
           \A g \in GuestIds : applied[g] > 0 => applied'[g] > 0
    PROVE  \A k \in Generations \X Procs : InputOk(k)'
BY SameInput, Zenon

\* Steps that touch none of these variables keep what the invariant says of
\* the journal, the input and the host.
LEMMA JournalFrame ==
    ASSUME AgentInv,
           UNCHANGED <<operations, pending, lock, job, applied, stdio, host, client, retained,
                       reattached>>
    PROVE  /\ \A p \in HostOps : RequestOk(p)' /\ RetainedOk(p)'
           /\ \A g \in GuestIds : PendingOk(g)' /\ RecordOk(g)' /\ AckOk(g)' /\ RunOk(g)' /\ FedOk(g)'
           /\ \A k \in Generations \X Procs : InputOk(k)'
           /\ OwnersOk'
  <1>1. \A g \in GuestIds : PendingOk(g)'
    BY Zenon DEF AgentInv, PendingOk, IsPart, PartsDone, Kept, Done, Request
  <1>2. \A g \in GuestIds : RunOk(g)'
    BY Zenon DEF AgentInv, RunOk, Ran
  <1>3. \A g \in GuestIds : FedOk(g)'
    BY Zenon DEF AgentInv, FedOk, Fed, Input, Request, Done, Ran
  <1>4. OwnersOk'
    BY Zenon DEF AgentInv, OwnersOk
  <1>5. \A g \in GuestIds : applied[g] > 0 => applied'[g] > 0
    BY Zenon
  <1> QED BY <1>1, <1>2, <1>3, <1>4, <1>5, HostFrame, RecordFrame, InputFrame, Zenon

\* What it says of the clients depends on these.
LEMMA ClientFrame ==
    ASSUME AgentInv, UNCHANGED <<operations, pending, call, host, client, retained, reattached>>
    PROVE  \A c \in Tasks : ClientOk(c)' /\ CallOk(c)' /\ ReplyOk(c)'
  <1>1. \A c \in Tasks : ClientOk(c)'
    BY Zenon DEF AgentInv, ClientOk, Sending, Request
  <1>2. \A c \in Tasks : CallOk(c)'
    BY Zenon DEF AgentInv, CallOk, IsPart, PartsDone, Kept, Done, Request
  <1>3. \A c \in Tasks : ReplyOk(c)'
    BY Zenon DEF AgentInv, ReplyOk, Done
  <1> QED BY <1>1, <1>2, <1>3, Zenon

\* A step of the container record and the processes alone.
LEMMA BoxStep ==
    ASSUME AgentInv, box' \in Boxes \cup {Nothing}, Covered(live, box)',
           UNCHANGED <<operations, pending, lock, stdio, job, call, applied>>,
           UNCHANGED driverVars
    PROVE  AgentInv'
  <1> USE DEF driverVars
  <1>1. GuestTypes' /\ DriverTypes'
    BY Zenon DEF AgentInv, GuestTypes, DriverTypes
  <1>2. NoOrphanProcess'
    BY Zenon DEF NoOrphanProcess, Covered, Owned
  <1> QED BY <1>1, <1>2, JournalFrame, ClientFrame, Zenon DEF AgentInv

\* A step of one call alone.  An answer must agree with the journal.
LEMMA CallStep ==
    ASSUME AgentInv, NEW t \in Tasks, call[t].stage # "idle",
           call' \in [Tasks -> Calls],
           call'[t].stage # "idle",
           call'[t].id = call[t].id,
           call'[t].body = call[t].body,
           \A d \in Tasks \ {t} : call'[d] = call[d],
           call'[t].stage = "replied" =>
             /\ pending[call[t].id] = Nothing
             /\ call'[t].reply = "ok" => Done(call[t].id)
             /\ call[t].body.kind # "exec" /\ Done(call[t].id) => call'[t].reply = "ok",
           UNCHANGED <<operations, pending, lock, box, live, stdio, job, shutdown, applied>>,
           UNCHANGED driverVars
    PROVE  AgentInv'
  <1> USE DEF driverVars
  <1>1. GuestTypes' /\ DriverTypes'
    BY Zenon DEF AgentInv, GuestTypes, DriverTypes
  <1>2. NoOrphanProcess'
    BY Zenon DEF AgentInv, NoOrphanProcess
  <1>3. client[t].stage = "call"
    BY CallFacts
  <1>4. \A c \in Tasks : ClientOk(c)'
    <2> SUFFICES ASSUME NEW c \in Tasks PROVE ClientOk(c)'
      BY Zenon
    <2>1. ClientOk(c)
      BY DEF AgentInv
    <2>2. client[c].stage # "call" => call'[c] = call[c]
      BY <1>3, Zenon
    <2> QED BY <2>1, <2>2, Zenon DEF ClientOk, Sending, Request
  <1>5. \A c \in Tasks : CallOk(c)'
    <2> SUFFICES ASSUME NEW c \in Tasks PROVE CallOk(c)'
      OBVIOUS
    <2>1. call'[c].stage # "idle" \/ call'[c] = call[c]
      BY Zenon
    <2>2. call'[c].id = call[c].id /\ call'[c].body = call[c].body
      BY Zenon
    <2> QED BY <2>1, <2>2, Zenon DEF AgentInv, CallOk, IsPart, PartsDone, Kept, Done, Request
  <1>6. \A c \in Tasks : ReplyOk(c)'
    <2> SUFFICES ASSUME NEW c \in Tasks PROVE ReplyOk(c)'
      OBVIOUS
    <2>1. CASE c = t
      BY <2>1, Zenon DEF ReplyOk, Done
    <2>2. CASE c # t
      BY <2>2, Zenon DEF AgentInv, ReplyOk, Done
    <2> QED BY <2>1, <2>2, Zenon
  <1> QED BY <1>1, <1>2, <1>4, <1>5, <1>6, JournalFrame, Zenon DEF AgentInv

\* What an answer does to the calls (the response of one request).
LEMMA AnswerShape ==
    ASSUME AgentInv, NEW t \in Tasks, NEW r \in {"ok", "error", "reused", "exhausted"},
           Answer(t, r)
    PROVE  /\ call' \in [Tasks -> Calls]
           /\ call'[t].stage = "replied"
           /\ call'[t].id = call[t].id
           /\ call'[t].body = call[t].body
           /\ call'[t].reply = r
           /\ \A d \in Tasks \ {t} : call'[d] = call[d]
  <1>1. call \in [Tasks -> Calls]
    BY DEF AgentInv, GuestTypes
  <1> QED BY ZenonT(30), <1>1 DEF Answer, Calls

\* Moving a call to another stage changes nothing else of it.
LEMMA StageShape ==
    ASSUME AgentInv, NEW t \in Tasks, NEW s \in {"admitted", "waiting"},
           call' = [call EXCEPT ![t].stage = s]
    PROVE  /\ call' \in [Tasks -> Calls]
           /\ call'[t].stage = s
           /\ call'[t].id = call[t].id
           /\ call'[t].body = call[t].body
           /\ \A d \in Tasks \ {t} : call'[d] = call[d]
  <1>1. call \in [Tasks -> Calls]
    BY DEF AgentInv, GuestTypes
  <1> QED BY <1>1 DEF Calls

\* Nothing of a lifecycle kind is pending while the mutex is free.
LEMMA FreeMeansStdin ==
    ASSUME AgentInv, lock = Nothing, NEW g \in GuestIds, pending[g] # Nothing
    PROVE  pending[g].kind \in StdinKinds /\ operations[g] = Nothing
  <1>1. PendingOk(g)
    BY DEF AgentInv
  <1>2. lock # g
    BY NothingElse
  <1> QED BY <1>1, <1>2, Zenon DEF PendingOk

\* A call and a pending operation of the same ID carry the same body, so a
\* retry is never mistaken for another request (the journal's body check).
LEMMA SamePending ==
    ASSUME AgentInv, NEW t \in Tasks, call[t].stage # "idle", pending[call[t].id] # Nothing
    PROVE  pending[call[t].id] = call[t].body
  <1> DEFINE g == call[t].id
             q == Request(g[1])
  <1>1. g \in GuestIds /\ IsPart(g, client[t].index) /\ call[t].body = Part(q, client[t].index)
    BY Zenon, CallFacts
  <1>2. PendingOk(g)
    BY <1>1 DEF AgentInv
  <1>3. PICK n \in 1 .. MaxChunks : IsPart(g, n) /\ pending[g] = Part(q, n)
    BY <1>2, Zenon DEF PendingOk
  <1>4. n = client[t].index
    BY <1>1, <1>3, PartsDiffer DEF IsPart
  <1> QED BY <1>1, <1>3, <1>4, Zenon

\* The same for a recorded operation.
LEMMA SameRecord ==
    ASSUME AgentInv, NEW t \in Tasks, call[t].stage # "idle", operations[call[t].id] # Nothing
    PROVE  operations[call[t].id].body = call[t].body
  <1> DEFINE g == call[t].id
             q == Request(g[1])
  <1>1. g \in GuestIds /\ IsPart(g, client[t].index) /\ call[t].body = Part(q, client[t].index)
    BY CallFacts
  <1>2. RecordOk(g)
    BY <1>1 DEF AgentInv
  <1>3. PICK n \in 1 .. MaxChunks : IsPart(g, n) /\ operations[g].body = Part(q, n)
    BY <1>2, Zenon DEF RecordOk
  <1>4. n = client[t].index
    BY <1>1, <1>3, PartsDiffer DEF IsPart
  <1> QED BY <1>1, <1>3, <1>4, Zenon

\* An exec whose container is gone is refused before the journal is read.
LEMMA LookupStep ==
    ASSUME AgentInv, NEW t \in Tasks, Lookup(t), UNCHANGED driverVars
    PROVE  AgentInv'
  <1>1. call[t].stage # "idle" /\ call[t].body.kind = "exec" /\ lock = Nothing
    BY Zenon DEF Lookup, Free
  <1>2. UNCHANGED <<operations, pending, lock, box, live, stdio, job, shutdown, applied>>
    BY DEF Lookup
  <1>3. CASE call' = [call EXCEPT ![t].stage = "admitted"]
    BY Zenon, <1>1, <1>2, <1>3, StageShape, CallStep
  <1>4. CASE Answer(t, "error")
    <2>1. pending[call[t].id] = Nothing
      <3> SUFFICES ASSUME pending[call[t].id] # Nothing PROVE FALSE
        OBVIOUS
      <3>1. pending[call[t].id].kind \in StdinKinds
        BY <1>1, CallFacts, FreeMeansStdin
      <3> QED BY <1>1, <3>1, SamePending DEF StdinKinds
    <2> QED BY <1>1, <1>2, <1>4, <2>1, AnswerShape, CallStep
  <1> QED BY <1>3, <1>4 DEF Lookup

\* A recorded operation is answered from its record.
LEMMA ReplayStep ==
    ASSUME AgentInv, NEW t \in Tasks, Replay(t), UNCHANGED driverVars
    PROVE  AgentInv'
  <1> DEFINE g == call[t].id
  <1>1. call[t].stage # "idle" /\ operations[g] # Nothing
    BY DEF Replay
  <1>2. UNCHANGED <<operations, pending, lock, box, live, stdio, job, shutdown, applied>>
    BY Zenon DEF Replay
  <1>3. g \in GuestIds /\ operations[g].body = call[t].body
    BY Zenon, <1>1, CallFacts, SameRecord
  <1>4. Answer(t, operations[g].outcome)
    BY Zenon, <1>3 DEF Replay
  <1>5. operations[g] \in Records
    BY <1>1, <1>3 DEF AgentInv, GuestTypes
  <1>6. operations[g].outcome \in {"ok", "error"}
    BY <1>5 DEF Records
  <1>7. pending[g] = Nothing
    BY <1>1, <1>3, Zenon DEF AgentInv, PendingOk
  <1>8. operations[g].outcome = "ok" <=> Done(g)
    BY <1>1, Zenon DEF Done
  <1> HIDE DEF g
  <1>9. /\ call' \in [Tasks -> Calls] /\ call'[t].stage = "replied" /\ call'[t].id = call[t].id
        /\ call'[t].body = call[t].body /\ call'[t].reply = operations[g].outcome
        /\ \A d \in Tasks \ {t} : call'[d] = call[d]
    BY <1>4, <1>6, AnswerShape
  <1> QED BY <1>1, <1>2, <1>7, <1>8, <1>9, CallStep DEF g

\* A pending operation is joined, never refused as reused.
LEMMA JoinStep ==
    ASSUME AgentInv, NEW t \in Tasks, Join(t), UNCHANGED driverVars
    PROVE  AgentInv'
  <1>1. call[t].stage # "idle" /\ pending[call[t].id] # Nothing
    BY DEF Join
  <1>2. UNCHANGED <<operations, pending, lock, box, live, stdio, job, shutdown, applied>>
    BY DEF Join
  <1>3. pending[call[t].id] = call[t].body
    BY <1>1, SamePending
  <1>4. pending[call[t].id].kind \notin SyncKinds
    BY <1>1, CallFacts, Zenon DEF AgentInv, PendingOk
  <1>5. call' = [call EXCEPT ![t].stage = "waiting"]
    BY <1>3, <1>4, Zenon DEF Join
  <1> QED BY Zenon, <1>1, <1>2, <1>5, StageShape, CallStep

\* A full journal refuses what it has not seen.
LEMMA ExhaustedStep ==
    ASSUME AgentInv, NEW t \in Tasks, Exhausted(t), UNCHANGED driverVars
    PROVE  AgentInv'
  <1>1. /\ call[t].stage # "idle" /\ pending[call[t].id] = Nothing
        /\ operations[call[t].id] = Nothing
    BY DEF Exhausted, Unseen
  <1>2. UNCHANGED <<operations, pending, lock, box, live, stdio, job, shutdown, applied>>
    BY DEF Exhausted
  <1>3. ~Done(call[t].id)
    BY <1>1 DEF Done
  <1>4. Answer(t, "exhausted")
    BY DEF Exhausted
  <1> QED BY <1>1, <1>2, <1>3, <1>4, AnswerShape, CallStep

\* Observation refreshes the record and may end what init left behind.
LEMMA ObserveStep ==
    ASSUME AgentInv, Observe, UNCHANGED driverVars
    PROVE  AgentInv'
  <1>1. box \in Boxes /\ Covered(live, box)
    BY Zenon, CoveredIsEnough DEF Observe, AgentInv, GuestTypes
  <1>2. box' \in Boxes /\ box'.gen = box.gen /\ box'.execs = box.execs
    BY <1>1, RefreshKeeps DEF Observe
  <1>3. Covered(live, box')
    BY <1>1, <1>2, CoversSame
  <1>4. live' \subseteq live
    BY DEF Observe
  <1>5. Covered(live', box') /\ shutdown' = shutdown
    BY <1>3, <1>4, CoversLess DEF Observe
  <1>6. Covered(live, box)'
    BY <1>5 DEF Covered, Owned
  <1> QED BY Zenon, <1>2, <1>6, BoxStep DEF Observe

\* A process exits.
LEMMA ExitStep ==
    ASSUME AgentInv, NEW k \in live, ProcessExit(k), UNCHANGED driverVars
    PROVE  AgentInv'
  <1>1. Covered(live, box) /\ box \in Boxes \cup {Nothing}
    BY CoveredIsEnough DEF AgentInv, GuestTypes
  <1>2. live' \subseteq live /\ box' = box /\ shutdown' = shutdown
    BY DEF ProcessExit
  <1>3. Covered(live, box)'
    BY <1>1, <1>2 DEF Covered, Owned
  <1> QED BY <1>1, <1>2, <1>3, BoxStep DEF ProcessExit

\* The shutdown is decided on.
LEMMA ShutdownBeginStep ==
    ASSUME AgentInv, ShutdownBegin, UNCHANGED driverVars
    PROVE  AgentInv'
  <1>1. Covered(live, box) /\ box \in Boxes \cup {Nothing}
    BY CoveredIsEnough DEF AgentInv, GuestTypes
  <1>2. live' = live /\ box' = box /\ shutdown = "none"
    BY DEF ShutdownBegin
  <1>3. Covered(live, box)'
    BY <1>1, <1>2 DEF Covered, Owned
  <1> QED BY <1>1, <1>2, <1>3, BoxStep DEF ShutdownBegin

\* The shutdown drops the record; it reports success only when nothing runs.
LEMMA ShutdownRunStep ==
    ASSUME AgentInv, ShutdownRun, UNCHANGED driverVars
    PROVE  AgentInv'
  <1>1. Covered(live, box) /\ box \in Boxes \cup {Nothing} /\ box' = Nothing
    BY CoveredIsEnough DEF AgentInv, GuestTypes, ShutdownRun
  <1>2. shutdown # "failed"
    BY DEF ShutdownRun
  <1>3. shutdown' = "failed" \/ live' = {}
    <2>1. CASE box = Nothing /\ UNCHANGED live
      BY <1>1, <1>2, <2>1 DEF Covered, Owned
    <2>2. CASE box # Nothing /\ \E s \in ForceStopAll(box) :
                 live' = s.live /\ shutdown' = IF s.ok = "ok" THEN "ok" ELSE "failed"
      BY <1>1, <1>2, <2>2, StopKeeps
    <2>3. CASE shutdown' = "failed"
      BY <2>3
    <2> QED BY <2>1, <2>2, <2>3 DEF ShutdownRun
  <1>4. Covered(live, box)'
    BY <1>1, <1>3 DEF Covered
  <1> QED BY ZenonT(30), <1>1, <1>4, BoxStep DEF ShutdownRun

-----------------------------------------------------------------------------
(* Steps of the journal.                                                     *)

\* Successes that stay recorded keep the parts done.
LEMMA PartsStay ==
    ASSUME NEW p, NEW n, host' = host, Request(p) \in Requests,
           n \in 1 .. Request(p).chunks, PartsDone(p, n),
           \A h \in GuestIds : Done(h) => Done(h)'
    PROVE  PartsDone(p, n)'
  <1>1. Request(p).chunks \in Nat
    BY PartIds
  <1>2. \A m \in 1 .. n - 1 : m \in 1 .. Request(p).chunks
    BY <1>1
  <1>3. \A m \in 1 .. n - 1 : GuestId(Request(p), m) \in GuestIds
    BY <1>2, PartIds
  <1>4. \A m \in 1 .. n - 1 : Done(GuestId(Request(p), m))'
    BY <1>3, Zenon DEF PartsDone, Request
  <1> QED BY <1>4, Zenon DEF PartsDone, Request

\* A new claim, by the holder of the mutex or by an input job.
LEMMA ClaimsStep ==
    ASSUME AgentInv, NEW t \in Tasks, Unseen(t), call[t].body.kind \notin SyncKinds,
           pending' = [pending EXCEPT ![call[t].id] = call[t].body],
           call' = [call EXCEPT ![t].stage = "waiting"],
           \A h \in GuestIds \ {call[t].id} : job'[h] = job[h],
           call[t].body.kind \in StdinKinds => job'[call[t].id] # Nothing /\ lock' = lock,
           call[t].body.kind \notin StdinKinds => job'[call[t].id] = Nothing /\ lock' = call[t].id,
           UNCHANGED operations, UNCHANGED driverVars
    PROVE  /\ pending' \in [GuestIds -> Bodies \cup {Nothing}]
           /\ call' \in [Tasks -> Calls]
           /\ \A p \in HostOps : RequestOk(p)' /\ RetainedOk(p)'
           /\ \A c \in Tasks : ClientOk(c)' /\ CallOk(c)' /\ ReplyOk(c)'
           /\ \A h \in GuestIds : PendingOk(h)' /\ RecordOk(h)' /\ AckOk(h)'
           /\ OwnersOk'
  <1> USE DEF driverVars
  <1>a. PICK g : g = call[t].id
    OBVIOUS
  <1>b. PICK r : r = call[t].body
    OBVIOUS
  <1>c. PICK n : n = client[t].index
    OBVIOUS
  <1>1. /\ call[t].stage # "idle" /\ lock = Nothing
        /\ operations[g] = Nothing /\ pending[g] = Nothing
    BY <1>a, Zenon DEF Unseen, Admitted, Free
  <1>2. /\ client[t].stage = "call" /\ g \in GuestIds /\ g[1] = client[t].op
        /\ host[g[1]].status = "sent" /\ IsPart(g, n)
        /\ r = Part(Request(g[1]), n) /\ r \in Bodies
        /\ n \in 1 .. MaxChunks
        /\ PartsDone(g[1], n) /\ Kept(g[1])
    BY <1>a, <1>b, <1>c, <1>1, CallFacts
  <1>3. pending \in [GuestIds -> Bodies \cup {Nothing}]
    BY DEF AgentInv, GuestTypes
  <1>4. pending' \in [GuestIds -> Bodies \cup {Nothing}]
    BY <1>a, <1>b, <1>2, <1>3
  <1>5. pending'[g] = r /\ \A h \in GuestIds \ {g} : pending'[h] = pending[h]
    BY <1>a, <1>b, <1>2, <1>3
  <1>6. r # Nothing
    BY <1>2, NothingElse
  <1>7. /\ call' \in [Tasks -> Calls] /\ call'[t].stage = "waiting" /\ call'[t].id = g
        /\ call'[t].body = r /\ \A d \in Tasks \ {t} : call'[d] = call[d]
    BY Zenon, <1>a, <1>b, StageShape
  <1>8. \A h \in GuestIds \ {g} : pending[h] # Nothing => pending[h].kind \in StdinKinds
    BY <1>1, FreeMeansStdin
  <1>9. \A d \in Tasks \ {t} : call[d].stage # "idle" => call[d].id \in GuestIds /\ call[d].id # g
    BY <1>a, <1>1, CallFacts
  <1>10. ASSUME NEW c \in Tasks PROVE ClientOk(c)'
    <2>1. client[c].stage # "call" => call'[c] = call[c]
      BY <1>2, <1>7, Zenon
    <2>2. ClientOk(c)
      BY DEF AgentInv
    <2> QED BY <2>1, <2>2, Zenon DEF ClientOk, Sending, Request
  <1>11. ASSUME NEW c \in Tasks PROVE CallOk(c)'
    <2>1. call'[c].stage # "idle" \/ call'[c] = call[c]
      BY <1>7, Zenon
    <2>2. call'[c].id = call[c].id /\ call'[c].body = call[c].body
      BY <1>a, <1>b, <1>7, Zenon
    <2> QED BY <2>1, <2>2, Zenon DEF AgentInv, CallOk, IsPart, PartsDone, Kept, Done, Request
  <1>12. ASSUME NEW c \in Tasks PROVE ReplyOk(c)'
    <2>1. CASE c = t
      BY <1>7, <2>1 DEF ReplyOk
    <2>2. CASE c # t
      <3>1. call'[c] = call[c] /\ client' = client
        BY <1>7, <2>2, Zenon
      <3>2. call[c].stage = "replied" => pending'[call[c].id] = pending[call[c].id]
        BY <1>5, <1>9, <2>2, Zenon
      <3>3. ReplyOk(c)
        BY DEF AgentInv
      <3> QED BY <3>1, <3>2, <3>3, Zenon DEF ReplyOk, Done
    <2> QED BY <2>1, <2>2
  <1>13. ASSUME NEW h \in GuestIds PROVE PendingOk(h)'
    <2>1. CASE h = g
      <3>1. IsPart(g, n)' /\ PartsDone(g[1], n)' /\ Kept(g[1])'
        BY <1>2, Zenon DEF IsPart, PartsDone, Kept, Done, Request
      <3>2. pending'[g] = Part(Request(g[1]), n)'
        BY <1>2, <1>5, Zenon DEF Request, Part
      <3>3. operations'[g] = Nothing /\ host'[g[1]].status = "sent"
        BY <1>1, <1>2, Zenon
      <3>4. /\ pending'[g].kind \notin SyncKinds
            /\ pending'[g].kind \in StdinKinds => job'[g] # Nothing
            /\ pending'[g].kind \notin StdinKinds => lock' = g /\ job'[g] = Nothing
        BY <1>a, <1>b, <1>5, Zenon
      <3> QED BY <1>2, <2>1, <3>1, <3>2, <3>3, <3>4, Zenon DEF PendingOk
    <2>2. CASE h # g
      <3>1. pending'[h] = pending[h] /\ job'[h] = job[h]
        BY <1>a, <1>5, <2>2, Zenon
      <3>2. pending[h] # Nothing => pending[h].kind \in StdinKinds
        BY <1>8, <2>2, Zenon
      <3>3. PendingOk(h)
        BY DEF AgentInv
      <3> QED BY <3>1, <3>2, <3>3, Zenon DEF PendingOk, IsPart, PartsDone, Kept, Done, Request
    <2> QED BY <2>1, <2>2
  <1>14. OwnersOk'
    <2>1. lock' # Nothing => pending'[lock'] # Nothing /\ pending'[lock'].kind \notin StdinKinds
      <3>1. CASE r.kind \in StdinKinds
        BY <1>b, <1>1, <3>1, Zenon
      <3>2. CASE r.kind \notin StdinKinds
        BY <1>a, <1>b, <1>5, <1>6, <3>2, Zenon
      <3> QED BY <3>1, <3>2
    <2>2. ASSUME NEW h \in GuestIds PROVE job'[h] # Nothing => pending'[h] # Nothing
      <3>1. CASE h = g
        BY <1>5, <1>6, <3>1, Zenon
      <3>2. CASE h # g
        BY <1>a, <1>5, <3>2, Zenon DEF AgentInv, OwnersOk
      <3> QED BY <3>1, <3>2
    <2> QED BY <2>1, <2>2, Zenon DEF OwnersOk
  <1> QED BY <1>4, <1>7, <1>10, <1>11, <1>12, <1>13, <1>14, HostFrame, RecordFrame, Zenon

\* A lifecycle mutation is claimed and its task keeps the mutex.
LEMMA ClaimStep ==
    ASSUME AgentInv, NEW t \in Tasks, Claim(t), UNCHANGED driverVars
    PROVE  AgentInv'
  <1> USE DEF driverVars
  <1>1. /\ Unseen(t) /\ call[t].stage # "idle"
        /\ call[t].body.kind \notin SyncKinds /\ call[t].body.kind \notin StdinKinds
        /\ pending' = [pending EXCEPT ![call[t].id] = call[t].body]
        /\ call' = [call EXCEPT ![t].stage = "waiting"] /\ lock' = call[t].id
        /\ UNCHANGED <<operations, box, live, stdio, job, shutdown, applied>>
    BY DEF Claim, Unseen
  <1>2. call[t].id \in GuestIds
    BY <1>1, CallFacts
  <1>3. job[call[t].id] = Nothing
    BY <1>1, <1>2, Zenon DEF Unseen, AgentInv, OwnersOk
  <1>4. /\ pending' \in [GuestIds -> Bodies \cup {Nothing}]
        /\ call' \in [Tasks -> Calls]
        /\ \A p \in HostOps : RequestOk(p)' /\ RetainedOk(p)'
        /\ \A c \in Tasks : ClientOk(c)' /\ CallOk(c)' /\ ReplyOk(c)'
        /\ \A h \in GuestIds : PendingOk(h)' /\ RecordOk(h)' /\ AckOk(h)'
        /\ OwnersOk'
    BY Zenon, <1>1, <1>3, ClaimsStep
  <1>5. GuestTypes' /\ DriverTypes'
    BY <1>1, <1>2, <1>4, Zenon DEF AgentInv, GuestTypes, DriverTypes
  <1>6. \A g \in GuestIds : RunOk(g)' /\ FedOk(g)'
    <2>1. \A g \in GuestIds : RunOk(g)'
      BY <1>1, Zenon DEF AgentInv, RunOk, Ran
    <2>2. \A g \in GuestIds : FedOk(g)'
      BY <1>1, Zenon DEF AgentInv, FedOk, Fed, Input, Request, Done, Ran
    <2> QED BY <2>1, <2>2, Zenon
  <1>7. \A k \in Generations \X Procs : InputOk(k)'
    BY <1>1, InputFrame
  <1>8. NoOrphanProcess'
    BY <1>1, Zenon DEF AgentInv, NoOrphanProcess
  <1> QED BY <1>4, <1>5, <1>6, <1>7, <1>8, Zenon DEF AgentInv

\* A claimed operation is completed: its outcome is recorded, the claim is
\* dropped, and everyone who waits is answered.
LEMMA CompleteStep ==
    ASSUME AgentInv, NEW g \in GuestIds, NEW o \in {"ok", "error"},
           pending[g] # Nothing, Complete(g, o),
           job' \in [GuestIds -> Jobs \cup {Nothing}], job'[g] = Nothing,
           \A h \in GuestIds \ {g} : job'[h] = job[h],
           lock' = IF lock = g THEN Nothing ELSE lock,
           applied' \in [GuestIds -> Nat], applied'[g] > 0,
           \A h \in GuestIds \ {g} : applied'[h] = applied[h],
           o = "ok" /\ Request(g[1]).body.kind = "write" => Fed(g),
           box' \in Boxes \cup {Nothing}, Covered(live, box)',
           UNCHANGED stdio, UNCHANGED driverVars
    PROVE  AgentInv'
  <1> USE DEF driverVars
  <1>1. /\ operations \in [GuestIds -> Records \cup {Nothing}]
        /\ pending \in [GuestIds -> Bodies \cup {Nothing}]
        /\ call \in [Tasks -> Calls]
    BY Zenon DEF AgentInv, GuestTypes
  <1>2. PICK r \in Records : r = [body |-> pending[g], outcome |-> o]
    BY ZenonT(30), <1>1 DEF Records
  <1>3. r # Nothing /\ r.body = pending[g] /\ r.outcome = o
    BY <1>2, NothingElse
  <1>4. /\ operations' \in [GuestIds -> Records \cup {Nothing}]
        /\ operations'[g] = r
        /\ \A h \in GuestIds \ {g} : operations'[h] = operations[h]
    BY Zenon, <1>1, <1>2 DEF Complete
  <1>5. /\ pending' \in [GuestIds -> Bodies \cup {Nothing}]
        /\ pending'[g] = Nothing
        /\ \A h \in GuestIds \ {g} : pending'[h] = pending[h]
    BY ZenonT(30), <1>1 DEF Complete
  <1>6. ASSUME NEW t \in Tasks
        PROVE  /\ call'[t] \in Calls
               /\ call'[t].id = call[t].id /\ call'[t].body = call[t].body
               /\ (call'[t].stage = "idle") <=> (call[t].stage = "idle")
               /\ IF call[t].stage = "waiting" /\ call[t].id = g
                  THEN call'[t].stage = "replied" /\ call'[t].reply = o
                  ELSE call'[t] = call[t]
    <2>1. call'[t] = IF call[t].stage = "waiting" /\ call[t].id = g
                     THEN [call[t] EXCEPT !.stage = "replied", !.reply = o] ELSE call[t]
      BY ZenonT(30) DEF Complete
    <2>2. call[t] \in Calls
      BY <1>1
    <2>3. CASE call[t].stage = "waiting" /\ call[t].id = g
      <3>1. PICK u \in Calls : u = call[t]
        BY <2>2, Zenon
      <3>2. PICK v : v = [u EXCEPT !.stage = "replied", !.reply = o]
        OBVIOUS
      <3>3. v \in Calls /\ v.id = u.id /\ v.body = u.body /\ v.stage = "replied" /\ v.reply = o
        BY ZenonT(30), <3>2 DEF Calls
      <3>4. call'[t] = v
        BY <2>1, <2>3, <3>1, <3>2, Zenon
      <3> QED BY <2>3, <3>1, <3>3, <3>4, Zenon
    <2>4. CASE ~(call[t].stage = "waiting" /\ call[t].id = g)
      BY <2>1, <2>2, <2>4, Zenon
    <2> QED BY ZenonT(30), <2>3, <2>4
  <1>7. call' \in [Tasks -> Calls]
    <2>1. call' = [t \in Tasks |-> call'[t]]
      BY Zenon DEF Complete
    <2> QED BY <1>6, <2>1
  <1>8. GuestTypes' /\ DriverTypes'
    <2>1. lock' \in GuestIds \cup {Nothing}
      BY Zenon DEF AgentInv, GuestTypes
    <2> QED BY <1>4, <1>5, <1>7, <2>1, Zenon DEF AgentInv, GuestTypes, DriverTypes
  <1>9. operations[g] = Nothing /\ PendingOk(g)
    BY Zenon DEF AgentInv, PendingOk
  <1>10. /\ \A h \in GuestIds : Done(h) => Done(h)'
         /\ Done(g)' <=> o = "ok"
         /\ \A h \in GuestIds \ {g} : Done(h)' <=> Done(h)
    <2>1. Done(g)' <=> o = "ok"
      BY <1>3, <1>4 DEF Done
    <2>2. \A h \in GuestIds \ {g} : Done(h)' <=> Done(h)
      BY <1>4, Zenon DEF Done
    <2>3. ~Done(g)
      BY <1>9 DEF Done
    <2> QED BY <2>1, <2>2, <2>3, Zenon
  <1>11. \A p, n : IsPart(p, n)' <=> IsPart(p, n)
    BY Zenon DEF IsPart, Request
  <1>12. \A p : Kept(p)' <=> Kept(p)
    BY Zenon DEF Kept, Request
  <1>13. ASSUME NEW h \in GuestIds, NEW n, IsPart(h, n), PartsDone(h[1], n)
         PROVE  PartsDone(h[1], n)'
    BY <1>10, <1>13, PartsStay DEF IsPart
  <1>14. ASSUME NEW c \in Tasks PROVE ClientOk(c)'
    <2>1. ClientOk(c)
      BY Zenon DEF AgentInv
    <2> QED BY <1>6, <2>1, Zenon DEF ClientOk, Sending, Request
  <1>15. ASSUME NEW c \in Tasks PROVE CallOk(c)'
    <2>1. CallOk(c)
      BY DEF AgentInv
    <2>2. client[c].stage = "call" => PartsDone(client[c].op, client[c].index)'
      BY <1>13, <2>1, Zenon DEF CallOk
    <2>3. client[c].stage = "call" => call'[c].body = Part(Request(client[c].op), client[c].index)'
      BY <1>6, <2>1, Zenon DEF CallOk, Request, Part
    <2> QED BY <1>6, <1>11, <1>12, <2>1, <2>2, <2>3, ZenonT(30) DEF CallOk, PartsDone
  <1>16. ASSUME NEW c \in Tasks PROVE ReplyOk(c)'
    <2>1. CASE call[c].stage = "waiting" /\ call[c].id = g
      BY <1>5, <1>6, <1>10, <2>1, Zenon DEF ReplyOk
    <2>2. CASE ~(call[c].stage = "waiting" /\ call[c].id = g)
      <3>1. call'[c] = call[c]
        BY <1>6, <2>2, Zenon
      <3>2. ReplyOk(c) /\ CallOk(c)
        BY DEF AgentInv
      <3>3. ASSUME client[c].stage = "call", call[c].stage = "replied"
            PROVE  call[c].id \in GuestIds \ {g}
        BY <3>2, <3>3, Zenon DEF ReplyOk, CallOk
      <3> QED BY <1>5, <1>10, <3>1, <3>2, <3>3, Zenon DEF ReplyOk
    <2> QED BY Zenon, <2>1, <2>2
  <1>17. ASSUME NEW h \in GuestIds PROVE PendingOk(h)'
    <2>1. CASE h = g
      BY <1>5, <2>1 DEF PendingOk
    <2>2. CASE h # g /\ pending[h] # Nothing
      <3>1. /\ pending'[h] = pending[h] /\ operations'[h] = operations[h] /\ job'[h] = job[h]
            /\ lock = h => lock' = h
        BY <1>4, <1>5, <2>2, Zenon
      <3>2. PendingOk(h)
        BY Zenon DEF AgentInv
      <3>3. PICK n \in 1 .. MaxChunks : /\ IsPart(h, n) /\ pending[h] = Part(Request(h[1]), n)
                                        /\ PartsDone(h[1], n)
        BY <2>2, <3>2, Zenon DEF PendingOk
      <3>4. IsPart(h, n)' /\ PartsDone(h[1], n)'
        BY <1>11, <1>13, <3>3, Zenon
      <3>5. pending'[h] = Part(Request(h[1]), n)'
        BY <3>1, <3>3, Zenon DEF Request, Part
      <3>6. /\ host[h[1]].status = "sent" /\ Kept(h[1]) /\ operations[h] = Nothing
            /\ pending[h].kind \notin SyncKinds
            /\ pending[h].kind \in StdinKinds => job[h] # Nothing
            /\ pending[h].kind \notin StdinKinds => lock = h /\ job[h] = Nothing
        BY <2>2, <3>2, Zenon DEF PendingOk
      <3> QED BY <1>12, <3>1, <3>3, <3>4, <3>5, <3>6, Zenon DEF PendingOk
    <2>3. CASE h # g /\ pending[h] = Nothing
      BY <1>5, <2>3, Zenon DEF PendingOk
    <2> QED BY ZenonT(30), <2>1, <2>2, <2>3
  <1>18. ASSUME NEW h \in GuestIds PROVE RecordOk(h)'
    <2>1. CASE h = g
      <3>1. PICK n \in 1 .. MaxChunks : /\ IsPart(g, n) /\ pending[g] = Part(Request(g[1]), n)
                                        /\ PartsDone(g[1], n)
        BY <1>9, Zenon DEF PendingOk
      <3>2. IsPart(g, n)' /\ PartsDone(g[1], n)'
        BY <1>11, <1>13, <3>1, Zenon
      <3>3. operations'[g].body = Part(Request(g[1]), n)'
        BY <1>3, <1>4, <3>1, Zenon DEF Request, Part
      <3>4. host'[g[1]].status # "new" /\ Kept(g[1])'
        BY <1>9, <1>12, Zenon DEF PendingOk
      <3> QED BY <2>1, <3>1, <3>2, <3>3, <3>4, Zenon DEF RecordOk
    <2>2. CASE h # g /\ operations[h] # Nothing
      <3>1. operations'[h] = operations[h]
        BY <1>4, <2>2, Zenon
      <3>2. RecordOk(h)
        BY Zenon DEF AgentInv
      <3>3. PICK n \in 1 .. MaxChunks : /\ IsPart(h, n)
                                        /\ operations[h].body = Part(Request(h[1]), n)
                                        /\ host[h[1]].status = "sent" => PartsDone(h[1], n)
        BY <2>2, <3>2, Zenon DEF RecordOk
      <3>4. IsPart(h, n)' /\ (host'[h[1]].status = "sent" => PartsDone(h[1], n)')
        BY <1>11, <1>13, <3>3, Zenon
      <3>5. operations'[h].body = Part(Request(h[1]), n)'
        BY <3>1, <3>3, Zenon DEF Request, Part
      <3>6. host'[h[1]].status # "new" /\ Kept(h[1])'
        BY <1>12, <2>2, <3>2, Zenon DEF RecordOk
      <3> QED BY <3>3, <3>4, <3>5, <3>6, Zenon DEF RecordOk
    <2>3. CASE h # g /\ operations[h] = Nothing
      BY <1>4, <2>3, Zenon DEF RecordOk
    <2> QED BY Zenon, <2>1, <2>2, <2>3
  <1>19. ASSUME NEW h \in GuestIds PROVE AckOk(h)'
    <2>1. CASE h = g
      <3>1. host[g[1]].status = "sent"
        BY <1>9, Zenon DEF PendingOk
      <3>2. ASSUME NEW c \in Tasks, client[c].op = g[1]
            PROVE  client[c].stage \notin {"ack_call", "ack_done"}
        <4>1. ClientOk(c)
          BY Zenon DEF AgentInv
        <4>2. client[c].stage \in {"ack_gate", "ack_call", "ack_done"}
                => host[g[1]].status \in Decided
          BY <3>2, <4>1, Zenon DEF ClientOk
        <4> QED BY Zenon, <3>1, <4>2 DEF Decided
      <3> QED BY <2>1, <3>1, <3>2, Zenon DEF AckOk
    <2>2. CASE h # g
      BY <1>4, <2>2, ZenonT(30) DEF AgentInv, AckOk
    <2> QED BY Zenon, <2>1, <2>2
  <1>20. ASSUME NEW h \in GuestIds PROVE RunOk(h)'
    <2>1. CASE h = g
      <3>1. applied'[g] # 0 /\ operations'[g] # Nothing
        BY <1>3, <1>4
      <3> QED BY <2>1, <3>1, Zenon DEF RunOk
    <2>2. CASE h # g
      BY <1>4, <2>2, Zenon DEF AgentInv, RunOk, Ran
    <2> QED BY <2>1, <2>2
  <1>21. ASSUME NEW h \in GuestIds PROVE FedOk(h)'
    <2>1. Fed(h)' <=> Fed(h)
      BY Zenon DEF Fed, Input, Request
    <2>2. FedOk(h)
      BY DEF AgentInv
    <2>3. CASE h = g
      <3>1. ~Ran(g)'
        BY Zenon DEF Ran
      <3> QED BY <1>10, <2>1, <2>2, <2>3, <3>1, Zenon DEF FedOk, Request
    <2>4. CASE h # g
      <3>1. Ran(h)' <=> Ran(h)
        BY <2>4, Zenon DEF Ran
      <3>2. job'[h] = job[h]
        BY <2>4, ZenonT(30)
      <3> QED BY <1>10, <2>1, <2>2, <2>4, <3>1, <3>2, Zenon DEF FedOk, Request
    <2> QED BY <2>3, <2>4
  <1>22. \A k \in Generations \X Procs : InputOk(k)'
    <2>1. \A h \in GuestIds : applied[h] > 0 => applied'[h] > 0
      BY Zenon
    <2> QED BY <2>1, InputFrame
  <1>23. OwnersOk'
    <2>1. lock' # Nothing => lock' = lock /\ lock' \in GuestIds \ {g}
      BY Zenon DEF AgentInv, GuestTypes
    <2> QED BY <1>5, <2>1, Zenon DEF AgentInv, OwnersOk
  <1>24. NoOrphanProcess'
    BY Zenon DEF NoOrphanProcess, Covered, Owned
  <1> QED BY <1>8, <1>14, <1>15, <1>16, <1>17, <1>18, <1>19, <1>20, <1>21, <1>22, <1>23, <1>24,
             HostFrame, Zenon DEF AgentInv

\* The detached task carries out its handler and releases the mutex.
LEMMA RunStep ==
    ASSUME AgentInv, Run, UNCHANGED driverVars
    PROVE  AgentInv'
  <1>1. PICK g : g = lock
    OBVIOUS
  <1>2. g \in GuestIds /\ pending[g] # Nothing /\ pending[g].kind \notin StdinKinds
    BY <1>1 DEF Run, AgentInv, GuestTypes, OwnersOk
  <1>3. PICK s \in Handler(pending[g]) : Carry(s) /\ Complete(g, s.ok)
    BY <1>1 DEF Run, Outcomes
  <1>4. pending[g] \in Bodies
    BY <1>2 DEF AgentInv, GuestTypes
  <1>5. box \in Boxes \cup {Nothing} /\ Covered(live, box)
    BY CoveredIsEnough DEF AgentInv, GuestTypes
  <1>6. Sound(s)
    BY <1>2, <1>3, <1>4, <1>5, HandlerSound
  <1>7. box' = s.box /\ live' = s.live
    BY <1>3 DEF Carry
  <1>8. UNCHANGED <<stdio, job, shutdown>> /\ lock' = Nothing
        /\ applied' = [applied EXCEPT ![g] = @ + 1]
    BY <1>1 DEF Run
  <1>9. box' \in Boxes \cup {Nothing} /\ Covered(live, box)' /\ s.ok \in {"ok", "error"}
    BY <1>6, <1>7, <1>8 DEF Sound, Covered, Owned
  <1>10. PendingOk(g)
    BY <1>2 DEF AgentInv
  <1>11. job[g] = Nothing
    BY <1>2, <1>10, Zenon DEF PendingOk
  <1>12. Request(g[1]).body.kind # "write"
    <2>1. PICK n \in 1 .. MaxChunks : IsPart(g, n) /\ pending[g] = Part(Request(g[1]), n)
      BY <1>2, <1>10, Zenon DEF PendingOk
    <2>2. pending[g].kind = Request(g[1]).body.kind
      BY <2>1, PartBody DEF IsPart
    <2> QED BY <1>2, <2>2 DEF StdinKinds
  <1>13. /\ applied' \in [GuestIds -> Nat] /\ applied'[g] > 0
         /\ \A h \in GuestIds \ {g} : applied'[h] = applied[h]
    <2>1. applied \in [GuestIds -> Nat]
      BY DEF AgentInv, GuestTypes
    <2> QED BY <1>2, <1>8, <2>1
  <1>14. job' \in [GuestIds -> Jobs \cup {Nothing}] /\ job' = job
    BY <1>8 DEF AgentInv, GuestTypes
  <1>15. lock' = IF lock = g THEN Nothing ELSE lock
    BY <1>1, <1>8
  <1> QED BY Zenon, <1>2, <1>3, <1>8, <1>9, <1>11, <1>12, <1>13, <1>14, <1>15, CompleteStep

\* The input job records what happened.
LEMMA StdinDoneStep ==
    ASSUME AgentInv, NEW g \in GuestIds, StdinDone(g), UNCHANGED driverVars
    PROVE  AgentInv'
  <1>1. PICK o : o = job[g].result
    OBVIOUS
  <1>2. /\ lock = Nothing /\ job[g] # Nothing /\ o # "none" /\ Complete(g, o)
        /\ job' = [job EXCEPT ![g] = Nothing]
        /\ UNCHANGED <<lock, box, live, stdio, shutdown, applied>>
    BY <1>1 DEF StdinDone, Free
  <1>3. job \in [GuestIds -> Jobs \cup {Nothing}] /\ applied \in [GuestIds -> Nat]
    BY DEF AgentInv, GuestTypes
  <1>4. job[g] \in Jobs
    BY <1>2, <1>3
  <1>5. o \in {"ok", "error"}
    BY <1>1, <1>2, <1>4 DEF Jobs
  <1>6. /\ job' \in [GuestIds -> Jobs \cup {Nothing}] /\ job'[g] = Nothing
        /\ \A h \in GuestIds \ {g} : job'[h] = job[h]
    BY <1>2, <1>3
  <1>7. pending[g] # Nothing
    BY ZenonT(30), <1>2 DEF AgentInv, OwnersOk
  <1>8. Ran(g)
    BY <1>1, <1>2 DEF Ran
  <1>9. applied[g] # 0
    BY <1>8, Zenon DEF AgentInv, RunOk
  <1>10. applied' \in [GuestIds -> Nat] /\ applied'[g] > 0
    BY <1>2, <1>3, <1>9
  <1>11. Request(g[1]) \in Requests
    BY <1>7, Zenon DEF AgentInv, PendingOk, IsPart
  <1>12. o = "ok" /\ Request(g[1]).body.kind = "write" => Fed(g)
    <2>1. FedOk(g) /\ Request(g[1]) # Nothing
      BY ZenonT(30), <1>11, NothingElse DEF AgentInv
    <2> QED BY <1>1, <1>8, <2>1, Zenon DEF FedOk
  <1>13. box' \in Boxes \cup {Nothing} /\ Covered(live, box)'
    BY <1>2, CoveredIsEnough DEF AgentInv, GuestTypes, Covered, Owned
  <1>14. lock' = IF lock = g THEN Nothing ELSE lock
    BY <1>2
  <1>15. \A h \in GuestIds \ {g} : applied'[h] = applied[h]
    BY <1>2
  <1>16. stdio' = stdio
    BY <1>2
  <1> QED BY Zenon, <1>2, <1>5, <1>6, <1>7, <1>10, <1>12, <1>13, <1>14, <1>15, <1>16, CompleteStep

\* A signal or a resize is carried out and recorded in one step.
LEMMA RunSyncStep ==
    ASSUME AgentInv, NEW t \in Tasks, RunSync(t), UNCHANGED driverVars
    PROVE  AgentInv'
  <1> USE DEF driverVars
  <1>a. PICK g : g = call[t].id
    OBVIOUS
  <1>b. PICK r : r = call[t].body
    OBVIOUS
  <1>c. PICK n : n = client[t].index
    OBVIOUS
  <1>1. /\ call[t].stage # "idle" /\ r.kind \in SyncKinds
        /\ operations[g] = Nothing /\ pending[g] = Nothing
        /\ applied' = [applied EXCEPT ![g] = @ + 1]
        /\ UNCHANGED <<pending, lock, stdio, job, shutdown>>
    BY <1>a, <1>b, Zenon DEF RunSync, Unseen
  <1>2. /\ client[t].stage = "call" /\ g \in GuestIds /\ g[1] = client[t].op
        /\ host[g[1]].status = "sent" /\ IsPart(g, n)
        /\ r = Part(Request(g[1]), n) /\ r \in Bodies /\ n \in 1 .. MaxChunks
        /\ r.kind = Request(g[1]).body.kind
        /\ PartsDone(g[1], n) /\ Kept(g[1])
        /\ \A d \in Tasks \ {t} : call[d].stage # "idle" => call[d].id # g
    BY Zenon, <1>a, <1>b, <1>c, <1>1, CallFacts
  <1>3. PICK s \in Handler(r) : /\ Carry(s) /\ Answer(t, s.ok)
                                /\ operations' = [operations EXCEPT ![g] = [body |-> r, outcome |-> s.ok]]
    BY <1>a, <1>b, Zenon DEF RunSync, Outcomes
  <1>4. box \in Boxes \cup {Nothing} /\ Covered(live, box)
    BY CoveredIsEnough DEF AgentInv, GuestTypes
  <1>5. Sound(s)
    BY Zenon, <1>1, <1>2, <1>3, <1>4, HandlerSound DEF SyncKinds, StdinKinds
  <1>6. PICK o \in {"ok", "error"} : o = s.ok
    BY <1>5 DEF Sound
  <1>7. box' \in Boxes \cup {Nothing} /\ Covered(live, box)'
    BY ZenonT(30), <1>1, <1>3, <1>5 DEF Sound, Covered, Owned, Carry
  <1>8. PICK x \in Records : x = [body |-> r, outcome |-> o]
    BY Zenon, <1>2 DEF Records
  <1>9. x # Nothing /\ x.body = r /\ x.outcome = o
    BY <1>8, NothingElse
  <1>10. /\ operations' \in [GuestIds -> Records \cup {Nothing}]
         /\ operations'[g] = x
         /\ \A h \in GuestIds \ {g} : operations'[h] = operations[h]
    <2>1. operations \in [GuestIds -> Records \cup {Nothing}]
      BY Zenon DEF AgentInv, GuestTypes
    <2> QED BY Zenon, <1>2, <1>3, <1>6, <1>8, <2>1
  <1>11. /\ call' \in [Tasks -> Calls] /\ call'[t].stage = "replied" /\ call'[t].id = g
         /\ call'[t].body = r /\ call'[t].reply = o
         /\ \A d \in Tasks \ {t} : call'[d] = call[d]
    BY ZenonT(30), <1>a, <1>b, <1>3, <1>6, AnswerShape
  <1>12. /\ applied' \in [GuestIds -> Nat] /\ applied'[g] > 0
         /\ \A h \in GuestIds \ {g} : applied'[h] = applied[h]
    <2>1. applied \in [GuestIds -> Nat]
      BY DEF AgentInv, GuestTypes
    <2> QED BY <1>1, <1>2, <2>1
  <1>13. GuestTypes' /\ DriverTypes'
    BY <1>1, <1>7, <1>10, <1>11, <1>12, Zenon DEF AgentInv, GuestTypes, DriverTypes
  <1>14. /\ \A h \in GuestIds : Done(h) => Done(h)'
         /\ Done(g)' <=> o = "ok"
         /\ \A h \in GuestIds \ {g} : Done(h)' <=> Done(h)
    <2>1. Done(g)' <=> o = "ok"
      BY <1>9, <1>10 DEF Done
    <2>2. \A h \in GuestIds \ {g} : Done(h)' <=> Done(h)
      BY <1>10, Zenon DEF Done
    <2>3. ~Done(g)
      BY <1>1 DEF Done
    <2> QED BY <2>1, <2>2, <2>3, ZenonT(30)
  <1>15. \A h, m : IsPart(h, m)' <=> IsPart(h, m)
    BY Zenon DEF IsPart, Request
  <1>16. \A p : Kept(p)' <=> Kept(p)
    BY Zenon DEF Kept, Request
  <1>17. ASSUME NEW h \in GuestIds, NEW m, IsPart(h, m), PartsDone(h[1], m)
         PROVE  PartsDone(h[1], m)'
    BY <1>14, <1>17, PartsStay DEF IsPart
  <1>18. ASSUME NEW c \in Tasks PROVE ClientOk(c)'
    <2>1. ClientOk(c)
      BY DEF AgentInv
    <2>2. client[c].stage # "call" => call'[c] = call[c]
      BY <1>2, <1>11, Zenon
    <2> QED BY <2>1, <2>2, Zenon DEF ClientOk, Sending, Request
  <1>19. ASSUME NEW c \in Tasks PROVE CallOk(c)'
    <2>1. CallOk(c)
      BY DEF AgentInv
    <2>2. /\ call'[c].id = call[c].id /\ call'[c].body = call[c].body
          /\ call[c].stage # "idle" => call'[c].stage # "idle"
      BY <1>a, <1>b, <1>11, Zenon
    <2>3. client[c].stage = "call" => PartsDone(client[c].op, client[c].index)'
      BY <1>17, <2>1, Zenon DEF CallOk
    <2>4. client[c].stage = "call" => call'[c].body = Part(Request(client[c].op), client[c].index)'
      BY <2>1, <2>2, Zenon DEF CallOk, Request, Part
    <2> QED BY <1>15, <1>16, <2>1, <2>2, <2>3, <2>4, Zenon DEF CallOk, PartsDone
  <1>20. ASSUME NEW c \in Tasks PROVE ReplyOk(c)'
    <2>1. CASE c = t
      BY <1>1, <1>11, <1>14, <2>1, Zenon DEF ReplyOk
    <2>2. CASE c # t
      <3>1. call'[c] = call[c]
        BY <1>11, <2>2, Zenon
      <3>2. ReplyOk(c) /\ CallOk(c)
        BY DEF AgentInv
      <3>3. ASSUME client[c].stage = "call", call[c].stage = "replied"
            PROVE  call[c].id \in GuestIds \ {g}
        BY <1>2, <2>2, <3>2, <3>3, Zenon DEF CallOk
      <3> QED BY <1>1, <1>14, <3>1, <3>2, <3>3, Zenon DEF ReplyOk
    <2> QED BY <2>1, <2>2
  <1>21. ASSUME NEW h \in GuestIds PROVE PendingOk(h)'
    <2>1. CASE h = g
      BY <1>1, <2>1 DEF PendingOk
    <2>2. CASE h # g /\ pending[h] # Nothing
      <3>1. operations'[h] = operations[h]
        BY <1>10, <2>2, Zenon
      <3>2. PendingOk(h)
        BY DEF AgentInv
      <3>3. PICK m \in 1 .. MaxChunks : /\ IsPart(h, m) /\ pending[h] = Part(Request(h[1]), m)
                                        /\ PartsDone(h[1], m)
        BY <2>2, <3>2, Zenon DEF PendingOk
      <3>4. IsPart(h, m)' /\ PartsDone(h[1], m)'
        BY <1>15, <1>17, <3>3, Zenon
      <3>5. pending'[h] = Part(Request(h[1]), m)'
        BY <1>1, <3>3, Zenon DEF Request, Part
      <3> QED BY <1>1, <1>16, <3>1, <3>2, <3>3, <3>4, <3>5, Zenon DEF PendingOk
    <2>3. CASE h # g /\ pending[h] = Nothing
      BY <1>1, <2>3, Zenon DEF PendingOk
    <2> QED BY ZenonT(30), <2>1, <2>2, <2>3
  <1>22. ASSUME NEW h \in GuestIds PROVE RecordOk(h)'
    <2>1. CASE h = g
      <3>1. IsPart(g, n)' /\ PartsDone(g[1], n)'
        BY <1>2, <1>15, <1>17, Zenon
      <3>2. operations'[g].body = Part(Request(g[1]), n)'
        BY <1>2, <1>9, <1>10, Zenon DEF Request, Part
      <3>3. host'[g[1]].status # "new" /\ Kept(g[1])'
        BY <1>2, <1>16, Zenon
      <3> QED BY <1>2, <2>1, <3>1, <3>2, <3>3, Zenon DEF RecordOk
    <2>2. CASE h # g /\ operations[h] # Nothing
      <3>1. operations'[h] = operations[h]
        BY <1>10, <2>2, Zenon
      <3>2. RecordOk(h)
        BY DEF AgentInv
      <3>3. PICK m \in 1 .. MaxChunks : /\ IsPart(h, m)
                                        /\ operations[h].body = Part(Request(h[1]), m)
                                        /\ host[h[1]].status = "sent" => PartsDone(h[1], m)
        BY <2>2, <3>2, Zenon DEF RecordOk
      <3>4. IsPart(h, m)' /\ (host'[h[1]].status = "sent" => PartsDone(h[1], m)')
        BY <1>15, <1>17, <3>3, Zenon
      <3>5. operations'[h].body = Part(Request(h[1]), m)'
        BY <3>1, <3>3, Zenon DEF Request, Part
      <3>6. host'[h[1]].status # "new" /\ Kept(h[1])'
        BY <1>16, <2>2, <3>2, Zenon DEF RecordOk
      <3> QED BY <3>3, <3>4, <3>5, <3>6, Zenon DEF RecordOk
    <2>3. CASE h # g /\ operations[h] = Nothing
      BY <1>10, <2>3, Zenon DEF RecordOk
    <2> QED BY <2>1, <2>2, <2>3
  <1>23. ASSUME NEW h \in GuestIds PROVE AckOk(h)'
    <2>1. CASE h = g
      <3>1. ASSUME NEW c \in Tasks, client[c].op = g[1]
            PROVE  client[c].stage \notin {"ack_call", "ack_done"}
        <4>1. ClientOk(c)
          BY DEF AgentInv
        <4>2. client[c].stage \in {"ack_gate", "ack_call", "ack_done"}
                => host[g[1]].status \in Decided
          BY <3>1, <4>1, Zenon DEF ClientOk
        <4> QED BY <1>2, <4>2 DEF Decided
      <3> QED BY <1>2, <2>1, <3>1, ZenonT(30) DEF AckOk
    <2>2. CASE h # g
      BY <1>10, <2>2, Zenon DEF AgentInv, AckOk
    <2> QED BY <2>1, <2>2
  <1>24. ASSUME NEW h \in GuestIds PROVE RunOk(h)'
    <2>1. CASE h = g
      <3>1. applied'[g] # 0 /\ operations'[g] # Nothing
        BY <1>9, <1>10, <1>12
      <3> QED BY <2>1, <3>1, Zenon DEF RunOk
    <2>2. CASE h # g
      BY <1>1, <1>10, <1>12, <2>2, Zenon DEF AgentInv, RunOk, Ran
    <2> QED BY <2>1, <2>2
  <1>25. ASSUME NEW h \in GuestIds PROVE FedOk(h)'
    <2>1. Fed(h)' <=> Fed(h)
      BY <1>1, Zenon DEF Fed, Input, Request
    <2>2. FedOk(h)
      BY DEF AgentInv
    <2>3. Ran(h)' <=> Ran(h)
      BY <1>1, Zenon DEF Ran
    <2>4. CASE h = g
      <3>1. Request(g[1]).body.kind # "write"
        BY <1>1, <1>2 DEF SyncKinds
      <3> QED BY <2>4, <3>1, ZenonT(30) DEF FedOk, Request
    <2>5. CASE h # g
      BY <1>1, <1>14, <2>1, <2>2, <2>3, <2>5, ZenonT(30) DEF FedOk, Request
    <2> QED BY <2>4, <2>5
  <1>26. \A k \in Generations \X Procs : InputOk(k)'
    <2>1. \A h \in GuestIds : applied[h] > 0 => applied'[h] > 0
      BY <1>12, Zenon
    <2> QED BY <1>1, <2>1, InputFrame
  <1>27. OwnersOk'
    BY <1>1, Zenon DEF AgentInv, OwnersOk
  <1>28. NoOrphanProcess'
    BY <1>7, Zenon DEF NoOrphanProcess, Covered, Owned
  <1> QED BY <1>13, <1>18, <1>19, <1>20, <1>21, <1>22, <1>23, <1>24, <1>25, <1>26, <1>27, <1>28,
             HostFrame, Zenon DEF AgentInv

\* An input that only grows keeps what has been fed to it.
LEMMA FedStays ==
    ASSUME AgentInv, NEW g \in GuestIds, Request(g[1]) \in Requests, UNCHANGED host,
           \A k \in Generations \X Procs : \A a \in DOMAIN stdio[k].fed :
               a \in DOMAIN stdio'[k].fed /\ stdio'[k].fed[a] = stdio[k].fed[a],
           Fed(g)
    PROVE  Fed(g)'
  <1>1. PICK k \in Generations \X Procs : k = StdioOf(Request(g[1]).body)
    <2>1. Request(g[1]).body \in Bodies
      BY RequestsAssumption
    <2> QED BY Zenon, <2>1 DEF StdioOf, Bodies
  <1>2. PICK a \in DOMAIN stdio[k].fed : stdio[k].fed[a] = g
    BY <1>1, Zenon DEF Fed, Input
  <1>3. k = StdioOf(Request(g[1]).body)'
    BY <1>1, Zenon DEF Request, StdioOf
  <1>4. Input(g[1])' = stdio'[k].fed
    BY <1>3, Zenon DEF Input
  <1>5. a \in DOMAIN stdio'[k].fed /\ stdio'[k].fed[a] = g
    BY <1>2, Zenon
  <1> QED BY <1>4, <1>5, Zenon DEF Fed

\* What the claim of an input operation does to the input and to its job:
\* it takes the next place, or fails at once.
LEMMA ClaimStdinShape ==
    ASSUME AgentInv, NEW t \in Tasks, ClaimStdin(t), NEW g \in GuestIds, g = call[t].id
    PROVE  /\ job' \in [GuestIds -> Jobs \cup {Nothing}]
           /\ job'[g] # Nothing
           /\ \A h \in GuestIds \ {g} : job'[h] = job[h]
           /\ stdio' \in [Generations \X Procs -> Stdios]
           /\ \A k \in Generations \X Procs : stdio'[k].fed = stdio[k].fed
           /\ applied' \in [GuestIds -> Nat]
           /\ \A h \in GuestIds \ {g} : applied'[h] = applied[h]
           /\ \/ job'[g].result = "none" /\ applied'[g] = applied[g]
              \/ job'[g].result = "error" /\ applied'[g] = applied[g] + 1
  <1>1. /\ job \in [GuestIds -> Jobs \cup {Nothing}]
        /\ stdio \in [Generations \X Procs -> Stdios]
        /\ applied \in [GuestIds -> Nat]
    BY Zenon DEF AgentInv, GuestTypes
  <1>2. PICK k \in Generations \X Procs : k = StdioOf(call[t].body)
    BY CallFacts DEF ClaimStdin, Unseen
  <1>3. stdio[k] \in Stdios
    BY <1>1
  <1>4. CASE /\ job' = [job EXCEPT ![g] = [ticket |-> stdio[k].next, result |-> "none"]]
             /\ stdio' = [stdio EXCEPT ![k].next = @ + 1]
             /\ UNCHANGED applied
    <2>1. PICK j \in Jobs : j = [ticket |-> stdio[k].next, result |-> "none"]
      BY Zenon, <1>3 DEF Stdios, Jobs
    <2>2. /\ job' \in [GuestIds -> Jobs \cup {Nothing}] /\ job'[g] = j
          /\ \A h \in GuestIds \ {g} : job'[h] = job[h]
      BY <1>1, <1>4, <2>1
    <2>3. PICK i : i = [stdio[k] EXCEPT !.next = @ + 1]
      BY Zenon
    <2>4. i \in Stdios /\ i.fed = stdio[k].fed
      BY <1>3, <2>3 DEF Stdios
    <2>5. stdio' = [stdio EXCEPT ![k] = i]
      BY <1>1, <1>4, <2>3
    <2>6. /\ stdio' \in [Generations \X Procs -> Stdios] /\ stdio'[k] = i
          /\ \A l \in (Generations \X Procs) \ {k} : stdio'[l] = stdio[l]
      BY <1>1, <2>4, <2>5
    <2>7. j # Nothing /\ j.result = "none"
      BY <2>1, NothingElse
    <2> QED BY <1>1, <1>4, <2>2, <2>4, <2>6, <2>7, Zenon
  <1>5. CASE /\ job' = [job EXCEPT ![g] = [ticket |-> -1, result |-> "error"]]
             /\ applied' = [applied EXCEPT ![g] = @ + 1]
             /\ UNCHANGED stdio
    <2>1. PICK j : j = [ticket |-> -1, result |-> "error"]
      BY Zenon
    <2>11. j \in Jobs
      BY <2>1 DEF Jobs
    <2>2. /\ job' \in [GuestIds -> Jobs \cup {Nothing}] /\ job'[g] = j
          /\ \A h \in GuestIds \ {g} : job'[h] = job[h]
      BY Zenon, <1>1, <1>5, <2>1, <2>11
    <2>3. j # Nothing /\ j.result = "error"
      BY Zenon, <2>1, <2>11, NothingElse
    <2>4. /\ applied' \in [GuestIds -> Nat] /\ applied'[g] = applied[g] + 1
          /\ \A h \in GuestIds \ {g} : applied'[h] = applied[h]
      BY <1>1, <1>5
    <2> QED BY <1>1, <1>5, <2>2, <2>3, <2>4, Zenon
  <1> QED BY <1>2, <1>4, <1>5, Zenon DEF ClaimStdin

\* An input operation is claimed and takes its place in the stream.
LEMMA ClaimStdinStep ==
    ASSUME AgentInv, NEW t \in Tasks, ClaimStdin(t), UNCHANGED driverVars
    PROVE  AgentInv'
  <1> USE DEF driverVars
  <1>1. /\ Unseen(t) /\ call[t].stage # "idle" /\ call[t].body.kind \in StdinKinds
        /\ pending' = [pending EXCEPT ![call[t].id] = call[t].body]
        /\ call' = [call EXCEPT ![t].stage = "waiting"]
        /\ UNCHANGED <<operations, lock, live, shutdown>>
        /\ box' = IF Holds(call[t].body.gen) THEN Refresh(box) ELSE box
    BY DEF ClaimStdin, Unseen
  <1>2. PICK g \in GuestIds : g = call[t].id
    BY <1>1, CallFacts
  <1>3. /\ job' \in [GuestIds -> Jobs \cup {Nothing}]
        /\ job'[g] # Nothing
        /\ \A h \in GuestIds \ {g} : job'[h] = job[h]
        /\ stdio' \in [Generations \X Procs -> Stdios]
        /\ \A k \in Generations \X Procs : stdio'[k].fed = stdio[k].fed
        /\ applied' \in [GuestIds -> Nat]
        /\ \A h \in GuestIds \ {g} : applied'[h] = applied[h]
        /\ \/ job'[g].result = "none" /\ applied'[g] = applied[g]
           \/ job'[g].result = "error" /\ applied'[g] = applied[g] + 1
    BY ZenonT(30), <1>2, ClaimStdinShape
  <1>4. call[t].body.kind \notin SyncKinds
    BY <1>1 DEF StdinKinds, SyncKinds
  <1>5. /\ pending' \in [GuestIds -> Bodies \cup {Nothing}]
        /\ call' \in [Tasks -> Calls]
        /\ \A p \in HostOps : RequestOk(p)' /\ RetainedOk(p)'
        /\ \A c \in Tasks : ClientOk(c)' /\ CallOk(c)' /\ ReplyOk(c)'
        /\ \A h \in GuestIds : PendingOk(h)' /\ RecordOk(h)' /\ AckOk(h)'
        /\ OwnersOk'
    BY Zenon, <1>1, <1>2, <1>3, <1>4, ClaimsStep
  <1>6. box' \in Boxes \cup {Nothing} /\ Covered(live, box)'
    <2>1. box \in Boxes \cup {Nothing} /\ Covered(live, box)
      BY CoveredIsEnough DEF AgentInv, GuestTypes
    <2>2. CASE box' = box
      BY <1>1, <2>1, <2>2 DEF Covered, Owned
    <2>3. CASE box' = Refresh(box) /\ box \in Boxes
      <3>1. box' \in Boxes /\ box'.gen = box.gen /\ box'.execs = box.execs
        BY <2>3, RefreshKeeps
      <3>2. Covered(live, box')
        BY <2>1, <2>3, <3>1, CoversSame
      <3> QED BY <1>1, <3>1, <3>2 DEF Covered, Owned
    <2> QED BY Zenon, <1>1, <2>1, <2>2, <2>3 DEF Holds
  <1>7. GuestTypes' /\ DriverTypes'
    BY <1>1, <1>3, <1>5, <1>6, Zenon DEF AgentInv, GuestTypes, DriverTypes
  <1>8. job[g] = Nothing /\ operations[g] = Nothing /\ host[g[1]].status = "sent"
        /\ Request(g[1]) \in Requests
    <2>1. pending[g] = Nothing /\ operations[g] = Nothing
      BY <1>1, <1>2 DEF Unseen
    <2>2. job[g] = Nothing
      BY <2>1, Zenon DEF AgentInv, OwnersOk
    <2> QED BY <1>1, <1>2, <2>1, <2>2, CallFacts
  <1>9. applied \in [GuestIds -> Nat]
    BY DEF AgentInv, GuestTypes
  <1>10. ASSUME NEW h \in GuestIds PROVE RunOk(h)'
    <2>1. CASE h = g
      <3>1. "sent" \notin Decided
        BY Zenon DEF Decided
      <3>2. applied[g] = 0
        BY <1>8, <1>9, <3>1 DEF AgentInv, RunOk, Ran
      <3>3. CASE job'[g].result = "none" /\ applied'[g] = applied[g]
        <4>1. applied'[g] = 0 /\ ~(applied'[g] > 0) /\ operations'[g] = Nothing /\ ~Ran(g)'
          BY <1>1, <1>8, <3>2, <3>3 DEF Ran
        <4> QED BY <2>1, <4>1, Zenon DEF RunOk
      <3>4. CASE job'[g].result = "error" /\ applied'[g] = applied[g] + 1
        <4>1. applied'[g] # 0 /\ Ran(g)'
          BY <1>3, <3>2, <3>4 DEF Ran
        <4> QED BY <2>1, <4>1, ZenonT(30) DEF RunOk
      <3> QED BY Zenon, <1>3, <3>3, <3>4
    <2>2. CASE h # g
      BY <1>1, <1>3, <2>2, Zenon DEF AgentInv, RunOk, Ran
    <2> QED BY <2>1, <2>2
  <1>11. ASSUME NEW h \in GuestIds PROVE FedOk(h)'
    <2>1. FedOk(h)
      BY DEF AgentInv
    <2>2. Request(h[1]) \in Requests \cup {Nothing}
      BY OpOfId DEF AgentInv, DriverTypes, Hosts, Request
    <2>3. Request(h[1]) # Nothing /\ Fed(h) => Fed(h)'
      BY Zenon, <1>3, <2>2, FedStays
    <2>4. Done(h)' <=> Done(h)
      BY <1>1, Zenon DEF Done
    <2>5. Ran(h)' /\ job'[h].result = "ok" => Ran(h) /\ job[h].result = "ok"
      <3>1. CASE h = g
        <4>1. job'[g].result # "ok"
          BY <1>3
        <4> QED BY Zenon, <3>1, <4>1
      <3>2. CASE h # g
        BY <1>3, <3>2, Zenon DEF Ran
      <3> QED BY <3>1, <3>2
    <2>6. Request(h[1])' = Request(h[1])
      BY ZenonT(30) DEF Request
    <2> QED BY <2>1, <2>3, <2>4, <2>5, <2>6, Zenon DEF FedOk
  <1>12. \A k \in Generations \X Procs : InputOk(k)'
    <2>1. ASSUME NEW h \in GuestIds, applied[h] > 0 PROVE applied'[h] > 0
      <3>1. CASE h = g
        BY <1>3, <1>9, <2>1, <3>1
      <3>2. CASE h # g
        BY <1>3, <2>1, <3>2
      <3> QED BY Zenon, <3>1, <3>2
    <2> QED BY <1>3, <2>1, SameInput
  <1>13. NoOrphanProcess'
    BY <1>6, Zenon DEF NoOrphanProcess, Covered, Owned
  <1> QED BY <1>5, <1>7, <1>10, <1>11, <1>12, <1>13, Zenon DEF AgentInv

\* Appending one element to a sequence.
LEMMA Appended ==
    ASSUME NEW S, NEW f \in Seq(S), NEW g \in S
    PROVE  /\ f \o <<g>> \in Seq(S)
           /\ DOMAIN (f \o <<g>>) = DOMAIN f \cup {Len(f) + 1}
           /\ (f \o <<g>>)[Len(f) + 1] = g
           /\ \A a \in DOMAIN f : (f \o <<g>>)[a] = f[a]
  <1>1. f \o <<g>> \in Seq(S) /\ Len(f \o <<g>>) = Len(f) + 1 /\ Len(f) \in Nat
    OBVIOUS
  <1>2. DOMAIN (f \o <<g>>) = 1 .. Len(f) + 1 /\ DOMAIN f = 1 .. Len(f)
    BY <1>1
  <1>3. 1 .. Len(f) + 1 = (1 .. Len(f)) \cup {Len(f) + 1}
    BY <1>1
  <1>4. (f \o <<g>>)[Len(f) + 1] = g
    OBVIOUS
  <1>5. \A a \in 1 .. Len(f) : (f \o <<g>>)[a] = f[a]
    OBVIOUS
  <1> QED BY <1>1, <1>2, <1>3, <1>4, <1>5

\* What the turn of an input operation does: a write that gets through is put
\* at the end of the input, and nothing else is.
LEMMA TurnShape ==
    ASSUME AgentInv, NEW g \in GuestIds, StdinTurn(g),
           NEW k \in Generations \X Procs, k = StdioOf(pending[g])
    PROVE  /\ stdio' \in [Generations \X Procs -> Stdios]
           /\ \A l \in (Generations \X Procs) \ {k} : stdio'[l] = stdio[l]
           /\ job' \in [GuestIds -> Jobs \cup {Nothing}]
           /\ job'[g] # Nothing /\ job'[g].result # "none"
           /\ \A h \in GuestIds \ {g} : job'[h] = job[h]
           /\ \/ stdio'[k].fed = stdio[k].fed \o <<g>>
              \/ /\ stdio'[k].fed = stdio[k].fed
                 /\ job'[g].result = "error" \/ pending[g].kind = "close"
  <1>1. /\ job \in [GuestIds -> Jobs \cup {Nothing}] /\ stdio \in [Generations \X Procs -> Stdios]
    BY DEF AgentInv, GuestTypes
  <1>2. job[g] \in Jobs /\ stdio[k] \in Stdios
    BY Zenon, <1>1 DEF StdinTurn
  <1>3. ASSUME NEW o \in {"ok", "error"}, job' = [job EXCEPT ![g].result = o]
        PROVE  /\ job' \in [GuestIds -> Jobs \cup {Nothing}]
               /\ job'[g] # Nothing /\ job'[g].result = o
               /\ \A h \in GuestIds \ {g} : job'[h] = job[h]
    <2>1. PICK j : j = [job[g] EXCEPT !.result = o]
      BY Zenon
    <2>2. j \in Jobs /\ j.result = o
      BY <1>2, <2>1 DEF Jobs
    <2>3. job' = [job EXCEPT ![g] = j]
      BY <1>1, <1>3, <2>1
    <2> QED BY <1>1, <2>2, <2>3, NothingElse
  <1>4. ASSUME NEW i \in Stdios, stdio' = [stdio EXCEPT ![k] = i]
        PROVE  /\ stdio' \in [Generations \X Procs -> Stdios] /\ stdio'[k] = i
               /\ \A l \in (Generations \X Procs) \ {k} : stdio'[l] = stdio[l]
    BY <1>1, <1>4
  <1>5. CASE /\ stdio' = [stdio EXCEPT ![k].serving = @ + 1, ![k].fed = @ \o <<g>>]
             /\ job' = [job EXCEPT ![g].result = "ok"]
    <2>1. PICK i : i = [stdio[k] EXCEPT !.serving = @ + 1, !.fed = @ \o <<g>>]
      OBVIOUS
    <2>2. i \in Stdios /\ i.fed = stdio[k].fed \o <<g>>
      <3>1. PICK j : j = [stdio[k] EXCEPT !.serving = @ + 1]
        BY Zenon
      <3>2. j \in Stdios /\ j.fed = stdio[k].fed
        BY <1>2, <3>1 DEF Stdios
      <3>3. PICK e : e = j.fed \o <<g>>
        BY Zenon
      <3>4. j.fed \in Seq(GuestIds)
        BY <3>2 DEF Stdios
      <3>5. e \in Seq(GuestIds)
        BY <3>3, <3>4, Appended
      <3>6. i = [j EXCEPT !.fed = e]
        BY <1>2, <2>1, <3>1, <3>3 DEF Stdios
      <3>7. i \in Stdios /\ i.fed = e
        BY Zenon, <3>2, <3>5, <3>6 DEF Stdios
      <3> QED BY <3>2, <3>3, <3>7, Zenon
    <2>3. stdio' = [stdio EXCEPT ![k] = i]
      BY Zenon, <1>1, <1>5, <2>1
    <2> QED BY Zenon, <1>3, <1>4, <1>5, <2>2, <2>3
  <1>6. CASE /\ stdio' = [stdio EXCEPT ![k].serving = @ + 1]
             /\ job' = [job EXCEPT ![g].result = "error"]
    <2>1. PICK i : i = [stdio[k] EXCEPT !.serving = @ + 1]
      BY Zenon
    <2>2. i \in Stdios /\ i.fed = stdio[k].fed
      BY <1>2, <2>1 DEF Stdios
    <2>3. stdio' = [stdio EXCEPT ![k] = i]
      BY <1>1, <1>6, <2>1
    <2> QED BY ZenonT(30), <1>3, <1>4, <1>6, <2>2, <2>3
  <1>7. CASE /\ stdio' = [stdio EXCEPT ![k].serving = @ + 1, ![k].open = FALSE]
             /\ job' = [job EXCEPT ![g].result = "ok"] /\ pending[g].kind = "close"
    <2>1. PICK i : i = [stdio[k] EXCEPT !.serving = @ + 1, !.open = FALSE]
      OBVIOUS
    <2>2. i \in Stdios /\ i.fed = stdio[k].fed
      <3>1. PICK j : j = [stdio[k] EXCEPT !.serving = @ + 1]
        BY Zenon
      <3>2. j \in Stdios /\ j.fed = stdio[k].fed
        BY <1>2, <3>1 DEF Stdios
      <3>3. i = [j EXCEPT !.open = FALSE]
        BY <1>2, <2>1, <3>1 DEF Stdios
      <3>4. i \in Stdios /\ i.fed = j.fed
        BY Zenon, <3>2, <3>3 DEF Stdios
      <3> QED BY <3>2, <3>4, Zenon
    <2>3. stdio' = [stdio EXCEPT ![k] = i]
      BY ZenonT(30), <1>1, <1>7, <2>1
    <2> QED BY Zenon, <1>3, <1>4, <1>7, <2>2, <2>3
  <1> QED BY <1>5, <1>6, <1>7, Zenon DEF StdinTurn

\* An input operation has its turn: the part it adds follows the part before
\* it, and was not there yet.
LEMMA StdinTurnStep ==
    ASSUME AgentInv, NEW g \in GuestIds, StdinTurn(g), UNCHANGED driverVars
    PROVE  AgentInv'
  <1> USE DEF driverVars
  <1>1. /\ pending[g] # Nothing /\ job[g] # Nothing /\ job[g].result = "none"
        /\ applied' = [applied EXCEPT ![g] = @ + 1]
        /\ UNCHANGED <<operations, pending, lock, box, live, call, shutdown>>
    BY DEF StdinTurn
  <1>2. PendingOk(g) /\ RunOk(g)
    BY DEF AgentInv
  <1>3. PICK n \in 1 .. MaxChunks : /\ IsPart(g, n) /\ pending[g] = Part(Request(g[1]), n)
                                    /\ PartsDone(g[1], n)
    BY <1>1, <1>2, Zenon DEF PendingOk
  <1>4. host[g[1]].status = "sent" /\ operations[g] = Nothing
    BY <1>1, <1>2, Zenon DEF PendingOk
  <1>5. PICK q \in Requests : q = Request(g[1])
    BY ZenonT(30), <1>3 DEF IsPart
  <1>6. n \in 1 .. q.chunks /\ g = GuestId(q, n)
    BY ZenonT(30), <1>3, <1>5 DEF IsPart
  <1>7. /\ pending[g].kind = q.body.kind
        /\ StdioOf(pending[g]) = StdioOf(q.body)
        /\ StdioOf(q.body) \in Generations \X Procs
    BY ZenonT(30), <1>3, <1>5, <1>6, PartBody
  <1>8. PICK k \in Generations \X Procs : k = StdioOf(pending[g])
    BY Zenon, <1>7
  <1>9. k = StdioOf(q.body)
    BY <1>7, <1>8
  <1>10. /\ stdio' \in [Generations \X Procs -> Stdios]
         /\ \A l \in (Generations \X Procs) \ {k} : stdio'[l] = stdio[l]
         /\ job' \in [GuestIds -> Jobs \cup {Nothing}]
         /\ job'[g] # Nothing /\ job'[g].result # "none"
         /\ \A h \in GuestIds \ {g} : job'[h] = job[h]
         /\ \/ stdio'[k].fed = stdio[k].fed \o <<g>>
            \/ /\ stdio'[k].fed = stdio[k].fed
               /\ job'[g].result = "error" \/ pending[g].kind = "close"
    BY ZenonT(30), <1>8, TurnShape
  <1>11. applied \in [GuestIds -> Nat] /\ stdio[k].fed \in Seq(GuestIds)
    BY DEF AgentInv, GuestTypes, Stdios
  <1>12. /\ applied' \in [GuestIds -> Nat] /\ applied'[g] > 0
         /\ \A h \in GuestIds \ {g} : applied'[h] = applied[h]
    BY <1>1, <1>11
  <1>13. applied[g] = 0
    <2>1. ~Ran(g) /\ host[g[1]].status \notin Decided
      BY <1>1, <1>4 DEF Ran, Decided
    <2> QED BY <1>2, <1>4, <1>11, <2>1 DEF RunOk
  <1>14. Request(g[1])' = q
    BY <1>5, Zenon DEF Request
  <1>15. /\ \A l \in Generations \X Procs : \A a \in DOMAIN stdio[l].fed :
               a \in DOMAIN stdio'[l].fed /\ stdio'[l].fed[a] = stdio[l].fed[a]
         /\ stdio'[k].fed = stdio[k].fed \o <<g>> =>
               /\ DOMAIN stdio'[k].fed = DOMAIN stdio[k].fed \cup {Len(stdio[k].fed) + 1}
               /\ stdio'[k].fed[Len(stdio[k].fed) + 1] = g
    <2>1. PICK f \in Seq(GuestIds) : f = stdio[k].fed
      BY <1>11
    <2>2. /\ DOMAIN (f \o <<g>>) = DOMAIN f \cup {Len(f) + 1}
          /\ (f \o <<g>>)[Len(f) + 1] = g
          /\ \A a \in DOMAIN f : (f \o <<g>>)[a] = f[a]
      BY Appended
    <2>3. ASSUME NEW l \in Generations \X Procs, NEW a \in DOMAIN stdio[l].fed
          PROVE  a \in DOMAIN stdio'[l].fed /\ stdio'[l].fed[a] = stdio[l].fed[a]
      <3>1. CASE stdio'[l].fed = stdio[l].fed
        BY <3>1, Zenon
      <3>2. CASE l = k /\ stdio'[k].fed = stdio[k].fed \o <<g>>
        BY <2>1, <2>2, <2>3, <3>2, Zenon
      <3> QED BY <1>10, <3>1, <3>2, Zenon
    <2> QED BY <2>1, <2>2, <2>3, Zenon
  <1>16. GuestTypes' /\ DriverTypes'
    BY <1>1, <1>10, <1>12, Zenon DEF AgentInv, GuestTypes, DriverTypes
  <1>17. ASSUME NEW h \in GuestIds PROVE PendingOk(h)'
    <2>1. PendingOk(h) /\ (job'[h] = Nothing <=> job[h] = Nothing)
      BY <1>1, <1>10, Zenon DEF AgentInv
    <2> QED BY <1>1, <2>1, Zenon DEF PendingOk, IsPart, PartsDone, Kept, Done, Request
  <1>18. OwnersOk'
    BY <1>1, <1>10, Zenon DEF AgentInv, OwnersOk
  <1>19. ASSUME NEW h \in GuestIds PROVE RunOk(h)'
    <2>1. CASE h = g
      <3>1. applied'[g] # 0 /\ Ran(g)'
        BY <1>10, <1>12 DEF Ran
      <3> QED BY <2>1, <3>1, ZenonT(30) DEF RunOk
    <2>2. CASE h # g
      BY <1>1, <1>10, <1>12, <2>2, ZenonT(30) DEF AgentInv, RunOk, Ran
    <2> QED BY <2>1, <2>2
  <1>20. ASSUME NEW h \in GuestIds PROVE FedOk(h)'
    <2>1. FedOk(h)
      BY DEF AgentInv
    <2>2. Request(h[1]) \in Requests \cup {Nothing}
      BY OpOfId DEF AgentInv, DriverTypes, Hosts, Request
    <2>3. Request(h[1]) # Nothing /\ Fed(h) => Fed(h)'
      BY Zenon, <1>15, <2>2, FedStays
    <2>4. (Done(h)' <=> Done(h)) /\ Request(h[1])' = Request(h[1])
      BY <1>1, Zenon DEF Done, Request
    <2>5. CASE h = g
      <3>1. CASE stdio'[k].fed = stdio[k].fed \o <<g>>
        <4>1. Input(g[1])' = stdio'[k].fed
          BY <1>9, <1>14, Zenon DEF Input
        <4>2. Fed(g)'
          BY Zenon, <1>15, <3>1, <4>1 DEF Fed
        <4> QED BY <2>5, <4>2, Zenon DEF FedOk
      <3>2. CASE job'[g].result = "error"
        <4>1. job'[g].result # "ok"
          BY <3>2
        <4> QED BY <2>1, <2>3, <2>4, <2>5, <4>1, Zenon DEF FedOk
      <3>3. CASE pending[g].kind = "close"
        <4>1. q.body.kind # "write"
          BY <1>7, <3>3
        <4> QED BY <1>14, <2>5, <4>1, ZenonT(30) DEF FedOk
      <3> QED BY Zenon, <1>10, <3>1, <3>2, <3>3
    <2>6. CASE h # g
      <3>1. job'[h] = job[h] /\ (Ran(h)' <=> Ran(h))
        BY <1>10, <2>6, Zenon DEF Ran
      <3> QED BY <2>1, <2>3, <2>4, <3>1, Zenon DEF FedOk
    <2> QED BY <2>5, <2>6
  <1>21. ASSUME NEW h \in GuestIds, applied[h] > 0 PROVE applied'[h] > 0 /\ h # g
    BY <1>12, <1>13, <1>21
  <1>22. ASSUME NEW l \in Generations \X Procs, stdio'[l].fed = stdio[l].fed
         PROVE  InputOk(l)'
    BY <1>21, <1>22, SameInput
  <1>23. ASSUME stdio'[k].fed = stdio[k].fed \o <<g>>
         PROVE  InputOk(k)'
    <2>1. PICK f \in Seq(GuestIds) : f = stdio[k].fed
      BY <1>11
    <2>2. PICK e : e = stdio'[k].fed
      OBVIOUS
    <2>3. PICK z : z = Len(f) + 1
      BY Zenon
    <2>4. /\ DOMAIN e = DOMAIN f \cup {z} /\ e[z] = g
          /\ \A a \in DOMAIN f : e[a] = f[a]
      BY Zenon, <1>15, <1>23, <2>1, <2>2, <2>3
    <2>5. \A a \in DOMAIN f : a < z /\ f[a] \in GuestIds
      BY <2>1, <2>3
    <2>6. InputOk(k)
      BY DEF AgentInv
    <2>7. \A a \in DOMAIN f : applied[f[a]] > 0
      BY <2>1, <2>6, Zenon DEF InputOk, PlaceOk
    <2>8. \A a \in DOMAIN f : f[a] # g /\ applied'[f[a]] > 0
      BY <1>21, <2>5, <2>7, Zenon
    <2>9. ASSUME NEW a \in DOMAIN f PROVE PlaceOk(k, a, e[a])'
      <3>1. PlaceOk(k, a, f[a])
        BY <2>1, <2>6, Zenon DEF InputOk
      <3>2. PICK m \in 1 .. MaxChunks :
              /\ IsPart(f[a], m)
              /\ k = StdioOf(Request(f[a][1]).body)
              /\ m > 1 => \E b \in DOMAIN f : b < a /\ f[b] = GuestId(Request(f[a][1]), m - 1)
        BY <2>1, <3>1, Zenon DEF PlaceOk
      <3>3. IsPart(f[a], m)' /\ k = StdioOf(Request(f[a][1]).body)'
        BY <3>2, Zenon DEF IsPart, Request, StdioOf
      <3>4. m > 1 => \E b \in DOMAIN e : b < a /\ e[b] = GuestId(Request(f[a][1]), m - 1)'
        BY <2>4, <3>2, Zenon DEF Request, GuestId
      <3>5. e[a] = f[a] /\ applied'[f[a]] > 0
        BY <2>4, <2>8, Zenon
      <3> QED BY <2>2, <3>2, <3>3, <3>4, <3>5, Zenon DEF PlaceOk
    <2>10. PlaceOk(k, z, g)'
      <3>1. IsPart(g, n)' /\ k = StdioOf(Request(g[1]).body)'
        BY <1>3, <1>9, <1>14, Zenon DEF IsPart, Request
      <3>2. ASSUME n > 1
            PROVE  \E b \in DOMAIN e : b < z /\ e[b] = GuestId(Request(g[1]), n - 1)'
        <4>1. n - 1 \in 1 .. q.chunks /\ n - 1 \in 1 .. n - 1
          BY <1>6, <3>2, PartIds
        <4>2. PICK h \in GuestIds : h = GuestId(q, n - 1)
          BY Zenon, <4>1, PartIds
        <4>3. h[1] = g[1]
          BY <1>6, <4>1, <4>2, PartIds
        <4>4. Done(h)
          BY <1>3, <1>5, <4>1, <4>2, Zenon DEF PartsDone
        <4>5. q.body.kind = "write"
          <5>1. q.chunks > 1
            BY <1>6, <3>2, PartIds
          <5> QED BY Zenon, <5>1, RequestsAssumption
        <4>6. FedOk(h) /\ q # Nothing
          BY NothingElse DEF AgentInv
        <4>7. Fed(h)
          BY <1>5, <4>3, <4>4, <4>5, <4>6, Zenon DEF FedOk
        <4>8. Input(h[1]) = f
          BY <1>5, <1>9, <2>1, <4>3, Zenon DEF Input
        <4>9. PICK b \in DOMAIN f : f[b] = h
          BY <4>7, <4>8, Zenon DEF Fed
        <4>10. b \in DOMAIN e /\ b < z /\ e[b] = h
          BY <2>4, <2>5, <4>9, Zenon
        <4>11. h = GuestId(Request(g[1]), n - 1)'
          BY <1>14, <4>2, Zenon DEF GuestId
        <4> QED BY <4>10, <4>11, Zenon
      <3> QED BY <1>12, <2>2, <3>1, <3>2, Zenon DEF PlaceOk
    <2>11. ASSUME NEW a \in DOMAIN e, NEW b \in DOMAIN e, e[a] = e[b] PROVE a = b
      <3>1. \A x, y \in DOMAIN f : f[x] = f[y] => x = y
        BY <2>1, <2>6, Zenon DEF InputOk
      <3> QED BY <2>4, <2>8, <2>11, <3>1, Zenon
    <2>12. \A a \in DOMAIN e : PlaceOk(k, a, e[a])'
      BY <2>4, <2>9, <2>10, Zenon
    <2> QED BY <2>2, <2>11, <2>12, Zenon DEF InputOk
  <1>24. \A l \in Generations \X Procs : InputOk(l)'
    BY <1>10, <1>22, <1>23, Zenon
  <1>25. NoOrphanProcess'
    BY <1>1, Zenon DEF AgentInv, NoOrphanProcess
  <1> QED BY <1>1, <1>16, <1>17, <1>18, <1>19, <1>20, <1>24, <1>25, HostFrame, RecordFrame,
             ClientFrame, Zenon DEF AgentInv

-----------------------------------------------------------------------------
(* What a step of one client leaves alone.                                   *)

guestRest == <<pending, lock, box, live, stdio, job, shutdown, applied>>

\* The guest knows nothing of an operation that was never sent.
LEMMA NewIsUnknown ==
    ASSUME AgentInv, NEW g \in GuestIds, Request(g[1]) = Nothing
    PROVE  pending[g] = Nothing /\ operations[g] = Nothing /\ job[g] = Nothing
  <1>1. host[g[1]].status = "new"
    BY OpOfId, Zenon DEF AgentInv, RequestOk
  <1>2. operations[g] = Nothing
    BY <1>1, Zenon DEF AgentInv, RecordOk
  <1>3. pending[g] = Nothing
    <2>1. "new" # "sent"
      OBVIOUS
    <2> QED BY <1>1, <2>1, Zenon DEF AgentInv, PendingOk
  <1>4. job[g] = Nothing
    BY <1>3, Zenon DEF AgentInv, OwnersOk
  <1> QED BY <1>2, <1>3, <1>4

\* The input depends on the requests that were bound, not on later ones.
LEMMA BoundInput ==
    ASSUME AgentInv, UNCHANGED <<stdio, applied>>,
           \A p \in HostOps : Request(p) # Nothing => Request(p)' = Request(p)
    PROVE  /\ \A k \in Generations \X Procs : InputOk(k)'
           /\ \A g \in GuestIds : Request(g[1]) # Nothing => (Fed(g)' <=> Fed(g))
  <1>1. ASSUME NEW g \in GuestIds, Request(g[1]) # Nothing
        PROVE  Request(g[1])' = Request(g[1])
    BY <1>1, OpOfId
  <1>2. ASSUME NEW g \in GuestIds, Request(g[1]) # Nothing
        PROVE  Fed(g)' <=> Fed(g)
    <2>1. Input(g[1])' = Input(g[1])
      BY <1>1, <1>2, Zenon DEF Input, StdioOf
    <2> QED BY <2>1, Zenon DEF Fed
  <1>3. ASSUME NEW k \in Generations \X Procs PROVE InputOk(k)'
    <2>1. InputOk(k)
      BY DEF AgentInv
    <2>2. stdio[k].fed \in Seq(GuestIds)
      BY DEF AgentInv, GuestTypes, Stdios
    <2>3. \A a \in DOMAIN stdio[k].fed : stdio[k].fed[a] \in GuestIds
      BY <2>2
    <2>4. ASSUME NEW a, NEW g \in GuestIds, PlaceOk(k, a, g) PROVE PlaceOk(k, a, g)'
      <3>1. PICK m \in 1 .. MaxChunks :
              /\ IsPart(g, m)
              /\ k = StdioOf(Request(g[1]).body)
              /\ m > 1 => \E b \in DOMAIN stdio[k].fed :
                            b < a /\ stdio[k].fed[b] = GuestId(Request(g[1]), m - 1)
        BY <2>4, Zenon DEF PlaceOk
      <3>2. Request(g[1])' = Request(g[1])
        BY <1>1, <3>1, NothingElse DEF IsPart
      <3>3. IsPart(g, m)'
        BY <3>1, <3>2, Zenon DEF IsPart
      <3> QED BY <2>4, <3>1, <3>2, <3>3, Zenon DEF PlaceOk
    <2>5. stdio'[k].fed = stdio[k].fed /\ DOMAIN stdio'[k].fed = DOMAIN stdio[k].fed
      BY Zenon
    <2> QED BY <2>1, <2>3, <2>4, <2>5, Zenon DEF InputOk
  <1> QED BY <1>2, <1>3

\* Binding a new operation, and steps of the clients alone, leave the journal
\* as it is known.
LEMMA BoundFrame ==
    ASSUME AgentInv, UNCHANGED operations, UNCHANGED guestRest,
           \A p \in HostOps : Request(p) # Nothing =>
               /\ Request(p)' = Request(p) /\ host'[p].status = host[p].status
               /\ Kept(p) => Kept(p)',
           \A p \in HostOps : Request(p) = Nothing => host'[p].status \in {"new", "sent"}
    PROVE  /\ \A g \in GuestIds : PendingOk(g)' /\ RecordOk(g)' /\ RunOk(g)' /\ FedOk(g)'
           /\ \A k \in Generations \X Procs : InputOk(k)'
           /\ OwnersOk'
           /\ NoOrphanProcess'
  <1> USE DEF guestRest
  <1>1. ASSUME NEW g \in GuestIds PROVE PendingOk(g)' /\ RecordOk(g)' /\ RunOk(g)' /\ FedOk(g)'
    <2>1. PendingOk(g) /\ RecordOk(g) /\ RunOk(g) /\ FedOk(g) /\ g[1] \in HostOps
      BY Zenon, OpOfId DEF AgentInv
    <2>2. CASE Request(g[1]) = Nothing
      <3>1. pending[g] = Nothing /\ operations[g] = Nothing /\ job[g] = Nothing
        BY Zenon, <2>2, NewIsUnknown
      <3>2. ~Done(g)' /\ ~Ran(g)'
        BY <3>1, Zenon DEF Done, Ran
      <3>3. host'[g[1]].status # "succeeded" /\ host'[g[1]].status \notin Decided
        BY Zenon, <2>1, <2>2 DEF Decided
      <3>4. host[g[1]].status = "new"
        BY <2>1, <2>2, Zenon DEF AgentInv, RequestOk
      <3>5. ~(applied[g] > 0)
        <4>1. ~Ran(g) /\ host[g[1]].status \notin Decided
          BY <3>1, <3>4 DEF Ran, Decided
        <4> QED BY <2>1, <3>1, <4>1, ZenonT(30) DEF RunOk
      <3>6. RunOk(g)'
        BY <3>1, <3>2, <3>5, Zenon DEF RunOk
      <3>7. FedOk(g)'
        BY <3>2, <3>3, Zenon DEF FedOk
      <3> QED BY <3>1, <3>6, <3>7, Zenon DEF PendingOk, RecordOk
    <2>3. CASE Request(g[1]) # Nothing
      <3>1. /\ Request(g[1])' = Request(g[1]) /\ host'[g[1]].status = host[g[1]].status
            /\ Kept(g[1]) => Kept(g[1])'
        BY <2>1, <2>3, Zenon
      <3>2. \A n : IsPart(g, n)' <=> IsPart(g, n)
        BY <3>1, Zenon DEF IsPart
      <3>3. \A n : PartsDone(g[1], n)' <=> PartsDone(g[1], n)
        BY <3>1, Zenon DEF PartsDone, Done
      <3>4. \A n : Part(Request(g[1]), n)' = Part(Request(g[1]), n)
        BY <3>1, Zenon DEF Part
      <3>5. PendingOk(g)'
        BY <2>1, <3>1, <3>2, <3>3, <3>4, Zenon DEF PendingOk
      <3>6. RecordOk(g)'
        BY <2>1, <3>1, <3>2, <3>3, <3>4, Zenon DEF RecordOk
      <3>7. RunOk(g)'
        BY <2>1, <3>1, Zenon DEF RunOk, Ran
      <3>8. Fed(g)' <=> Fed(g)
        BY Zenon, <2>3, BoundInput
      <3>9. (Done(g)' <=> Done(g)) /\ (Ran(g)' <=> Ran(g))
        BY Zenon DEF Done, Ran
      <3>10. FedOk(g)'
        BY <2>1, <3>1, <3>8, <3>9, Zenon DEF FedOk
      <3> QED BY Zenon, <3>5, <3>6, <3>7, <3>10
    <2> QED BY ZenonT(30), <2>2, <2>3
  <1>2. \A k \in Generations \X Procs : InputOk(k)'
    BY Zenon, BoundInput
  <1>3. OwnersOk'
    BY Zenon DEF AgentInv, OwnersOk
  <1>4. NoOrphanProcess'
    BY Zenon DEF AgentInv, NoOrphanProcess
  <1> QED BY ZenonT(30), <1>1, <1>2, <1>3, <1>4

\* No acknowledgement gets further.
LEMMA AckFrame ==
    ASSUME AgentInv, UNCHANGED operations,
           reattached => reattached',
           \A p \in HostOps : host'[p].status = "acked" => host[p].status = "acked",
           \A d \in Tasks : client'[d].stage \in {"ack_call", "ack_done"} => client'[d] = client[d]
    PROVE  \A g \in GuestIds : AckOk(g)'
  <1> SUFFICES ASSUME NEW g \in GuestIds, ~reattached, operations[g] # Nothing
               PROVE  /\ host'[g[1]].status # "acked"
                      /\ \A c \in Tasks : client'[c].op = g[1] =>
                           /\ client'[c].stage = "ack_call" => g \in client'[c].ids
                           /\ client'[c].stage # "ack_done"
    BY Zenon DEF AckOk
  <1>1. AckOk(g) /\ g[1] \in HostOps
    BY OpOfId DEF AgentInv
  <1>2. host'[g[1]].status # "acked"
    BY <1>1, Zenon DEF AckOk
  <1>3. ASSUME NEW c \in Tasks, client'[c].op = g[1]
        PROVE  /\ client'[c].stage = "ack_call" => g \in client'[c].ids
               /\ client'[c].stage # "ack_done"
    <2>1. CASE client'[c].stage \in {"ack_call", "ack_done"}
      <3>1. client'[c] = client[c]
        BY <2>1, Zenon
      <3> QED BY <1>1, <1>3, <3>1, Zenon DEF AckOk
    <2>2. CASE client'[c].stage \notin {"ack_call", "ack_done"}
      BY <2>2
    <2> QED BY <2>1, <2>2
  <1> QED BY <1>2, <1>3

\* A client that returned.
LEMMA IdleIsOk ==
    ASSUME NEW c \in Tasks, client'[c] = IdleClient, call'[c].stage = "idle"
    PROVE  ClientOk(c)' /\ CallOk(c)' /\ ReplyOk(c)'
  <1>1. client'[c].stage = "idle" /\ call'[c].stage = "idle"
    BY DEF IdleClient
  <1>2. ~Sending(c)'
    BY <1>1 DEF Sending
  <1>3. ClientOk(c)'
    BY <1>1, <1>2 DEF ClientOk
  <1> QED BY Zenon, <1>1, <1>3 DEF CallOk, ReplyOk

\* A client the step is not about.
LEMMA OtherClient ==
    ASSUME AgentInv, NEW d \in Tasks, client'[d] = client[d], call'[d] = call[d],
           pending' = pending,
           Sending(d) => \A h \in GuestIds : h[1] = client[d].op => (Done(h)' <=> Done(h)),
           Sending(d) => /\ host'[client[d].op] = host[client[d].op]
                         /\ Kept(client[d].op) => Kept(client[d].op)'
                         /\ \A e \in Tasks \ {d} : Sending(e)' =>
                              \/ Sending(e) /\ client'[e].op = client[e].op
                              \/ client'[e].op # client[d].op,
           client[d].stage \in {"ack_gate", "ack_call", "ack_done"} =>
             host'[client[d].op].status \in Decided
    PROVE  ClientOk(d)' /\ CallOk(d)' /\ ReplyOk(d)'
  <1>1. ClientOk(d) /\ CallOk(d) /\ ReplyOk(d)
    BY Zenon DEF AgentInv
  <1>2. Sending(d)' <=> Sending(d)
    BY Zenon DEF Sending
  <1>3. ClientOk(d)'
    BY <1>1, <1>2, Zenon DEF ClientOk, Request
  <1>4. CASE client[d].stage = "call"
    <2>1. Sending(d)
      BY <1>4, Zenon DEF Sending
    <2>2. PICK p : p = client[d].op
      BY ZenonT(30)
    <2>3. PICK n : n = client[d].index
      OBVIOUS
    <2>4. /\ call[d].stage # "idle" /\ call[d].id \in GuestIds /\ call[d].id[1] = p
          /\ IsPart(call[d].id, n) /\ call[d].body = Part(Request(p), n)
          /\ PartsDone(p, n) /\ Kept(p)
      BY <1>1, <1>4, <2>2, <2>3, Zenon DEF CallOk
    <2>5. p \in HostOps /\ Request(p)' = Request(p) /\ Kept(p)'
      BY <1>1, <2>1, <2>2, <2>4, Zenon DEF ClientOk, Request, Sending
    <2>6. Request(p) \in Requests /\ n \in 1 .. Request(p).chunks
      BY ZenonT(30), <2>4 DEF IsPart
    <2>7. Request(p).op = p
      BY ZenonT(30), <2>5, <2>6, NothingElse DEF AgentInv, RequestOk
    <2>8. Request(p).chunks \in Nat
      BY Zenon, <2>6, PartIds
    <2>9. PartsDone(p, n)'
      <3>1. \A m \in 1 .. n - 1 : m \in 1 .. Request(p).chunks
        BY Zenon, <2>6, <2>8, EarlierParts
      <3>2. \A m \in 1 .. n - 1 : /\ GuestId(Request(p), m) \in GuestIds
                                  /\ GuestId(Request(p), m)[1] = p
        BY Zenon, <2>6, <2>7, <3>1, PartIds
      <3>3. \A m \in 1 .. n - 1 : Done(GuestId(Request(p), m))'
        BY <2>1, <2>2, <2>4, <2>5, <3>2, Zenon DEF PartsDone
      <3> QED BY <2>5, <3>3, ZenonT(30) DEF PartsDone
    <2>10. PICK g \in GuestIds : g = call[d].id
      BY Zenon, <2>4
    <2>11. IsPart(g, n)'
      BY <2>4, <2>5, <2>10, Zenon DEF IsPart
    <2>12. call[d].body = Part(Request(p), n)'
      BY <2>4, <2>5, Zenon DEF Part
    <2>13. CallOk(d)'
      BY <2>2, <2>3, <2>4, <2>5, <2>9, <2>10, <2>11, <2>12, Zenon DEF CallOk
    <2>14. Done(g)' <=> Done(g)
      BY <2>1, <2>2, <2>4, <2>10, Zenon
    <2>15. ReplyOk(d)'
      BY <1>1, <2>10, <2>14, Zenon DEF ReplyOk
    <2> QED BY Zenon, <1>3, <2>13, <2>15
  <1>5. CASE client[d].stage # "call"
    BY <1>3, <1>5, ZenonT(30) DEF CallOk, ReplyOk
  <1> QED BY Zenon, <1>4, <1>5

\* The records of an idle client and of an idle call.
LEMMA IdleTypes ==
    IdleClient \in Clients /\ IdleCall \in Calls
  <1>1. IdleClient \in Clients
    BY SMTT(40) DEF IdleClient, Clients
  <1>2. IdleCall \in Calls
    BY SMTT(40) DEF IdleCall, Calls
  <1> QED BY Zenon, <1>1, <1>2

\* A step of one client that binds nothing and decides nothing.
LEMMA ClientStep ==
    ASSUME AgentInv, UNCHANGED operations, UNCHANGED guestRest,
           UNCHANGED <<host, retained, reattached>>,
           call' \in [Tasks -> Calls], client' \in [Tasks -> Clients],
           gate' \in [HostOps -> Tasks \cup {Nothing}],
           \A d \in Tasks : ClientOk(d)' /\ CallOk(d)' /\ ReplyOk(d)',
           \A g \in GuestIds : AckOk(g)'
    PROVE  AgentInv'
  <1>1. GuestTypes' /\ DriverTypes'
    BY Zenon DEF AgentInv, GuestTypes, DriverTypes, guestRest
  <1>2. \A p \in HostOps : RequestOk(p)' /\ RetainedOk(p)'
    BY Zenon DEF AgentInv, RequestOk, RetainedOk, Request
  <1>3. \A p \in HostOps : /\ Request(p)' = Request(p) /\ host'[p].status = host[p].status
                           /\ Kept(p) => Kept(p)'
    BY Zenon DEF Request, Kept
  <1>4. \A p \in HostOps : Request(p) = Nothing => host'[p].status \in {"new", "sent"}
    BY Zenon DEF AgentInv, RequestOk
  <1>5. /\ \A g \in GuestIds : PendingOk(g)' /\ RecordOk(g)' /\ RunOk(g)' /\ FedOk(g)'
        /\ \A k \in Generations \X Procs : InputOk(k)'
        /\ OwnersOk' /\ NoOrphanProcess'
    BY Zenon, <1>3, <1>4, BoundFrame
  <1> QED BY <1>1, <1>2, <1>5, Zenon DEF AgentInv
=============================================================================
