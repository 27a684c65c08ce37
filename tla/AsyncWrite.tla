----------------------------- MODULE AsyncWrite -----------------------------
(***************************************************************************)
(* Async write mode: crates/evoxy-filter/src/asyncwrite.rs over the bridge *)
(* of crates/evoxy-bridge, between clients that stop waiting and a broker  *)
(* that loses acknowledgements.  Every request here carries the async      *)
(* header.  The broker and the consumer that replays its log are external: *)
(* queues (partitions) keep the order of their records, a record's queue   *)
(* is a function of its key, and a produce that failed may still land.     *)
(*                                                                         *)
(* A raw request has its `query` here too.  A record is a request line and *)
(* a payload.  A line is [verb, index, id, routing, spelling], a payload   *)
(* the sequence of documents (of operations for _bulk) the body holds.     *)
(***************************************************************************)
EXTENDS Brain
CONSTANTS
    Clients,        \* client connections, one request open at a time each
    Configs,        \* the filter configurations considered
    Requests,       \* Requests[c]: the async requests clients send under c
    Queues,         \* the partitions of the topic
    QueueOf(_),     \* QueueOf(key): the partition of a key
    Sends           \* bound: Sends[c] requests of client c

ASSUME SendsAssumption == Sends \in [Clients -> Nat]

ASSUME ConfigsAssumption == Configs \subseteq Config

\* Requests are what parsing leaves of them, and a tenant segment does not make
\* a write look like something else.
ASSUME RequestsAssumption ==
    \A c \in Configs : \A req \in Requests[c] :
        LET ctx == CtxOf(RewriteForPath(c, req))
        IN  WellFormed(ctx) /\ (IsWriteRequest(req) => IsWrite(ctx.kind))

\* An absent document is none of the documents.
ASSUME DocAssumption == None \notin Doc

VARIABLES
    cfg,            \* the filter's configuration
    sink,           \* whether the deployment wired a sink
    client,         \* client[c]: the request client c has open
    sent,           \* sent[c]: how many requests c has sent
    accepted,       \* accepted[c]: the ones that were answered 202
    log,            \* log[q]: the records of queue q
    late,           \* produces in flight that nobody waits for any more
    applied,        \* applied[q]: how many of them the consumer has applied
    replica         \* the consumer's view: the last record applied to a place

vars == <<cfg, sink, client, sent, accepted, log, late, applied, replica>>

-----------------------------------------------------------------------------
(* From a request to a record.                                              *)

\* The path the filter would write for what a request says.
PlainPath(ctx) ==
    IF ctx.kind = "ingest_bulk" THEN SelectSeq(<<ctx.index, "_bulk">>, IsSegment)
    ELSE <<ctx.index, "_doc">> \o IF ctx.docId = None THEN <<>> ELSE <<ctx.docId>>

\* How a client spells a line that the filter would write otherwise: with the verb
\* _create or _update, with slashes or segments that do not count, with a query.
Spelling(req) ==
    IF req.path = PlainPath(CtxOf(req)) /\ req.query = None THEN None
    ELSE [path |-> req.path, query |-> req.query]

Spellings ==
    {None} \cup UNION {{Spelling(RewriteForPath(c, req)) : req \in Requests[c]} : c \in Configs}

Line(verb, index, id, routing, spelling) ==
    [verb |-> verb, index |-> index, id |-> id, routing |-> routing, spelling |-> spelling]

Lines == [verb : {"_doc", "_bulk"}, index : Indices \cup {""}, id : PhysIds \cup {None},
          routing : Partitions \cup {None}, spelling : Spellings]

\* The topic has a partition for every key.
ASSUME QueuesAssumption == \A line \in Lines : QueueOf(line) \in Queues

\* The request line of a forward: items of a bulk name their index themselves.
ForwardLine(kind, ops) ==
    IF kind = "ingest_bulk" THEN Line("_bulk", "", None, None, None)
    ELSE Line("_doc", ops[1].index, ops[1].id, ops[1].routing, None)

ForwardPayload(kind, ops) ==
    IF kind = "ingest_bulk" THEN ops
    ELSE IF ops[1].doc = None THEN <<>> ELSE <<ops[1].doc>>

\* The line as the client wrote it, less the tenant segment: path and query.
RawLine(req) ==
    LET ctx == CtxOf(req)
    IN  IF ctx.kind = "ingest_bulk" THEN Line("_bulk", ctx.index, None, None, Spelling(req))
        ELSE Line("_doc", ctx.index, ctx.docId, None, Spelling(req))

\* Mutant: the recorder ignores set_path.
CaptureUnrewritten(req, verdict) ==
    [line    |-> RawLine(req),
     payload |-> IF verdict.to = "continue" THEN <<>>
                 ELSE ForwardPayload(CtxOf(req).kind, verdict.ops)]

\* What CaptureActions has recorded when `handle` returns.  A request that is
\* passed through sets neither path nor body: the recorder starts with the
\* client's own path and query, and with an empty body.
Capture(req, verdict) ==
    LET kind == CtxOf(req).kind
    IN  IF verdict.to = "continue" THEN [line |-> RawLine(req), payload |-> <<>>]
        ELSE [line    |-> ForwardLine(kind, verdict.ops),
              payload |-> ForwardPayload(kind, verdict.ops)]

\* Mutant: a refusal of the transform is not looked at.
TakeUnchecked(c, wired, req) ==
    LET rewritten == RewriteForPath(c, req)
        verdict == Handle(c, req)
    IN  IF ~IsWriteRequest(req) THEN Immediate(400, "async_write_read_unsupported")
        ELSE IF ~wired THEN Immediate(503, "async_write_unavailable")
        ELSE [to |-> "sink",
              record |-> IF verdict.to = "local"
                         THEN [line |-> RawLine(rewritten), payload |-> <<>>]
                         ELSE Capture(rewritten, verdict)]

\* Filter::async_write up to the produce.
Take(c, wired, req) ==
    LET rewritten == RewriteForPath(c, req)
        verdict == Handle(c, req)
    IN  IF ~IsWriteRequest(req) THEN Immediate(400, "async_write_read_unsupported")
        ELSE IF ~wired THEN Immediate(503, "async_write_unavailable")
        ELSE IF verdict.to = "local" THEN verdict
        ELSE [to |-> "sink", record |-> Capture(rewritten, verdict)]

\* Mutant: the key says what is done as well as to what.
KeyPerMethod(record) ==
    IF record.payload = <<>> THEN [record.line EXCEPT !.verb = "_delete"]
    ELSE record.line

\* Bridge::record: the key is the path, the query included.
Key(record) == record.line

-----------------------------------------------------------------------------
(***************************************************************************)
(* What a consumer can make of a record: the method is not in it, so a     *)
(* document without a payload is a deletion.                               *)
(***************************************************************************)
Interpret(record) ==
    LET line == record.line
        body == record.payload
    IN  IF line.verb = "_bulk" THEN body
        ELSE <<Op(IF body = <<>> THEN "delete" ELSE "index", line.index, line.id,
                  line.routing, IF body = <<>> THEN None ELSE body[1], None)>>

Place(op) == <<op.index, op.id, op.routing>>

\* A document without an id gets a place of its own.
Places(record) ==
    LET ops == Interpret(record)
    IN  {Place(ops[i]) : i \in {j \in DOMAIN ops : ops[j].id # None}}

-----------------------------------------------------------------------------
\* An entry in flight or in the log: the record, and who sent it when.
Entry(c, n, req, record) ==
    [record |-> record, client |-> c, n |-> n, req |-> req, after |-> accepted[c]]

Idle == [pc |-> "idle", entry |-> None, landed |-> FALSE, status |-> 0, code |-> None]
Answered(s, status, code) ==
    [s EXCEPT !.pc = "answered", !.status = status, !.code = code]

Init ==
    /\ cfg \in Configs
    /\ sink \in BOOLEAN
    /\ client = [c \in Clients |-> Idle]
    /\ sent = [c \in Clients |-> 0]
    /\ accepted = [c \in Clients |-> {}]
    /\ log = [q \in Queues |-> <<>>]
    /\ late = {}
    /\ applied = [q \in Queues |-> 0]
    /\ replica = {}

Broker   == <<log, late>>
Consumer == <<applied, replica>>

\* A client sends a request; it is refused at once or its produce begins.
Send(c, req) ==
    LET taken  == Take(cfg, sink, req)
        record == IF taken.to = "sink" THEN taken.record ELSE None
        opened == [Idle EXCEPT !.entry = Entry(c, sent[c] + 1, req, record)]
    IN  /\ client[c].pc = "idle"
        /\ sent[c] < Sends[c]
        /\ sent' = [sent EXCEPT ![c] = @ + 1]
        /\ client' = [client EXCEPT ![c] =
               IF taken.to = "sink" THEN [opened EXCEPT !.pc = "producing"]
               ELSE Answered(opened, taken.status, taken.code)]
        /\ UNCHANGED <<cfg, sink, accepted, Broker, Consumer>>

\* The broker appends the record c is waiting for.
Land(entry) ==
    log' = [log EXCEPT ![QueueOf(Key(entry.record))] = Append(@, entry)]

LandAwaited(c) ==
    /\ client[c].pc = "producing"
    /\ ~client[c].landed
    /\ Land(client[c].entry)
    /\ client' = [client EXCEPT ![c].landed = TRUE]
    /\ UNCHANGED <<cfg, sink, sent, accepted, late, Consumer>>

\* Mutant: the produce is only enqueued (Bridge::forward).
AcknowledgeEnqueued(c) ==
    /\ client[c].pc = "producing"
    /\ client' = [client EXCEPT ![c] = Answered(@, 202, "accepted")]
    /\ late' = IF client[c].landed THEN late ELSE late \cup {client[c].entry}
    /\ accepted' = [accepted EXCEPT ![c] = @ \cup {client[c].entry.n}]
    /\ UNCHANGED <<cfg, sink, sent, log, Consumer>>

\* The acknowledgement arrives: 202.
Acknowledge(c) ==
    /\ client[c].pc = "producing"
    /\ client[c].landed
    /\ client' = [client EXCEPT ![c] = Answered(@, 202, "accepted")]
    /\ accepted' = [accepted EXCEPT ![c] = @ \cup {client[c].entry.n}]
    /\ UNCHANGED <<cfg, sink, sent, Broker, Consumer>>

\* What nobody waits for any more may still land.
Abandoned(s) == IF s.landed THEN late ELSE late \cup {s.entry}

\* Mutant: the produce is tried again.
NoAcknowledgementRetrying(c) ==
    /\ client[c].pc = "producing"
    /\ client' = [client EXCEPT ![c].landed = FALSE]
    /\ UNCHANGED <<cfg, sink, sent, accepted, log, late, Consumer>>

\* The produce fails, or only its acknowledgement is lost: 503.
NoAcknowledgement(c) ==
    /\ client[c].pc = "producing"
    /\ client' = [client EXCEPT ![c] = Answered(@, 503, "fanout_unavailable")]
    /\ late' = Abandoned(client[c])
    /\ UNCHANGED <<cfg, sink, sent, accepted, log, Consumer>>

\* The client goes away while the produce is awaited; the stream's task does
\* not notice until it has an answer to send.
Cancel(c) ==
    /\ client[c].pc = "producing"
    /\ client' = [client EXCEPT ![c] = Idle]
    /\ late' = Abandoned(client[c])
    /\ UNCHANGED <<cfg, sink, sent, accepted, log, Consumer>>

\* The client takes its reply; it may send the same request again.
Receive(c) ==
    /\ client[c].pc = "answered"
    /\ client' = [client EXCEPT ![c] = Idle]
    /\ UNCHANGED <<cfg, sink, sent, accepted, Broker, Consumer>>

LandLate(entry) ==
    /\ Land(entry)
    /\ late' = late \ {entry}
    /\ UNCHANGED <<cfg, sink, client, sent, accepted, Consumer>>

Lose(entry) ==
    /\ late' = late \ {entry}
    /\ UNCHANGED <<cfg, sink, client, sent, accepted, log, Consumer>>

\* The consumer applies the next record of a queue, one queue at a time.
Apply(q) ==
    LET entry == log[q][applied[q] + 1]
        kept  == {x \in replica : x.place \notin Places(entry.record)}
    IN  /\ applied[q] < Len(log[q])
        /\ applied' = [applied EXCEPT ![q] = @ + 1]
        /\ replica' = kept \cup {[place |-> p, entry |-> entry] :
                                   p \in Places(entry.record)}
        /\ UNCHANGED <<cfg, sink, client, sent, accepted, Broker>>

Next ==
    \/ \E c \in Clients :
         \/ \E req \in Requests[cfg] : Send(c, req)
         \/ LandAwaited(c) \/ Acknowledge(c) \/ NoAcknowledgement(c)
         \/ Cancel(c) \/ Receive(c)
    \/ \E entry \in late : LandLate(entry) \/ Lose(entry)
    \/ \E q \in Queues : Apply(q)

\* A consumer keeps consuming; clients, broker and acknowledgements owe nothing.
Fairness == \A q \in Queues : WF_vars(Apply(q))

Spec == Init /\ [][Next]_vars /\ Fairness

-----------------------------------------------------------------------------
(* Properties.                                                              *)

Logged == UNION {{log[q][i] : i \in DOMAIN log[q]} : q \in Queues}
Produced(c, n) == \E e \in Logged : e.client = c /\ e.n = n

\* Type correctness: every record has a well-formed physical line.
TypeOK ==
    /\ cfg \in Configs /\ sink \in BOOLEAN
    /\ \A c \in Clients :
         /\ client[c].pc \in {"idle", "producing", "answered"}
         /\ sent[c] \in 0..Sends[c]
         /\ accepted[c] \subseteq 1..sent[c]
    /\ \A e \in Logged \cup late : e.record.line \in Lines
    /\ \A q \in Queues : applied[q] \in 0..Len(log[q])

\* A 202 is honest: the record of every accepted write is in the log, whatever
\* acknowledgements are lost and whoever stops waiting (async_write answers 202
\* only when produce_acked succeeds).
AcceptedIsDurable ==
    \A c \in Clients : \A n \in accepted[c] : Produced(c, n)

\* A refusal queues nothing: whatever is in the log or on its way there the
\* synchronous path would have let go too, and a client that was refused
\* for another reason than a missing acknowledgement left nothing behind (the
\* early returns of async_write before produce_acked).
RefusalsQueueNothing ==
    /\ \A e \in Logged \cup late :
         IsWriteRequest(e.req) /\ Handle(cfg, e.req).to # "local"
    /\ \A c \in Clients :
         client[c].pc = "answered"
           /\ client[c].code \notin {"accepted", "fanout_unavailable"}
           => \A e \in Logged \cup late : e.client = c => e.n # client[c].entry.n

\* A record is the synchronous write in another form: a consumer reads from it
\* the very operations a forward of the same request would carry.  A write to a
\* passthrough index is the exception (CaptureActions records no body for it).
RecordIsTheWrite ==
    \A e \in Logged \cup late :
        \/ Bypasses(cfg, CtxOf(RewriteForPath(cfg, e.req)))
        \/ Interpret(e.record) = Plan(cfg, e.req).ops

\* Records of two tenants never meet in one place of a replica that knows
\* nothing of tenancy (ids and indices of CaptureActions are the physical ones).
RecordsKeepTenantsApart ==
    \A e, f \in Logged :
        TenantOf(cfg, e.req) # TenantOf(cfg, f.req)
            => Places(e.record) \cap Places(f.record) = {}

\* Per-document order: a write a client sent after an earlier one of its own had
\* been accepted is never undone by that earlier one, if both are bulks or neither
\* is, and clients who write past the tenancy spell both alike (Bridge::record keys
\* a record by its path: the document's, a bulk's own, or the client's as it stands).
Undone(x, entry) == x.entry.client = entry.client /\ entry.n \in x.entry.after
SameForm(e, f) ==
    LET line == e.record.line
        other == f.record.line
    IN  line.verb = other.verb /\ line.spelling = other.spelling

OrderKept ==
    [][\A q \in Queues : applied'[q] # applied[q] =>
          LET entry == log[q][applied'[q]]
          IN  \A x \in replica :
                 x.place \in Places(entry.record) /\ SameForm(x.entry, entry)
                     => ~Undone(x, entry)]_vars

\* What was accepted happens: the consumer applies it in the end ("a 202
\* promises the write will happen").
AcceptedHappens ==
    \A c \in Clients : \A n \in 1..Sends[c] :
        n \in accepted[c] ~>
            \E q \in Queues : \E i \in 1..applied[q] :
                log[q][i].client = c /\ log[q][i].n = n
=============================================================================
