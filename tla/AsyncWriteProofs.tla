-------------------------- MODULE AsyncWriteProofs --------------------------
(***************************************************************************)
(* What AsyncWrite promises, for every set of clients, configurations,     *)
(* requests and queues.                                                    *)
(*                                                                         *)
(* None of the properties is inductive.  They rest on what an entry is     *)
(* wherever it is, awaited, in flight or logged (EntryInv); on a produce   *)
(* being in the log once it has landed (ClientInv); on every write having  *)
(* one entry in one place (LogInv, WaitInv); and on an entry standing      *)
(* behind whatever its client had been told was accepted (Behind).         *)
(***************************************************************************)
EXTENDS AsyncWriteClaims, RouteProofs

ClientFields == {"pc", "entry", "landed", "status", "code"}
IsClient(s)  == DOMAIN s = ClientFields /\ s = [f \in ClientFields |-> s[f]]
IsLog(s)     == \E S : s \in Seq(S)

RecordOf(c, req) == Capture(RewriteForPath(c, req), Handle(c, req))

\* An entry is a write the filter let go, put into a record, and one its client sent.
EntryInv(e) ==
    /\ e.client \in Clients /\ e.n \in 1..sent[e.client]
    /\ e.req \in Requests[cfg] /\ IsWriteRequest(e.req)
    /\ Handle(cfg, e.req).to # "local"
    /\ e.record = RecordOf(cfg, e.req)

TypeInv ==
    /\ cfg \in Configs /\ sink \in BOOLEAN
    /\ client = [c \in Clients |-> client[c]]
    /\ sent \in [Clients -> Nat]
    /\ accepted \in [Clients -> SUBSET Nat]
    /\ log = [q \in Queues |-> log[q]] /\ \A q \in Queues : IsLog(log[q])
    /\ applied \in [Queues -> Nat]
    /\ \A q \in Queues : applied[q] <= Len(log[q])

ClientInv(c) ==
    /\ IsClient(client[c])
    /\ client[c].pc \in {"idle", "producing", "answered"}
    /\ sent[c] <= Sends[c]
    /\ accepted[c] \subseteq 1..sent[c]
    /\ client[c].pc # "idle" =>
           client[c].entry.client = c /\ client[c].entry.n = sent[c]
    /\ Awaited(c) => EntryInv(client[c].entry) /\ client[c].landed \in BOOLEAN
    /\ Awaited(c) /\ client[c].landed => client[c].entry \in Logged

EntriesInv == \A e \in Logged \cup late : EntryInv(e)

Refused(c) ==
    client[c].pc = "answered" /\ client[c].code \notin {"accepted", "fanout_unavailable"}

RefusedInv ==
    \A c \in Clients : Refused(c) =>
        \A e \in Logged \cup late : e.client = c => e.n # client[c].entry.n

\* The inductive invariant of everything but the order.
IInv ==
    /\ TypeInv
    /\ \A c \in Clients : ClientInv(c)
    /\ EntriesInv /\ RefusedInv /\ AcceptedIsDurable

-----------------------------------------------------------------------------
(* Records.                                                                 *)

\* An async write the filter lets go is passed through, or resolved and rewritten by
\* the builder of its endpoint (Filter::handle, prepare).
LEMMA WriteFacts ==
    ASSUME NEW c \in Configs, NEW req \in Requests[c], IsWriteRequest(req),
           Handle(c, req).to # "local",
           NEW ctx, ctx = CtxOf(RewriteForPath(c, req)), NEW r, r = Resolve(c, ctx)
    PROVE  /\ WellFormed(ctx)
           /\ ctx.kind \in {"ingest_doc", "ingest_bulk", "delete_by_id"}
           /\ \/ Bypasses(c, ctx) /\ Handle(c, req).to = "continue"
              \/ /\ ~Bypasses(c, ctx) /\ Handle(c, req) = Dispatch(r, ctx)
                 /\ Handle(c, req).to = "upstream" /\ r.ok
                 /\ r.partition \in Partitions /\ r.index \in Indices \cup {""}
                 /\ RoutingOf(r) \in Partitions \cup {None}
  <1> DEFINE v == Handle(c, req)
             admitted == Admitted(c, r)
  <1>1. WellFormed(ctx) /\ IsWrite(ctx.kind)
    BY RequestsAssumption DEF RequestsAssumption
  <1>2. v = Verdict(c, req, r, admitted)
    BY DEF Handle
  <1>3. Front(c, req).to = "local" \/ Front(c, req) = [to |-> "continue"] \/ Front(c, req) = Pass
    BY DEF Front, BadMethod, Immediate
  <1>4. CASE Front(c, req) # Pass
    <2>1. v = Front(c, req)
      BY <1>2, <1>4 DEF Verdict
    <2>2. Front(c, req) = [to |-> "continue"]
      BY <1>3, <1>4, <2>1
    <2>3. Bypasses(c, ctx)
      BY <2>2 DEF Front, BadMethod, Immediate, Pass, Bypasses
    <2>4. QED
      BY <1>1, <2>1, <2>2, <2>3 DEF IsWrite
  <1>5. CASE Front(c, req) = Pass
    <2>1. v = Prepare(r, admitted, ctx)
      BY <1>2, <1>5 DEF Verdict
    <2>2. v = Dispatch(r, ctx) /\ r.ok
      BY <1>1, <2>1 DEF Prepare, Refusal, IsWrite, SupportedKinds, Immediate
    <2>3. ~Bypasses(c, ctx)
      BY <1>5 DEF Front, BadMethod, Immediate, Pass, Bypasses
    <2>4. v.to = "upstream"
      BY <1>1, <2>2 DEF Dispatch, IsWrite, WriteForward, BulkForward, ByIdForward,
                        RewriteFailed, Immediate, Upstream
    <2>5. c \in Config
      BY ConfigsAssumption DEF ConfigsAssumption
    <2> DEFINE p == ResolvePartition(c, ctx)
    <2>6. p \in Partitions
      <3>1. p \in Partitions \cup {None}
        BY <1>1, <2>5 DEF ResolvePartition, WellFormed, Config
      <3>2. p # None
        BY <2>2 DEF Resolve, Unresolved
      <3>3. QED
        BY <3>1, <3>2
    <2>7. /\ r.partition = p /\ r.index = IndexFor(c, p, ctx.index)
          /\ r.routing = c.routing
      BY <2>6, NamesDiffer DEF Resolve, NamesDiffer
    <2>8. IndexFor(c, p, ctx.index) \in Indices \cup {""}
      <3>1. ctx.index \in Indices \cup {""} /\ c.indexOf[p] \in Indices /\ c.shared \in Indices
        BY <1>1, <2>5, <2>6 DEF WellFormed, Config
      <3>2. QED
        BY <3>1 DEF IndexFor
    <2>9. RoutingOf(r) \in Partitions \cup {None}
      BY <2>6, <2>7 DEF RoutingOf
    <2>10. QED
      <3> HIDE DEF p, v
      <3>1. v.to = "upstream" /\ v = Dispatch(r, ctx)
        BY <2>2, <2>4
      <3>2. QED
        BY <1>1, <2>2, <2>3, <2>6, <2>7, <2>8, <2>9, <3>1 DEF IsWrite, v
  <1>6. QED
    BY <1>4, <1>5

\* A well-formed request names an index, and a physical id, if it names any.
LEMMA NamesTyped ==
    ASSUME NEW ctx, WellFormed(ctx)
    PROVE  /\ ctx.index \in Indices \cup {""} /\ ctx.docId \in Ids \cup {None}
           /\ ctx.docId \in PhysIds \cup {None}
  <1>1. ctx.index \in Indices \cup {""} /\ ctx.docId \in Ids \cup {None}
    BY Zenon DEF WellFormed
  <1>2. Ids \subseteq PhysIds
    BY DEF PhysIds
  <1>3. QED
    BY <1>1, <1>2

\* What the builders of the three write endpoints yield (WriteForward, ByIdForward,
\* BulkForward): one operation, or one for every item.
LEMMA WriteOps ==
    ASSUME NEW r, NEW ctx, Dispatch(r, ctx).to = "upstream", WellFormed(ctx),
           r.partition \in Partitions
    PROVE  /\ ctx.kind = "ingest_doc" =>
                /\ ctx.body \in Doc /\ Injected(r, ctx.body) \in Doc
                /\ OrElse(BuiltId(r, ctx.body), ctx.docId) \in PhysIds \cup {None}
                /\ Dispatch(r, ctx).ops =
                     <<Op("index", r.index, OrElse(BuiltId(r, ctx.body), ctx.docId),
                          RoutingOf(r), Injected(r, ctx.body), None)>>
           /\ ctx.kind = "delete_by_id" =>
                /\ PhysicalId(r, ctx.docId) \in PhysIds \cup {None}
                /\ Dispatch(r, ctx).ops =
                     <<Op("delete", r.index, PhysicalId(r, ctx.docId), RoutingOf(r),
                          None, None)>>
  <1>1. CASE ctx.kind = "ingest_doc"
    <2>1. Dispatch(r, ctx) = WriteForward(r, ctx)
      BY <1>1 DEF Dispatch
    <2>2. ~ApplyFails(r, ctx.body)
      BY <2>1 DEF WriteForward, RewriteFailed, Immediate
    <2>3. ctx.body \in Doc
      BY <1>1, <2>2 DEF WellFormed, BodyOf, ApplyFails
    <2>4. Injected(r, ctx.body) \in Doc
      BY <2>3 DEF Injected, Doc
    <2>5. BuiltId(r, ctx.body) \in PhysIds \cup {None}
      BY <2>2, <2>3 DEF BuiltId, ApplyFails, Doc, PhysIds
    <2>6. ctx.docId \in PhysIds \cup {None}
      BY NamesTyped
    <2>7. OrElse(BuiltId(r, ctx.body), ctx.docId) \in PhysIds \cup {None}
      BY <2>5, <2>6 DEF OrElse
    <2>8. Dispatch(r, ctx).ops =
            <<Op("index", r.index, OrElse(BuiltId(r, ctx.body), ctx.docId),
                 RoutingOf(r), Injected(r, ctx.body), None)>>
      BY <2>1, <2>2 DEF WriteForward, Upstream
    <2>9. QED
      BY <1>1, <2>3, <2>4, <2>7, <2>8
  <1>2. CASE ctx.kind = "delete_by_id"
    <2>1. Dispatch(r, ctx) = ByIdForward(r, ctx)
      BY <1>2 DEF Dispatch
    <2>2. ctx.docId \in Ids
      <3>1. ctx.docId # None
        BY <1>2, Zenon DEF WellFormed
      <3>2. QED
        BY <3>1, NamesTyped
    <2>3. PhysicalId(r, ctx.docId) \in PhysIds \cup {None}
      BY <2>2 DEF PhysicalId, PhysIds
    <2>4. QED
      BY <1>2, <2>1, <2>3 DEF ByIdForward, Upstream
  <1>3. QED
    BY <1>1, <1>2

\* A record has a well-formed line, and its key a queue (CaptureActions, Bridge::record).
LEMMA LineTyped ==
    ASSUME NEW c \in Configs, NEW req \in Requests[c], IsWriteRequest(req),
           Handle(c, req).to # "local"
    PROVE  /\ RecordOf(c, req).line \in Lines
           /\ QueueOf(Key(RecordOf(c, req))) \in Queues
  <1> DEFINE ctx == CtxOf(RewriteForPath(c, req))
             r == Resolve(c, ctx)
             v == Handle(c, req)
  <1>1. /\ WellFormed(ctx)
        /\ ctx.kind \in {"ingest_doc", "ingest_bulk", "delete_by_id"}
        /\ \/ Bypasses(c, ctx) /\ v.to = "continue"
           \/ /\ ~Bypasses(c, ctx) /\ v = Dispatch(r, ctx) /\ v.to = "upstream" /\ r.ok
              /\ r.partition \in Partitions /\ r.index \in Indices \cup {""}
              /\ RoutingOf(r) \in Partitions \cup {None}
    BY WriteFacts
  <1> HIDE DEF ctx, r, v
  <1>2. ASSUME NEW verb \in {"_doc", "_bulk"}, NEW index \in Indices \cup {""},
               NEW id \in PhysIds \cup {None}, NEW routing \in Partitions \cup {None},
               NEW spelling \in Spellings
        PROVE  Line(verb, index, id, routing, spelling) \in Lines
    BY DEF Line, Lines
  <1>6. None \in Spellings /\ Spelling(RewriteForPath(c, req)) \in Spellings
    BY DEF Spellings
  <1>3. CASE v.to = "continue"
    <2>1. RecordOf(c, req).line = RawLine(RewriteForPath(c, req))
      BY <1>3 DEF RecordOf, Capture, v
    <2>2. ctx.index \in Indices \cup {""} /\ ctx.docId \in PhysIds \cup {None}
      BY <1>1, NamesTyped
    <2>3. RawLine(RewriteForPath(c, req)) \in Lines
      BY <1>2, <1>6, <2>2 DEF RawLine, ctx
    <2>4. QED
      BY <2>1, <2>3, QueuesAssumption DEF Key, QueuesAssumption
  <1>4. CASE v.to = "upstream"
    <2>1. RecordOf(c, req).line = ForwardLine(ctx.kind, v.ops)
      BY <1>4 DEF RecordOf, Capture, ctx, v
    <2>2. ForwardLine(ctx.kind, v.ops) \in Lines
      <3>1. CASE ctx.kind = "ingest_bulk"
        BY <1>2, <1>6, <3>1 DEF ForwardLine
      <3>2. CASE ctx.kind # "ingest_bulk"
        <4>1. PICK id \in PhysIds \cup {None} : \E op, doc :
                v.ops = <<Op(op, r.index, id, RoutingOf(r), doc, None)>>
          BY <1>1, <1>4, <3>2, WriteOps
        <4>2. ForwardLine(ctx.kind, v.ops) = Line("_doc", r.index, id, RoutingOf(r), None)
          BY <3>2, <4>1 DEF ForwardLine, Op
        <4>3. QED
          BY <1>1, <1>2, <1>4, <1>6, <4>2
      <3>3. QED
        BY <3>1, <3>2
    <2>3. QED
      BY <2>1, <2>2, QueuesAssumption DEF Key, QueuesAssumption
  <1>5. QED
    BY <1>1, <1>3, <1>4

\* A record is the synchronous write in another form, unless the request is passed
\* through (CaptureActions, and a consumer that reads it).
LEMMA RecordSays ==
    ASSUME NEW c \in Configs, NEW req \in Requests[c], IsWriteRequest(req),
           Handle(c, req).to # "local"
    PROVE  \/ Bypasses(c, CtxOf(RewriteForPath(c, req)))
           \/ Interpret(RecordOf(c, req)) = Plan(c, req).ops
  <1> DEFINE ctx == CtxOf(RewriteForPath(c, req))
             r == Resolve(c, ctx)
             v == Handle(c, req)
             record == RecordOf(c, req)
  <1> SUFFICES ASSUME ~Bypasses(c, ctx) PROVE Interpret(record) = Plan(c, req).ops
    OBVIOUS
  <1>1. /\ WellFormed(ctx)
        /\ ctx.kind \in {"ingest_doc", "ingest_bulk", "delete_by_id"}
        /\ v = Dispatch(r, ctx) /\ v.to = "upstream" /\ r.partition \in Partitions
    BY WriteFacts
  <1>2. Plan(c, req) = v
    BY <1>1 DEF Plan
  <1>3. record = [line |-> ForwardLine(ctx.kind, v.ops), payload |-> ForwardPayload(ctx.kind, v.ops)]
    BY <1>1 DEF RecordOf, Capture
  <1> HIDE DEF ctx, r, v, record
  <1>4. CASE ctx.kind = "ingest_bulk"
    BY <1>2, <1>3, <1>4 DEF ForwardLine, ForwardPayload, Interpret, Line
  <1>5. CASE ctx.kind = "ingest_doc"
    <2>1. PICK doc \in Doc : \E i :
            v.ops = <<Op("index", r.index, i, RoutingOf(r), doc, None)>>
      BY <1>1, <1>5, WriteOps
    <2> PICK id : v.ops = <<Op("index", r.index, id, RoutingOf(r), doc, None)>>
      BY <2>1
    <2>2. record.line = Line("_doc", r.index, id, RoutingOf(r), None)
      BY <1>3, <1>5, <2>1 DEF ForwardLine, Op
    <2>3. doc # None
      BY DocAssumption DEF DocAssumption
    <2>4. record.payload = <<doc>>
      BY <1>3, <1>5, <2>1, <2>3 DEF ForwardPayload, Op
    <2>5. record.payload # <<>> /\ record.payload[1] = doc
      BY <2>4
    <2>6. QED
      BY <1>2, <2>1, <2>2, <2>5 DEF Interpret, Line
  <1>6. CASE ctx.kind = "delete_by_id"
    <2>1. PICK id : v.ops = <<Op("delete", r.index, id, RoutingOf(r), None, None)>>
      BY <1>1, <1>6, WriteOps
    <2>2. record.line = Line("_doc", r.index, id, RoutingOf(r), None)
      BY <1>3, <1>6, <2>1 DEF ForwardLine, Op
    <2>3. record.payload = <<>>
      BY <1>3, <1>6, <2>1 DEF ForwardPayload, Op
    <2>4. QED
      BY <1>2, <2>1, <2>2, <2>3 DEF Interpret, Line
  <1>7. QED
    BY <1>1, <1>4, <1>5, <1>6

\* The record of a write that has a body and is not passed through carries it
\* (CaptureActions keeps what set_body is given).
LEMMA RecordCarries ==
    ASSUME NEW c \in Configs, NEW req \in Requests[c], IsWriteRequest(req),
           Handle(c, req).to # "local", ~Bypasses(c, CtxOf(RewriteForPath(c, req))),
           req.body \notin {None, <<>>}
    PROVE  RecordOf(c, req).payload # <<>>
  <1> DEFINE ctx == CtxOf(RewriteForPath(c, req))
             r == Resolve(c, ctx)
             v == Handle(c, req)
             record == RecordOf(c, req)
  <1>1. /\ WellFormed(ctx)
        /\ ctx.kind \in {"ingest_doc", "ingest_bulk", "delete_by_id"}
        /\ v = Dispatch(r, ctx) /\ v.to = "upstream" /\ r.partition \in Partitions
    BY WriteFacts
  <1>2. record.payload = ForwardPayload(ctx.kind, v.ops)
    BY <1>1 DEF RecordOf, Capture
  <1>3. ctx.body = req.body
    BY DEF CtxOf, RewriteForPath
  <1> HIDE DEF ctx, r, v, record
  <1>4. CASE ctx.kind = "ingest_bulk"
    <2>1. v = BulkForward(r, ctx)
      BY <1>1, <1>4 DEF Dispatch
    <2>2. /\ ctx.body # Malformed
          /\ v.ops = [i \in DOMAIN ctx.body |-> ItemOp(r, ctx.body[i])]
      BY <1>1, <2>1 DEF BulkForward, RewriteFailed, Immediate, Upstream
    <2>3. ctx.body \in Seq(Item)
      BY <1>1, <1>4, <2>2 DEF WellFormed, BodyOf
    <2>4. 1 \in DOMAIN ctx.body
      BY <1>3, <2>3
    <2>5. DOMAIN v.ops # {}
      BY <2>2, <2>4
    <2>6. QED
      BY <1>2, <1>4, <2>5 DEF ForwardPayload, record
  <1>5. CASE ctx.kind = "ingest_doc"
    <2>1. PICK doc \in Doc : \E i :
            v.ops = <<Op("index", r.index, i, RoutingOf(r), doc, None)>>
      BY <1>1, <1>5, WriteOps
    <2>2. doc # None /\ v.ops[1].doc = doc
      BY <2>1, DocAssumption DEF DocAssumption, Op
    <2>3. QED
      BY <1>2, <1>5, <2>2 DEF ForwardPayload, record
  <1>6. CASE ctx.kind = "delete_by_id"
    <2>1. ctx.body = None
      BY <1>1, <1>6 DEF WellFormed, BodyOf
    <2>2. QED
      BY <1>3, <2>1
  <1>7. QED
    BY <1>1, <1>4, <1>5, <1>6

-----------------------------------------------------------------------------
(* The log.                                                                 *)

\* Appending to a log keeps what is there and adds one entry at its end.
LEMMA AppendFacts ==
    ASSUME NEW s, IsLog(s), NEW e
    PROVE  /\ IsLog(Append(s, e)) /\ Len(s) \in Nat
           /\ DOMAIN s = 1..Len(s) /\ DOMAIN Append(s, e) = 1..(Len(s) + 1)
           /\ Len(Append(s, e)) = Len(s) + 1
           /\ \A i \in 1..Len(s) : Append(s, e)[i] = s[i]
           /\ Append(s, e)[Len(s) + 1] = e
  <1>1. PICK S : s \in Seq(S)
    BY DEF IsLog
  <1> DEFINE T == S \cup {e}
  <1>2. s \in Seq(T) /\ e \in T
    BY <1>1
  <1> HIDE DEF T
  <1>3. Append(s, e) \in Seq(T)
    BY <1>2
  <1>4. QED
    BY <1>2, <1>3 DEF IsLog

\* Where a landing record goes.
Goes(entry) == QueueOf(Key(entry.record))

\* What landing does to the logs (an append to the queue of the record's key).
LEMMA LandFacts ==
    ASSUME TypeInv, NEW entry, EntryInv(entry), Land(entry)
    PROVE  /\ Goes(entry) \in Queues
           /\ log' = [q \in Queues |-> log'[q]] /\ \A q \in Queues : IsLog(log'[q])
           /\ \A q \in Queues :
                  Len(log[q]) \in Nat /\ Len(log'[q]) \in Nat /\ Len(log[q]) <= Len(log'[q])
           /\ \A q \in Queues : DOMAIN log[q] = 1..Len(log[q]) /\ DOMAIN log'[q] = 1..Len(log'[q])
           /\ \A q \in Queues : \A i \in DOMAIN log[q] : log'[q][i] = log[q][i]
           /\ \A q \in Queues : q # Goes(entry) => log'[q] = log[q]
           /\ Len(log'[Goes(entry)]) = Len(log[Goes(entry)]) + 1
           /\ log'[Goes(entry)][Len(log[Goes(entry)]) + 1] = entry
           /\ Logged' = Logged \cup {entry}
  <1> DEFINE g == Goes(entry)
             s == log[g]
  <1>1. g \in Queues
    BY LineTyped DEF EntryInv, TypeInv, Goes
  <1>2. log' = [log EXCEPT ![g] = Append(@, entry)]
    BY DEF Land, Goes
  <1>3. log = [q \in Queues |-> log[q]] /\ \A q \in Queues : IsLog(log[q])
    BY DEF TypeInv
  <1>4. /\ log'[g] = Append(s, entry)
        /\ \A q \in Queues : q # g => log'[q] = log[q]
    BY <1>1, <1>2, <1>3
  <1>5. log' = [q \in Queues |-> log'[q]]
    BY <1>1, <1>2, <1>3
  <1> HIDE DEF g
  <1>6. /\ IsLog(log'[g]) /\ Len(s) \in Nat
        /\ DOMAIN s = 1..Len(s) /\ DOMAIN log'[g] = 1..(Len(s) + 1)
        /\ Len(log'[g]) = Len(s) + 1
        /\ \A i \in 1..Len(s) : log'[g][i] = s[i]
        /\ log'[g][Len(s) + 1] = entry
    BY <1>1, <1>3, <1>4, AppendFacts
  <1>7. \A q \in Queues : IsLog(log'[q])
    BY <1>3, <1>4, <1>6
  <1>8. \A q \in Queues : DOMAIN log[q] = 1..Len(log[q]) /\ Len(log[q]) \in Nat
    BY <1>3, AppendFacts
  <1>9. \A q \in Queues : DOMAIN log'[q] = 1..Len(log'[q]) /\ Len(log'[q]) \in Nat
    BY <1>4, <1>6, <1>8
  <1>10. \A q \in Queues : Len(log[q]) <= Len(log'[q])
    BY <1>4, <1>6, <1>8
  <1>11. \A q \in Queues : \A i \in DOMAIN log[q] : log'[q][i] = log[q][i]
    BY <1>4, <1>6
  <1>12. Logged' = Logged \cup {entry}
    <2>1. ASSUME NEW q \in Queues, NEW i \in DOMAIN log'[q]
          PROVE  log'[q][i] \in Logged \cup {entry}
      <3>1. CASE q # g
        BY <1>4, <2>1, <3>1 DEF Logged
      <3>2. CASE q = g /\ i # Len(s) + 1
        <4>1. i \in 1..(Len(s) + 1) /\ Len(s) \in Nat
          BY <1>6, <2>1, <3>2
        <4>2. i \in 1..Len(s)
          BY <3>2, <4>1
        <4>3. i \in DOMAIN log[q] /\ log'[q][i] = log[q][i]
          BY <1>6, <3>2, <4>2
        <4>4. QED
          BY <4>3 DEF Logged
      <3>3. CASE q = g /\ i = Len(s) + 1
        BY <1>6, <3>3
      <3>4. QED
        BY <3>1, <3>2, <3>3
    <2>2. ASSUME NEW e \in Logged PROVE e \in Logged'
      <3>1. PICK q \in Queues : \E j \in DOMAIN log[q] : e = log[q][j]
        BY DEF Logged
      <3> PICK i \in DOMAIN log[q] : e = log[q][i]
        BY <3>1
      <3>2. i \in 1..Len(log[q]) /\ Len(log[q]) \in Nat /\ Len(log'[q]) \in Nat
        BY <1>8, <1>9
      <3>3. i \in 1..Len(log'[q])
        BY <1>10, <3>2
      <3>4. i \in DOMAIN log'[q]
        BY <1>9, <3>3
      <3>5. log'[q][i] = e
        BY <1>11
      <3>6. QED
        BY <3>4, <3>5 DEF Logged
    <2>3. entry \in Logged'
      <3>1. Len(s) + 1 \in DOMAIN log'[g]
        BY <1>6
      <3>2. QED
        BY <1>1, <1>6, <3>1 DEF Logged
    <2>4. ASSUME NEW e \in Logged' PROVE e \in Logged \cup {entry}
      BY <2>1 DEF Logged
    <2>5. QED
      BY <2>2, <2>3, <2>4
  <1>13. QED
    BY <1>1, <1>4, <1>5, <1>6, <1>7, <1>8, <1>9, <1>10, <1>11, <1>12 DEF g

-----------------------------------------------------------------------------
(* The invariant.                                                           *)

\* An entry stays what it is.
LEMMA EntryStays ==
    ASSUME cfg' = cfg,
           \A c \in Clients : sent[c] \in Nat /\ sent'[c] \in Nat /\ sent[c] <= sent'[c],
           NEW e, EntryInv(e)
    PROVE  EntryInv(e)'
  <1>1. e.client \in Clients /\ e.n \in 1..sent[e.client]
    BY DEF EntryInv
  <1>2. e.n \in 1..sent'[e.client]
    BY <1>1
  <1>3. QED
    BY <1>1, <1>2 DEF EntryInv

\* One client changes, the others do not.
LEMMA OneChanges ==
    ASSUME TypeInv, NEW c \in Clients, NEW s, client' = [client EXCEPT ![c] = s]
    PROVE  /\ client'[c] = s /\ client' = [d \in Clients |-> client'[d]]
           /\ \A d \in Clients : d # c => client'[d] = client[d]
  BY DEF TypeInv

\* What one client does leaves the others as they were.
LEMMA OthersKeep ==
    ASSUME IInv, NEW c, cfg' = cfg, Logged \subseteq Logged',
           \A d \in Clients : sent[d] \in Nat /\ sent'[d] \in Nat /\ sent[d] <= sent'[d],
           \A d \in Clients : d # c =>
               client'[d] = client[d] /\ sent'[d] = sent[d] /\ accepted'[d] = accepted[d]
    PROVE  \A d \in Clients : d # c => ClientInv(d)'
  <1> SUFFICES ASSUME NEW d \in Clients, d # c PROVE ClientInv(d)'
    OBVIOUS
  <1>1. ClientInv(d) /\ client'[d] = client[d] /\ sent'[d] = sent[d] /\ accepted'[d] = accepted[d]
    BY DEF IInv
  <1>2. Awaited(d) => EntryInv(client[d].entry)'
    BY <1>1, EntryStays DEF ClientInv
  <1>3. QED
    BY <1>1, <1>2 DEF ClientInv, Awaited

\* What was accepted stays in a log that only grows.
LEMMA DurableStays ==
    ASSUME AcceptedIsDurable, accepted' = accepted, Logged \subseteq Logged'
    PROVE  AcceptedIsDurable'
  BY DEF AcceptedIsDurable, Produced

\* The initial states meet the invariant.
LEMMA Starts == Init => IInv
  <1> SUFFICES ASSUME Init PROVE IInv
    OBVIOUS
  <1>1. \A q \in Queues : log[q] = <<>> /\ IsLog(log[q]) /\ Len(log[q]) = 0
    <2>1. IsLog(<<>>)
      BY DEF IsLog
    <2>2. QED
      BY <2>1 DEF Init
  <1>2. Logged = {} /\ late = {}
    <2>1. \A q \in Queues : DOMAIN log[q] = {}
      BY <1>1
    <2>2. QED
      BY <2>1 DEF Logged, Init
  <1>3. TypeInv
    BY <1>1 DEF Init, TypeInv
  <1>4. ASSUME NEW c \in Clients PROVE ClientInv(c)
    <2>1. client[c] = Idle /\ sent[c] = 0 /\ accepted[c] = {}
      BY DEF Init
    <2>2. Sends[c] \in Nat
      BY SendsAssumption DEF SendsAssumption
    <2>3. IsClient(Idle) /\ Idle.pc = "idle"
      BY DEF IsClient, Idle, ClientFields
    <2>4. QED
      BY <2>1, <2>2, <2>3 DEF ClientInv, Awaited
  <1>5. AcceptedIsDurable
    BY DEF Init, AcceptedIsDurable
  <1>6. QED
    BY <1>2, <1>3, <1>4, <1>5 DEF IInv, EntriesInv, RefusedInv

\* async_write up to the produce, or to its refusal (Send).
LEMMA SendKeeps ==
    ASSUME IInv, NEW c \in Clients, NEW req \in Requests[cfg], Send(c, req)
    PROVE  IInv'
  <1> DEFINE taken  == Take(cfg, sink, req)
             record == IF taken.to = "sink" THEN taken.record ELSE None
  <1>0. PICK entry : entry = Entry(c, sent[c] + 1, req, record)
    OBVIOUS
  <1> DEFINE opened == [Idle EXCEPT !.entry = entry]
             s == IF taken.to = "sink" THEN [opened EXCEPT !.pc = "producing"]
                  ELSE Answered(opened, taken.status, taken.code)
  <1>1. /\ cfg' = cfg /\ sink' = sink /\ accepted' = accepted /\ log' = log
        /\ late' = late /\ applied' = applied
    BY DEF Send, Broker, Consumer
  <1>2. /\ client[c].pc = "idle" /\ sent[c] < Sends[c]
        /\ sent' = [sent EXCEPT ![c] = @ + 1] /\ client' = [client EXCEPT ![c] = s]
    BY <1>0 DEF Send
  <1>3. TypeInv /\ sent \in [Clients -> Nat] /\ Sends[c] \in Nat
    BY SendsAssumption DEF IInv, TypeInv, SendsAssumption
  <1>4. /\ sent'[c] = sent[c] + 1 /\ sent' \in [Clients -> Nat]
        /\ \A d \in Clients : d # c => sent'[d] = sent[d]
    BY <1>2, <1>3
  <1>5. \A d \in Clients : sent[d] \in Nat /\ sent'[d] \in Nat /\ sent[d] <= sent'[d]
    BY <1>3, <1>4
  <1>6. Logged' = Logged
    BY <1>1 DEF Logged
  <1>7. /\ IsClient(s) /\ s.entry = entry /\ s.landed = FALSE
        /\ s.pc = IF taken.to = "sink" THEN "producing" ELSE "answered"
    <2> HIDE DEF taken
    <2> QED
      BY DEF IsClient, Idle, Answered, ClientFields
  <1>8. entry.client = c /\ entry.n = sent[c] + 1 /\ entry.req = req /\ entry.record = record
    BY <1>0 DEF Entry
  <1>9. taken.to = "sink" =>
            /\ IsWriteRequest(req) /\ Handle(cfg, req).to # "local"
            /\ record = RecordOf(cfg, req)
    BY DEF Take, Immediate, RecordOf
  <1> HIDE DEF s, record, opened, taken
  <1>10. /\ client'[c] = s /\ client' = [d \in Clients |-> client'[d]]
         /\ \A d \in Clients : d # c => client'[d] = client[d]
    BY <1>2, <1>3, OneChanges
  <1>11. taken.to = "sink" => EntryInv(entry)'
    <2>1. sent[c] + 1 \in 1..sent'[c]
      BY <1>3, <1>4
    <2>2. QED
      BY <1>1, <1>8, <1>9, <2>1 DEF EntryInv
  <1>12. TypeInv'
    BY <1>1, <1>3, <1>4, <1>10 DEF TypeInv
  <1>13. ClientInv(c)'
    <2>1. sent'[c] <= Sends[c]
      BY <1>2, <1>3, <1>4
    <2>2. accepted'[c] \subseteq 1..sent'[c]
      <3>1. accepted[c] \subseteq 1..sent[c] /\ sent[c] \in Nat
        BY <1>3 DEF IInv, ClientInv
      <3>2. 1..sent[c] \subseteq 1..sent'[c]
        BY <1>4, <3>1
      <3>3. QED
        BY <1>1, <3>1, <3>2
    <2>3. QED
      BY <1>4, <1>7, <1>8, <1>10, <1>11, <2>1, <2>2 DEF ClientInv, Awaited
  <1>14. \A d \in Clients : ClientInv(d)'
    BY <1>1, <1>4, <1>5, <1>6, <1>10, <1>13, OthersKeep
  <1>15. EntriesInv'
    BY <1>1, <1>5, <1>6, EntryStays DEF IInv, EntriesInv
  <1>16. RefusedInv'
    <2>1. ASSUME NEW e \in Logged \cup late, e.client = c PROVE e.n # sent[c] + 1
      BY <1>3, <2>1 DEF IInv, EntriesInv, EntryInv
    <2>2. ASSUME NEW d \in Clients, Refused(d)', NEW e \in Logged \cup late, e.client = d
          PROVE  e.n # client'[d].entry.n
      <3>1. CASE d = c
        BY <1>7, <1>8, <1>10, <2>1, <2>2, <3>1
      <3>2. CASE d # c
        <4>1. Refused(d)
          BY <1>10, <2>2, <3>2 DEF Refused
        <4>2. QED
          BY <1>10, <2>2, <3>2, <4>1 DEF IInv, RefusedInv
      <3>3. QED
        BY <3>1, <3>2
    <2>3. QED
      BY <1>1, <1>6, <2>2 DEF RefusedInv
  <1>17. QED
    BY <1>1, <1>6, <1>12, <1>14, <1>15, <1>16, DurableStays DEF IInv

\* What every step but a client's sending leaves alone.
LEMMA Settled ==
    ASSUME IInv, cfg' = cfg, sent' = sent
    PROVE  /\ TypeInv
           /\ \A d \in Clients : sent[d] \in Nat /\ sent'[d] \in Nat /\ sent[d] <= sent'[d]
           /\ \A e : EntryInv(e) => EntryInv(e)'
  <1>1. TypeInv /\ sent \in [Clients -> Nat]
    BY DEF IInv, TypeInv
  <1>2. \A d \in Clients : sent[d] \in Nat /\ sent'[d] \in Nat /\ sent[d] <= sent'[d]
    BY <1>1
  <1>3. ASSUME NEW e, EntryInv(e) PROVE EntryInv(e)'
    BY <1>2, <1>3, EntryStays
  <1>4. QED
    BY <1>1, <1>2, <1>3

\* A record lands that nobody was refused for: the invariants about entries stay.
LEMMA LandKeeps ==
    ASSUME IInv, cfg' = cfg, sink' = sink, sent' = sent, applied' = applied,
           client' = [d \in Clients |-> client'[d]], accepted' = accepted,
           NEW entry, EntryInv(entry), Land(entry), late' \subseteq late,
           \A d \in Clients : Refused(d)' => Refused(d) /\ client'[d] = client[d],
           \A d \in Clients : Refused(d) /\ entry.client = d => entry.n # client[d].entry.n
    PROVE  TypeInv' /\ EntriesInv' /\ RefusedInv' /\ AcceptedIsDurable'
  <1>1. /\ TypeInv
        /\ \A e : EntryInv(e) => EntryInv(e)'
    BY Settled
  <1>2. /\ log' = [q \in Queues |-> log'[q]] /\ \A q \in Queues : IsLog(log'[q])
        /\ \A q \in Queues :
               Len(log[q]) \in Nat /\ Len(log'[q]) \in Nat /\ Len(log[q]) <= Len(log'[q])
        /\ Logged' = Logged \cup {entry}
    BY <1>1, LandFacts
  <1>3. TypeInv'
    <2>1. applied \in [Queues -> Nat] /\ \A q \in Queues : applied[q] <= Len(log[q])
      BY <1>1 DEF TypeInv
    <2>2. \A q \in Queues : applied'[q] <= Len(log'[q])
      BY <1>2, <2>1
    <2>3. cfg' \in Configs /\ sink' \in BOOLEAN /\ sent' \in [Clients -> Nat]
          /\ accepted' \in [Clients -> SUBSET Nat]
      BY <1>1 DEF TypeInv
    <2>4. QED
      BY <1>2, <2>1, <2>2, <2>3 DEF TypeInv
  <1>4. EntriesInv'
    BY <1>1, <1>2 DEF IInv, EntriesInv
  <1>5. RefusedInv'
    BY <1>2 DEF IInv, RefusedInv
  <1>6. AcceptedIsDurable'
    BY <1>2, DurableStays DEF IInv
  <1>7. QED
    BY <1>3, <1>4, <1>5, <1>6

\* The awaited record lands (LandAwaited).
LEMMA LandAwaitedKeeps ==
    ASSUME IInv, NEW c \in Clients, LandAwaited(c)
    PROVE  IInv'
  <1>0. PICK entry : entry = client[c].entry
    OBVIOUS
  <1>1. /\ cfg' = cfg /\ sink' = sink /\ sent' = sent /\ accepted' = accepted
        /\ late' = late /\ applied' = applied /\ Land(entry)
        /\ client' = [client EXCEPT ![c] = [client[c] EXCEPT !.landed = TRUE]]
        /\ client[c].pc = "producing"
    BY <1>0 DEF LandAwaited, Consumer
  <1>2. /\ TypeInv
        /\ \A d \in Clients : sent[d] \in Nat /\ sent'[d] \in Nat /\ sent[d] <= sent'[d]
        /\ \A e : EntryInv(e) => EntryInv(e)'
    BY <1>1, Settled
  <1>3. /\ client'[c] = [client[c] EXCEPT !.landed = TRUE]
        /\ client' = [d \in Clients |-> client'[d]]
        /\ \A d \in Clients : d # c => client'[d] = client[d]
    BY <1>1, <1>2, OneChanges
  <1>4. ClientInv(c) /\ EntryInv(entry) /\ entry.client = c
    BY <1>0, <1>1 DEF IInv, ClientInv, Awaited
  <1>5. /\ IsClient(client'[c]) /\ client'[c].pc = "producing"
        /\ client'[c].entry = entry /\ client'[c].landed = TRUE
    BY <1>0, <1>1, <1>3, <1>4 DEF ClientInv, IsClient, ClientFields
  <1>6. Logged' = Logged \cup {entry}
    BY <1>1, <1>2, <1>4, LandFacts
  <1>7. TypeInv' /\ EntriesInv' /\ RefusedInv' /\ AcceptedIsDurable'
    <2>1. \A d \in Clients : Refused(d) => d # c
      BY <1>1 DEF Refused
    <2>2. \A d \in Clients : Refused(d)' => d # c
      BY <1>5 DEF Refused
    <2>3. \A d \in Clients : Refused(d)' => Refused(d) /\ client'[d] = client[d]
      BY <1>3, <2>2 DEF Refused
    <2>4. QED
      BY <1>1, <1>3, <1>4, <2>1, <2>3, LandKeeps
  <1>8. ClientInv(c)'
    <2>1. EntryInv(entry)'
      BY <1>2, <1>4
    <2>2. EntryInv(client[c].entry)'
      BY <1>5, <2>1 DEF EntryInv
    <2>3. client[c].entry.client = c /\ client[c].entry.n = sent[c]
      BY <1>1 DEF IInv, ClientInv
    <2>4. sent[c] <= Sends[c] /\ accepted[c] \subseteq 1..sent[c]
      BY DEF IInv, ClientInv
    <2>5. client'[c].entry \in Logged'
      BY <1>5, <1>6
    <2>6. QED
      BY <1>0, <1>1, <1>5, <2>2, <2>3, <2>4, <2>5 DEF ClientInv, Awaited
  <1>9. \A d \in Clients : ClientInv(d)'
    BY <1>1, <1>2, <1>3, <1>6, <1>8, OthersKeep
  <1>10. QED
    BY <1>7, <1>9 DEF IInv

\* A record lands late (LandLate), or never (Lose).
LEMMA LateKeeps ==
    ASSUME IInv, NEW entry \in late, LandLate(entry) \/ Lose(entry)
    PROVE  IInv'
  <1>1. /\ cfg' = cfg /\ sink' = sink /\ sent' = sent /\ accepted' = accepted
        /\ late' = late \ {entry} /\ applied' = applied /\ client' = client
        /\ Land(entry) \/ log' = log
    BY DEF LandLate, Lose, Consumer
  <1>2. /\ TypeInv
        /\ \A d \in Clients : sent[d] \in Nat /\ sent'[d] \in Nat /\ sent[d] <= sent'[d]
        /\ \A e : EntryInv(e) => EntryInv(e)'
    BY <1>1, Settled
  <1>3. EntryInv(entry)
    BY DEF IInv, EntriesInv
  <1>4. CASE Land(entry)
    <2>1. Logged' = Logged \cup {entry}
      BY <1>2, <1>3, <1>4, LandFacts
    <2>2. TypeInv' /\ EntriesInv' /\ RefusedInv' /\ AcceptedIsDurable'
      <3>1. client' = [d \in Clients |-> client'[d]]
        BY <1>1, <1>2 DEF TypeInv
      <3>2. \A d \in Clients : Refused(d)' => Refused(d) /\ client'[d] = client[d]
        BY <1>1 DEF Refused
      <3>3. \A d \in Clients : Refused(d) /\ entry.client = d => entry.n # client[d].entry.n
        BY DEF IInv, RefusedInv
      <3>4. QED
        BY <1>1, <1>3, <1>4, <3>1, <3>2, <3>3, LandKeeps
    <2>3. ASSUME NEW d \in Clients PROVE ClientInv(d)'
      <3>1. ClientInv(d)
        BY DEF IInv
      <3>2. QED
        BY <1>1, <1>2, <2>1, <3>1 DEF ClientInv, Awaited
    <2>4. QED
      BY <2>2, <2>3 DEF IInv
  <1>5. CASE log' = log
    <2>1. Logged' = Logged
      BY <1>5 DEF Logged
    <2>2. TypeInv'
      BY <1>1, <1>2, <1>5 DEF TypeInv
    <2>3. ASSUME NEW d \in Clients PROVE ClientInv(d)'
      <3>1. ClientInv(d)
        BY DEF IInv
      <3>2. QED
        BY <1>1, <1>2, <2>1, <3>1 DEF ClientInv, Awaited
    <2>4. EntriesInv' /\ RefusedInv'
      BY <1>1, <1>2, <2>1 DEF IInv, EntriesInv, RefusedInv, Refused
    <2>5. AcceptedIsDurable'
      BY <1>1, <2>1, DurableStays DEF IInv
    <2>6. QED
      BY <2>2, <2>3, <2>4, <2>5 DEF IInv
  <1>6. QED
    BY <1>1, <1>4, <1>5

\* A client's request is over, and nobody was refused: its reply is chosen, it went
\* away, or it has taken the reply.
LEMMA CloseKeeps ==
    ASSUME IInv, NEW c \in Clients, NEW s, IsClient(s), client' = [client EXCEPT ![c] = s],
           \/ s.pc = "idle"
           \/ /\ s.pc = "answered" /\ Awaited(c) /\ s.entry = client[c].entry
              /\ s.code \in {"accepted", "fanout_unavailable"},
           cfg' = cfg, sink' = sink, sent' = sent, log' = log, applied' = applied,
           \A e \in late' : e \in late \/ (Awaited(c) /\ e = client[c].entry),
           accepted' \in [Clients -> SUBSET Nat], accepted'[c] \subseteq 1..sent[c],
           \A d \in Clients : d # c => accepted'[d] = accepted[d],
           AcceptedIsDurable'
    PROVE  IInv'
  <1>1. /\ TypeInv
        /\ \A d \in Clients : sent[d] \in Nat /\ sent'[d] \in Nat /\ sent[d] <= sent'[d]
        /\ \A e : EntryInv(e) => EntryInv(e)'
    BY Settled
  <1>2. /\ client'[c] = s /\ client' = [d \in Clients |-> client'[d]]
        /\ \A d \in Clients : d # c => client'[d] = client[d]
    BY <1>1, OneChanges
  <1>3. Logged' = Logged
    BY DEF Logged
  <1>4. ClientInv(c) /\ EntriesInv /\ RefusedInv
    BY DEF IInv
  <1>5. TypeInv'
    BY <1>1, <1>2 DEF TypeInv
  <1>6. ClientInv(c)'
    BY <1>2, <1>4 DEF ClientInv, Awaited
  <1>7. \A d \in Clients : ClientInv(d)'
    BY <1>1, <1>2, <1>3, <1>6, OthersKeep
  <1>8. \A e \in late' : EntryInv(e)
    BY <1>4 DEF EntriesInv, ClientInv
  <1>9. EntriesInv'
    BY <1>1, <1>3, <1>4, <1>8 DEF EntriesInv
  <1>10. RefusedInv'
    <2>1. ASSUME NEW d \in Clients, Refused(d)', NEW e \in Logged \cup late', e.client = d
          PROVE  e.n # client'[d].entry.n
      <3>1. d # c
        BY <1>2, <2>1 DEF Refused
      <3>2. client'[d] = client[d] /\ Refused(d)
        BY <1>2, <2>1, <3>1 DEF Refused
      <3>3. e \in Logged \cup late
        <4>1. Awaited(c) => client[c].entry.client = c
          BY <1>4 DEF ClientInv, Awaited
        <4>2. QED
          BY <2>1, <3>1, <4>1
      <3>4. QED
        BY <1>4, <2>1, <3>2, <3>3 DEF RefusedInv
    <2>2. QED
      BY <1>3, <2>1 DEF RefusedInv
  <1>11. QED
    BY <1>5, <1>7, <1>9, <1>10 DEF IInv

\* What answering a request leaves of its client's state.
LEMMA Replies ==
    ASSUME NEW s, IsClient(s), NEW status, NEW code, NEW t, t = Answered(s, status, code)
    PROVE  IsClient(t) /\ t.pc = "answered" /\ t.entry = s.entry /\ t.code = code
  BY DEF IsClient, ClientFields, Answered

\* The acknowledgement arrives (Acknowledge).
LEMMA AcknowledgeKeeps ==
    ASSUME IInv, NEW c \in Clients, Acknowledge(c)
    PROVE  IInv'
  <1>0. PICK s : s = Answered(client[c], 202, "accepted")
    OBVIOUS
  <1>1. /\ cfg' = cfg /\ sink' = sink /\ sent' = sent /\ log' = log /\ late' = late
        /\ applied' = applied /\ client[c].pc = "producing" /\ client[c].landed
        /\ client' = [client EXCEPT ![c] = s]
        /\ accepted' = [accepted EXCEPT ![c] = @ \cup {client[c].entry.n}]
    BY <1>0 DEF Acknowledge, Broker, Consumer
  <1>2. TypeInv /\ ClientInv(c) /\ AcceptedIsDurable
    BY DEF IInv
  <1>3. IsClient(s) /\ s.pc = "answered" /\ s.entry = client[c].entry /\ s.code = "accepted"
    BY <1>0, <1>2, Replies DEF ClientInv
  <1>4. /\ accepted \in [Clients -> SUBSET Nat] /\ sent[c] \in Nat
        /\ client[c].entry.n = sent[c] /\ client[c].entry.n \in 1..sent[c]
        /\ client[c].entry.client = c /\ client[c].entry \in Logged
        /\ accepted[c] \subseteq 1..sent[c]
    BY <1>1, <1>2 DEF TypeInv, ClientInv, Awaited, EntryInv
  <1>5. /\ accepted' \in [Clients -> SUBSET Nat]
        /\ accepted'[c] = accepted[c] \cup {client[c].entry.n}
        /\ \A d \in Clients : d # c => accepted'[d] = accepted[d]
    BY <1>1, <1>4
  <1>6. AcceptedIsDurable'
    <2>1. Logged' = Logged
      BY <1>1 DEF Logged
    <2>2. ASSUME NEW d \in Clients, NEW n \in accepted'[d]
          PROVE  \E e \in Logged : e.client = d /\ e.n = n
      <3>1. CASE n \in accepted[d]
        BY <1>2, <3>1 DEF AcceptedIsDurable, Produced
      <3>2. CASE n \notin accepted[d]
        BY <1>4, <1>5, <2>2, <3>2
      <3>3. QED
        BY <3>1, <3>2
    <2>3. QED
      BY <2>1, <2>2 DEF AcceptedIsDurable, Produced
  <1>7. accepted'[c] \subseteq 1..sent[c]
    BY <1>4, <1>5
  <1>8. QED
    BY <1>1, <1>3, <1>5, <1>6, <1>7, CloseKeeps DEF Awaited

\* The produce fails, or its acknowledgement is lost, or the client goes away
\* (NoAcknowledgement, Cancel): the record may still be on its way.
LEMMA GiveUpKeeps ==
    ASSUME IInv, NEW c \in Clients, NoAcknowledgement(c) \/ Cancel(c)
    PROVE  IInv'
  <1>1. /\ cfg' = cfg /\ sink' = sink /\ sent' = sent /\ log' = log /\ accepted' = accepted
        /\ applied' = applied /\ client[c].pc = "producing" /\ late' = Abandoned(client[c])
    BY DEF NoAcknowledgement, Cancel, Consumer
  <1>2. TypeInv /\ ClientInv(c) /\ AcceptedIsDurable
    BY DEF IInv
  <1>3. PICK s : /\ s = Answered(client[c], 503, "fanout_unavailable") \/ s = Idle
                 /\ client' = [client EXCEPT ![c] = s]
    BY DEF NoAcknowledgement, Cancel
  <1>4. /\ IsClient(s)
        /\ \/ s.pc = "idle"
           \/ /\ s.pc = "answered" /\ s.entry = client[c].entry
              /\ s.code \in {"accepted", "fanout_unavailable"}
    <2>1. CASE s = Idle
      <3>1. IsClient(Idle) /\ Idle.pc = "idle"
        BY DEF IsClient, ClientFields, Idle
      <3>2. QED
        BY <2>1, <3>1
    <2>2. CASE s = Answered(client[c], 503, "fanout_unavailable")
      <3>1. /\ IsClient(s) /\ s.pc = "answered" /\ s.entry = client[c].entry
            /\ s.code = "fanout_unavailable"
        BY <1>2, <2>2, Replies DEF ClientInv
      <3>2. QED
        BY <3>1
    <2>3. QED
      BY <1>3, <2>1, <2>2
  <1>5. \A e \in late' : e \in late \/ e = client[c].entry
    BY <1>1 DEF Abandoned
  <1>6. accepted' \in [Clients -> SUBSET Nat] /\ accepted'[c] \subseteq 1..sent[c]
    BY <1>1, <1>2 DEF TypeInv, ClientInv
  <1>7. AcceptedIsDurable'
    <2>1. Logged' = Logged
      BY <1>1 DEF Logged
    <2>2. QED
      BY <1>1, <1>2, <2>1, DurableStays
  <1>8. QED
    BY <1>1, <1>3, <1>4, <1>5, <1>6, <1>7, CloseKeeps DEF Awaited

\* The client takes its reply (Receive).
LEMMA ReceiveKeeps ==
    ASSUME IInv, NEW c \in Clients, Receive(c)
    PROVE  IInv'
  <1>0. PICK s : s = Idle
    OBVIOUS
  <1>1. /\ cfg' = cfg /\ sink' = sink /\ sent' = sent /\ log' = log /\ late' = late
        /\ accepted' = accepted /\ applied' = applied
        /\ client' = [client EXCEPT ![c] = s]
    BY <1>0 DEF Receive, Broker, Consumer
  <1>2. TypeInv /\ ClientInv(c) /\ AcceptedIsDurable
    BY DEF IInv
  <1>3. IsClient(s) /\ s.pc = "idle"
    BY <1>0 DEF IsClient, ClientFields, Idle
  <1>4. accepted' \in [Clients -> SUBSET Nat] /\ accepted'[c] \subseteq 1..sent[c]
    BY <1>1, <1>2 DEF TypeInv, ClientInv
  <1>5. AcceptedIsDurable'
    <2>1. Logged' = Logged
      BY <1>1 DEF Logged
    <2>2. QED
      BY <1>1, <1>2, <2>1, DurableStays
  <1>6. QED
    BY <1>1, <1>3, <1>4, <1>5, CloseKeeps

\* Nothing the invariant speaks of changes but the consumer's position.
LEMMA PositionKeeps ==
    ASSUME IInv, UNCHANGED <<cfg, sink, client, sent, accepted, log, late>>,
           applied' \in [Queues -> Nat], \A q \in Queues : applied'[q] <= Len(log[q])
    PROVE  IInv'
  <1>1. /\ TypeInv /\ EntriesInv /\ RefusedInv /\ AcceptedIsDurable
        /\ \A c \in Clients : ClientInv(c)
        /\ \A e : EntryInv(e) => EntryInv(e)'
    BY Settled DEF IInv
  <1>2. Logged' = Logged
    BY DEF Logged
  <1>3. TypeInv'
    BY <1>1 DEF TypeInv
  <1>4. \A c \in Clients : ClientInv(c)'
    BY <1>1, <1>2 DEF ClientInv, Awaited
  <1>5. EntriesInv' /\ RefusedInv'
    BY <1>1, <1>2 DEF EntriesInv, RefusedInv, Refused
  <1>6. AcceptedIsDurable'
    BY <1>1, <1>2, DurableStays
  <1>7. QED
    BY <1>3, <1>4, <1>5, <1>6 DEF IInv

\* The consumer applies a record (Apply).
LEMMA ApplyKeeps ==
    ASSUME IInv, NEW q \in Queues, Apply(q)
    PROVE  IInv'
  <1>1. /\ UNCHANGED <<cfg, sink, client, sent, accepted, log, late>>
        /\ applied[q] < Len(log[q]) /\ applied' = [applied EXCEPT ![q] = @ + 1]
    BY DEF Apply, Broker
  <1>2. /\ applied \in [Queues -> Nat] /\ \A r \in Queues : IsLog(log[r])
        /\ \A r \in Queues : applied[r] <= Len(log[r])
    BY DEF IInv, TypeInv
  <1>3. \A r \in Queues : Len(log[r]) \in Nat
    BY <1>2, AppendFacts
  <1>4. applied' \in [Queues -> Nat] /\ \A r \in Queues : applied'[r] <= Len(log[r])
    BY <1>1, <1>2, <1>3
  <1>5. QED
    BY <1>1, <1>4, PositionKeeps

\* Every step keeps the invariant.
LEMMA Inductive == IInv /\ [Next]_vars => IInv'
  <1> SUFFICES ASSUME IInv, [Next]_vars PROVE IInv'
    OBVIOUS
  <1>1. CASE \E c \in Clients : \E req \in Requests[cfg] : Send(c, req)
    BY <1>1, SendKeeps
  <1>2. CASE \E c \in Clients : LandAwaited(c)
    BY <1>2, LandAwaitedKeeps
  <1>3. CASE \E c \in Clients : Acknowledge(c)
    BY <1>3, AcknowledgeKeeps
  <1>4. CASE \E c \in Clients : NoAcknowledgement(c) \/ Cancel(c)
    BY <1>4, GiveUpKeeps
  <1>5. CASE \E c \in Clients : Receive(c)
    BY <1>5, ReceiveKeeps
  <1>6. CASE \E entry \in late : LandLate(entry) \/ Lose(entry)
    BY <1>6, LateKeeps
  <1>7. CASE \E q \in Queues : Apply(q)
    BY <1>7, ApplyKeeps
  <1>8. CASE UNCHANGED vars
    <2>1. UNCHANGED <<cfg, sink, client, sent, accepted, log, late>> /\ applied' = applied
      BY <1>8 DEF vars
    <2>2. applied' \in [Queues -> Nat] /\ \A q \in Queues : applied'[q] <= Len(log[q])
      BY <2>1 DEF IInv, TypeInv
    <2>3. QED
      BY <2>1, <2>2, PositionKeeps
  <1>9. QED
    BY <1>1, <1>2, <1>3, <1>4, <1>5, <1>6, <1>7, <1>8 DEF Next

\* The invariant holds throughout.
LEMMA Always == Spec => []IInv
  BY Starts, Inductive, PTL DEF Spec

-----------------------------------------------------------------------------
(* The properties.                                                          *)

\* Type correctness: a client never has more accepted than it sent, every record that
\* was or may be appended has a physical line, the consumer is never ahead of a log.
THEOREM TypeCorrect == Spec => []TypeOK
  <1>1. IInv => TypeOK
    <2> SUFFICES ASSUME IInv PROVE TypeOK
      OBVIOUS
    <2>1. TypeInv /\ EntriesInv /\ \A c \in Clients : ClientInv(c)
      BY DEF IInv
    <2>2. ASSUME NEW c \in Clients
          PROVE  /\ client[c].pc \in {"idle", "producing", "answered"}
                 /\ sent[c] \in 0..Sends[c] /\ accepted[c] \subseteq 1..sent[c]
      <3>1. sent[c] \in Nat /\ Sends[c] \in Nat
        BY <2>1, SendsAssumption DEF TypeInv, SendsAssumption
      <3>2. QED
        BY <2>1, <3>1 DEF ClientInv
    <2>3. ASSUME NEW e \in Logged \cup late PROVE e.record.line \in Lines
      BY <2>1, LineTyped DEF EntriesInv, EntryInv, TypeInv
    <2>4. ASSUME NEW q \in Queues PROVE applied[q] \in 0..Len(log[q])
      <3>1. IsLog(log[q]) /\ applied[q] \in Nat /\ applied[q] <= Len(log[q])
        BY <2>1 DEF TypeInv
      <3>2. Len(log[q]) \in Nat
        BY <3>1, AppendFacts
      <3>3. QED
        BY <3>1, <3>2
    <2>5. QED
      BY <2>1, <2>2, <2>3, <2>4 DEF TypeOK, TypeInv
  <1>2. QED
    BY <1>1, Always, PTL

\* A 202 is honest: what was accepted is in the log, whatever acknowledgements are
\* lost and whoever stops waiting.
THEOREM Durable == Spec => []AcceptedIsDurable
  <1>1. IInv => AcceptedIsDurable
    BY DEF IInv
  <1>2. QED
    BY <1>1, Always, PTL

\* A refused write leaves no record, then or later.
THEOREM RefusalsHeld == Spec => []RefusalsQueueNothing
  <1>1. IInv => RefusalsQueueNothing
    BY DEF IInv, EntriesInv, EntryInv, RefusedInv, Refused, RefusalsQueueNothing
  <1>2. QED
    BY <1>1, Always, PTL

\* Whatever is or may be appended says what the synchronous write would have done.
THEOREM RecordsSay == Spec => []RecordIsTheWrite
  <1>1. IInv => RecordIsTheWrite
    <2> SUFFICES ASSUME IInv, NEW e \in Logged \cup late
                 PROVE  \/ Bypasses(cfg, CtxOf(RewriteForPath(cfg, e.req)))
                        \/ Interpret(e.record) = Plan(cfg, e.req).ops
      BY DEF RecordIsTheWrite
    <2>1. cfg \in Configs /\ EntryInv(e)
      BY DEF IInv, TypeInv, EntriesInv
    <2>2. QED
      BY <2>1, RecordSays DEF EntryInv
  <1>2. QED
    BY <1>1, Always, PTL

-----------------------------------------------------------------------------
(***************************************************************************)
(* The order of a client's writes.  A write has one entry, in one place;   *)
(* and a logged entry stands behind whatever its client had been told was  *)
(* accepted when it sent it.  Both are kept by everything the broker may   *)
(* do.  Bulks all go to one queue, and a place of a replica is fed from    *)
(* that one and from the one of its document.                              *)
(***************************************************************************)
Same(e, f) == e.client = f.client /\ e.n = f.n

Behind(q, i, e) ==
    \A n \in e.after : \E p \in Queues : \E j \in DOMAIN log[p] :
        log[p][j].client = e.client /\ log[p][j].n = n /\ (p = q => j < i)

LogInv ==
    /\ \A q \in Queues : \A i \in DOMAIN log[q] :
           Goes(log[q][i]) = q /\ Behind(q, i, log[q][i])
    /\ \A p, q \in Queues : \A i \in DOMAIN log[p] : \A j \in DOMAIN log[q] :
           Same(log[p][i], log[q][j]) => p = q /\ i = j

\* An entry that has not landed: nothing of its write has, and what it follows has.
Waits(e) ==
    /\ \A f \in Logged : ~Same(e, f)
    /\ \A n \in e.after : Produced(e.client, n)

WaitInv ==
    /\ \A e \in late : Waits(e) /\ \A f \in late : Same(e, f) => e = f
    /\ \A c \in Clients : Open(c) =>
           Waits(client[c].entry) /\ \A f \in late : ~Same(client[c].entry, f)

ReplicaInv ==
    \A x \in replica : \E q \in Queues : \E i \in 1..applied[q] :
        x.entry = log[q][i] /\ x.place \in Places(x.entry.record)

OInv == IInv /\ LogInv /\ WaitInv /\ ReplicaInv

\* An entry in a log is somewhere in it, and the other way round.
LEMMA LoggedAt ==
    ASSUME NEW e
    PROVE  e \in Logged <=> \E q \in Queues : \E i \in DOMAIN log[q] : log[q][i] = e
  BY DEF Logged

\* What has landed of a write is in some log.
LEMMA ProducedAt ==
    ASSUME NEW c, NEW n
    PROVE  Produced(c, n) <=> \E q \in Queues : \E i \in DOMAIN log[q] :
                                  log[q][i].client = c /\ log[q][i].n = n
  <1>1. ASSUME Produced(c, n)
        PROVE  \E q \in Queues : \E i \in DOMAIN log[q] : log[q][i].client = c /\ log[q][i].n = n
    <2>1. PICK e \in Logged : e.client = c /\ e.n = n
      BY <1>1 DEF Produced
    <2>2. QED
      BY <2>1, LoggedAt
  <1>2. ASSUME NEW q \in Queues, NEW i \in DOMAIN log[q], log[q][i].client = c, log[q][i].n = n
        PROVE  Produced(c, n)
    <2>1. log[q][i] \in Logged
      BY LoggedAt
    <2>2. QED
      BY <1>2, <2>1 DEF Produced
  <1>3. QED
    BY <1>1, <1>2

\* Where nothing lands the logs keep their order.
LEMMA LogStays == ASSUME LogInv, log' = log PROVE LogInv'
  BY DEF LogInv, Behind

\* A record that waited lands behind what it follows (Land).
LEMMA LogGrows ==
    ASSUME TypeInv, LogInv, NEW entry, EntryInv(entry), Land(entry), Waits(entry)
    PROVE  LogInv'
  <1> DEFINE g == Goes(entry)
             k == Len(log[g]) + 1
  <1>1. /\ g \in Queues
        /\ \A q \in Queues : Len(log[q]) \in Nat /\ DOMAIN log[q] = 1..Len(log[q])
        /\ \A q \in Queues : DOMAIN log'[q] = 1..Len(log'[q])
        /\ \A q \in Queues : \A i \in DOMAIN log[q] : log'[q][i] = log[q][i]
        /\ \A q \in Queues : q # g => log'[q] = log[q]
        /\ Len(log'[g]) = k /\ log'[g][k] = entry
    BY LandFacts
  <1> HIDE DEF g
  <1>2. \A q \in Queues : \A i \in DOMAIN log[q] : i \in DOMAIN log'[q]
    BY <1>1
  <1>3. \A q \in Queues : \A i \in DOMAIN log'[q] :
            \/ i \in DOMAIN log[q] /\ log'[q][i] = log[q][i]
            \/ q = g /\ i = k /\ log'[q][i] = entry
    BY <1>1
  <1>4. ASSUME NEW q \in Queues, NEW i \in DOMAIN log[q] PROVE ~Same(entry, log[q][i])
    BY LoggedAt DEF Waits
  <1>5. ASSUME NEW q \in Queues, NEW i \in DOMAIN log'[q], NEW e, e = log'[q][i]
        PROVE  Goes(e) = q /\ Behind(q, i, e)'
    <2>1. CASE i \in DOMAIN log[q] /\ log'[q][i] = log[q][i]
      <3>1. e = log[q][i]
        BY <1>5, <2>1
      <3>2. Goes(e) = q /\ Behind(q, i, e)
        BY <2>1, <3>1 DEF LogInv
      <3>3. Behind(q, i, e)'
        BY <1>1, <1>2, <3>2 DEF Behind
      <3>4. QED
        BY <3>2, <3>3
    <2>2. CASE q = g /\ i = k /\ log'[q][i] = entry
      <3>1. ASSUME NEW n \in entry.after
            PROVE  \E p \in Queues : \E j \in DOMAIN log'[p] :
                       /\ log'[p][j].client = entry.client /\ log'[p][j].n = n
                       /\ (p = q => j < i)
        <4>1. Produced(entry.client, n)
          BY DEF Waits
        <4>2. PICK p \in Queues : \E j \in DOMAIN log[p] :
                  log[p][j].client = entry.client /\ log[p][j].n = n
          BY <4>1, ProducedAt
        <4> PICK j \in DOMAIN log[p] : log[p][j].client = entry.client /\ log[p][j].n = n
          BY <4>2
        <4>3. j \in DOMAIN log'[p] /\ log'[p][j] = log[p][j]
          BY <1>1, <1>2
        <4>4. p = q => j < i
          BY <1>1, <2>2
        <4>5. QED
          BY <4>3, <4>4
      <3>2. e = entry
        BY <1>5, <2>2
      <3>3. QED
        BY <2>2, <3>1, <3>2 DEF g, Behind
    <2>3. QED
      BY <1>3, <2>1, <2>2
  <1>6. ASSUME NEW p \in Queues, NEW q \in Queues, NEW i \in DOMAIN log'[p],
               NEW j \in DOMAIN log'[q], Same(log'[p][i], log'[q][j])
        PROVE  p = q /\ i = j
    <2>1. CASE i \in DOMAIN log[p] /\ j \in DOMAIN log[q]
      BY <1>1, <1>6, <2>1 DEF LogInv
    <2>2. CASE i \in DOMAIN log[p] /\ q = g /\ j = k /\ log'[q][j] = entry
      <3>1. Same(log[p][i], entry)
        BY <1>1, <1>6, <2>2
      <3>2. QED
        BY <1>4, <2>2, <3>1 DEF Same
    <2>3. CASE j \in DOMAIN log[q] /\ p = g /\ i = k /\ log'[p][i] = entry
      <3>1. Same(entry, log[q][j])
        BY <1>1, <1>6, <2>3
      <3>2. QED
        BY <1>4, <2>3, <3>1
    <2>4. CASE p = g /\ i = k /\ q = g /\ j = k
      BY <2>4
    <2>5. QED
      BY <1>3, <2>1, <2>2, <2>3, <2>4
  <1>7. QED
    <2>1. \A q \in Queues : \A i \in DOMAIN log'[q] : Goes(log'[q][i]) = q
      BY <1>5
    <2>2. ASSUME NEW q \in Queues, NEW i \in DOMAIN log'[q], NEW n \in log'[q][i].after
          PROVE  \E p \in Queues : \E j \in DOMAIN log'[p] :
                     /\ log'[p][j].client = log'[q][i].client /\ log'[p][j].n = n
                     /\ (p = q => j < i)
      BY <1>5 DEF Behind
    <2>3. QED
      BY <1>6, <2>1, <2>2 DEF LogInv, Behind

\* An entry still waits when another write's record has landed, or none.
LEMMA StillWaits ==
    ASSUME NEW e, Waits(e),
           \/ Logged' = Logged
           \/ \E x : ~Same(e, x) /\ Logged' = Logged \cup {x}
    PROVE  Waits(e)'
  BY DEF Waits, Produced

\* The replica still stands for the log when records land.
LEMMA ReplicaStays ==
    ASSUME TypeInv, ReplicaInv, replica' = replica, applied' = applied,
           \A q \in Queues : \A i \in DOMAIN log[q] : log'[q][i] = log[q][i]
    PROVE  ReplicaInv'
  <1>1. ASSUME NEW x \in replica
        PROVE  \E q \in Queues : \E i \in 1..applied[q] :
                   x.entry = log'[q][i] /\ x.place \in Places(x.entry.record)
    <2>1. PICK q \in Queues : \E i \in 1..applied[q] :
              x.entry = log[q][i] /\ x.place \in Places(x.entry.record)
      BY DEF ReplicaInv
    <2> PICK i \in 1..applied[q] : x.entry = log[q][i] /\ x.place \in Places(x.entry.record)
      BY <2>1
    <2>2. IsLog(log[q]) /\ applied[q] \in Nat /\ applied[q] <= Len(log[q])
      BY DEF TypeInv
    <2>3. DOMAIN log[q] = 1..Len(log[q]) /\ Len(log[q]) \in Nat
      BY <2>2, AppendFacts
    <2>4. i \in DOMAIN log[q]
      BY <2>2, <2>3
    <2>5. QED
      BY <2>4
  <1>2. QED
    BY <1>1 DEF ReplicaInv

\* The initial states have nothing to keep in order.
LEMMA OrderStarts == Init => OInv
  <1> SUFFICES ASSUME Init PROVE OInv
    OBVIOUS
  <1>1. IInv
    BY Starts
  <1>2. \A q \in Queues : DOMAIN log[q] = {}
    BY DEF Init
  <1>3. LogInv
    BY <1>2 DEF LogInv
  <1>4. WaitInv
    <2>1. \A c \in Clients : client[c] = Idle
      BY DEF Init
    <2>2. QED
      BY <2>1 DEF WaitInv, Open, Awaited, Idle, Init
  <1>5. ReplicaInv
    BY DEF ReplicaInv, Init
  <1>6. QED
    BY <1>1, <1>3, <1>4, <1>5 DEF OInv

\* Where nothing lands and the consumer rests, only who waits can change.
LEMMA QuietKeeps ==
    ASSUME OInv, IInv', log' = log, applied' = applied, replica' = replica, WaitInv'
    PROVE  OInv'
  <1>1. LogInv'
    BY LogStays DEF OInv
  <1>2. ReplicaInv'
    BY DEF OInv, ReplicaInv
  <1>3. QED
    BY <1>1, <1>2 DEF OInv

\* A new write waits for its record to land (Send).
LEMMA SendOrders ==
    ASSUME OInv, NEW c \in Clients, NEW req \in Requests[cfg], Send(c, req)
    PROVE  OInv'
  <1> DEFINE taken == Take(cfg, sink, req)
  <1>0. PICK entry : entry = Entry(c, sent[c] + 1, req,
                                   IF taken.to = "sink" THEN taken.record ELSE None)
    OBVIOUS
  <1> DEFINE opened == [Idle EXCEPT !.entry = entry]
  <1>1. PICK s : s = IF taken.to = "sink" THEN [opened EXCEPT !.pc = "producing"]
                     ELSE Answered(opened, taken.status, taken.code)
    OBVIOUS
  <1>2. /\ log' = log /\ late' = late /\ applied' = applied /\ replica' = replica
        /\ client' = [client EXCEPT ![c] = s]
    BY <1>0, <1>1 DEF Send, Broker, Consumer
  <1>3. s.entry = entry
    <2> HIDE DEF taken
    <2> QED
      BY <1>1 DEF Idle, Answered
  <1>4. entry.client = c /\ entry.n = sent[c] + 1 /\ entry.after = accepted[c]
    BY <1>0 DEF Entry
  <1>5. IInv /\ TypeInv /\ EntriesInv /\ AcceptedIsDurable /\ WaitInv /\ sent[c] \in Nat
    BY DEF OInv, IInv, TypeInv
  <1>6. /\ client'[c] = s
        /\ \A d \in Clients : d # c => client'[d] = client[d]
    BY <1>2, <1>5, OneChanges
  <1>7. ASSUME NEW f \in Logged \cup late PROVE ~Same(entry, f)
    <2>1. f.client = c => f.n \in 1..sent[c]
      BY <1>5 DEF EntriesInv, EntryInv
    <2>2. QED
      BY <1>4, <1>5, <2>1 DEF Same
  <1>8. Waits(entry)
    BY <1>4, <1>5, <1>7 DEF Waits, AcceptedIsDurable
  <1>9. Logged' = Logged
    BY <1>2 DEF Logged
  <1>10. \A e : Waits(e) => Waits(e)'
    BY <1>9, StillWaits
  <1>11. WaitInv'
    <2>1. \A e \in late : Waits(e)' /\ \A f \in late : Same(e, f) => e = f
      BY <1>5, <1>10 DEF WaitInv
    <2>2. ASSUME NEW d \in Clients, Open(d)', NEW x, x = client'[d].entry
          PROVE  Waits(x)' /\ \A f \in late : ~Same(x, f)
      <3>1. CASE d = c
        BY <1>3, <1>6, <1>7, <1>8, <1>10, <2>2, <3>1
      <3>2. CASE d # c
        <4>1. x = client[d].entry /\ Open(d)
          BY <1>6, <2>2, <3>2 DEF Open, Awaited
        <4>2. QED
          BY <1>5, <1>10, <4>1 DEF WaitInv
      <3>3. QED
        BY <3>1, <3>2
    <2>3. QED
      BY <1>2, <2>1, <2>2 DEF WaitInv, Waits
  <1>12. IInv'
    BY <1>5, SendKeeps
  <1>13. QED
    BY <1>2, <1>11, <1>12, QuietKeeps

\* The awaited record lands (LandAwaited).
LEMMA LandAwaitedOrders ==
    ASSUME OInv, NEW c \in Clients, LandAwaited(c)
    PROVE  OInv'
  <1>0. PICK entry : entry = client[c].entry
    OBVIOUS
  <1>1. /\ late' = late /\ applied' = applied /\ replica' = replica /\ Land(entry)
        /\ client' = [client EXCEPT ![c] = [client[c] EXCEPT !.landed = TRUE]]
        /\ Open(c)
    BY <1>0 DEF LandAwaited, Consumer, Open, Awaited
  <1>2. IInv /\ TypeInv /\ LogInv /\ WaitInv /\ ReplicaInv
    BY DEF OInv, IInv
  <1>3. IInv'
    BY <1>2, LandAwaitedKeeps
  <1>4. EntryInv(entry) /\ entry.client = c /\ IsClient(client[c])
    BY <1>0, <1>1, <1>2 DEF IInv, ClientInv, Awaited, Open
  <1>5. Waits(entry) /\ \A f \in late : ~Same(entry, f)
    BY <1>0, <1>1, <1>2 DEF WaitInv
  <1>6. LogInv'
    BY <1>1, <1>2, <1>4, <1>5, LogGrows
  <1>7. /\ Logged' = Logged \cup {entry}
        /\ \A q \in Queues : \A i \in DOMAIN log[q] : log'[q][i] = log[q][i]
    BY <1>1, <1>2, <1>4, LandFacts
  <1>8. /\ client'[c] = [client[c] EXCEPT !.landed = TRUE]
        /\ \A d \in Clients : d # c => client'[d] = client[d]
    BY <1>1, <1>2, OneChanges
  <1>9. client'[c].landed
    BY <1>4, <1>8 DEF IsClient, ClientFields
  <1>10. \A e : Waits(e) /\ ~Same(e, entry) => Waits(e)'
    BY <1>7, StillWaits
  <1>11. WaitInv'
    <2>1. \A e \in late : Waits(e)' /\ \A f \in late : Same(e, f) => e = f
      BY <1>2, <1>5, <1>10 DEF WaitInv, Same
    <2>2. ASSUME NEW d \in Clients, Open(d)', NEW x, x = client'[d].entry
          PROVE  Waits(x)' /\ \A f \in late : ~Same(x, f)
      <3>1. d # c
        BY <1>9, <2>2 DEF Open
      <3>2. x = client[d].entry /\ Open(d)
        BY <1>8, <2>2, <3>1 DEF Open, Awaited
      <3>3. x.client = d
        BY <1>2, <3>2 DEF IInv, ClientInv, Open, Awaited
      <3>4. ~Same(x, entry)
        BY <1>4, <3>1, <3>3 DEF Same
      <3>5. QED
        BY <1>2, <1>10, <3>2, <3>4 DEF WaitInv
    <2>3. QED
      BY <1>1, <2>1, <2>2 DEF WaitInv, Waits
  <1>12. ReplicaInv'
    BY <1>1, <1>2, <1>7, ReplicaStays
  <1>13. QED
    BY <1>3, <1>6, <1>11, <1>12 DEF OInv

\* A record lands late (LandLate), or never (Lose).
LEMMA LateOrders ==
    ASSUME OInv, NEW entry \in late, LandLate(entry) \/ Lose(entry)
    PROVE  OInv'
  <1>1. /\ late' = late \ {entry} /\ applied' = applied /\ replica' = replica
        /\ client' = client
        /\ Land(entry) \/ log' = log
    BY DEF LandLate, Lose, Consumer
  <1>2. IInv /\ TypeInv /\ EntriesInv /\ LogInv /\ WaitInv /\ ReplicaInv
    BY DEF OInv, IInv
  <1>3. IInv'
    BY <1>2, LateKeeps
  <1>4. EntryInv(entry) /\ Waits(entry)
    BY <1>2 DEF EntriesInv, WaitInv
  <1>5. /\ LogInv' /\ \A q \in Queues : \A i \in DOMAIN log[q] : log'[q][i] = log[q][i]
        /\ Logged' = Logged \/ Logged' = Logged \cup {entry}
    <2>1. CASE Land(entry)
      BY <1>2, <1>4, <2>1, LogGrows, LandFacts
    <2>2. CASE log' = log
      BY <1>2, <2>2, LogStays DEF Logged
    <2>3. QED
      BY <1>1, <2>1, <2>2
  <1>6. \A e : Waits(e) /\ ~Same(e, entry) => Waits(e)'
    BY <1>5, StillWaits
  <1>7. WaitInv'
    <2>1. \A e \in late' : Waits(e)' /\ \A f \in late' : Same(e, f) => e = f
      BY <1>1, <1>2, <1>6 DEF WaitInv, Same
    <2>2. ASSUME NEW d \in Clients, Open(d), NEW x, x = client[d].entry
          PROVE  Waits(x)' /\ \A f \in late' : ~Same(x, f)
      BY <1>1, <1>2, <1>6, <2>2 DEF WaitInv
    <2>3. ASSUME NEW d \in Clients, Open(d)'
          PROVE  Waits(client[d].entry)' /\ \A f \in late' : ~Same(client[d].entry, f)'
      <3>1. Open(d)
        BY <1>1, <2>3 DEF Open, Awaited
      <3>2. PICK x : x = client[d].entry
        OBVIOUS
      <3>3. Waits(x)' /\ \A f \in late' : ~Same(x, f)
        BY <2>2, <3>1, <3>2
      <3>4. QED
        BY <1>1, <3>2, <3>3 DEF Waits
    <2>4. QED
      BY <2>1, <2>3 DEF WaitInv
  <1>8. ReplicaInv'
    BY <1>1, <1>2, <1>5, ReplicaStays
  <1>9. QED
    BY <1>3, <1>5, <1>7, <1>8 DEF OInv

\* A request is over (Acknowledge, NoAcknowledgement, Cancel, Receive): its record has
\* landed, or goes on waiting with nobody to see it land.
LEMMA CloseOrders ==
    ASSUME OInv, NEW c \in Clients,
           Acknowledge(c) \/ NoAcknowledgement(c) \/ Cancel(c) \/ Receive(c)
    PROVE  OInv'
  <1>1. IInv /\ TypeInv /\ WaitInv /\ ClientInv(c)
    BY DEF OInv, IInv
  <1>2. IInv'
    BY <1>1, AcknowledgeKeeps, GiveUpKeeps, ReceiveKeeps
  <1>3. /\ log' = log /\ applied' = applied /\ replica' = replica
        /\ late' = late \/ (Open(c) /\ late' = late \cup {client[c].entry})
    BY DEF Acknowledge, NoAcknowledgement, Cancel, Receive, Broker, Consumer, Abandoned,
           Open, Awaited
  <1>4. PICK s : /\ client' = [client EXCEPT ![c] = s]
                 /\ s = Idle \/ \E status, code : s = Answered(client[c], status, code)
    BY DEF Acknowledge, NoAcknowledgement, Cancel, Receive
  <1>5. s.pc # "producing"
    <2>1. CASE s = Idle
      BY <2>1 DEF Idle
    <2>2. CASE \E status, code : s = Answered(client[c], status, code)
      BY <1>1, <2>2, Replies DEF ClientInv
    <2>3. QED
      BY <1>4, <2>1, <2>2
  <1>6. client'[c] = s /\ \A d \in Clients : d # c => client'[d] = client[d]
    BY <1>1, <1>4, OneChanges
  <1>7. \A e : Waits(e) => Waits(e)'
    <2>1. Logged' = Logged
      BY <1>3 DEF Logged
    <2>2. QED
      BY <2>1, StillWaits
  <1>8. WaitInv'
    <2>1. ASSUME NEW d \in Clients, Open(d)' PROVE d # c /\ Open(d) /\ client'[d] = client[d]
      BY <1>5, <1>6, <2>1 DEF Open, Awaited
    <2>2. \A e \in late' : Waits(e)' /\ \A f \in late' : Same(e, f) => e = f
      BY <1>1, <1>3, <1>7 DEF WaitInv, Same
    <2>3. ASSUME NEW d \in Clients, Open(d)', NEW x, x = client'[d].entry
          PROVE  Waits(x)' /\ \A f \in late' : ~Same(x, f)
      <3>1. x = client[d].entry /\ Open(d) /\ d # c
        BY <2>1, <2>3
      <3>2. Waits(x)' /\ \A f \in late : ~Same(x, f)
        BY <1>1, <1>7, <3>1 DEF WaitInv
      <3>3. Open(c) => ~Same(x, client[c].entry)
        BY <1>1, <3>1 DEF IInv, ClientInv, Open, Awaited, Same
      <3>4. QED
        BY <1>3, <3>2, <3>3
    <2>4. QED
      BY <2>2, <2>3 DEF WaitInv, Waits
  <1>9. QED
    BY <1>2, <1>3, <1>8, QuietKeeps

\* The consumer applies a record (Apply).
LEMMA ApplyOrders ==
    ASSUME OInv, NEW q \in Queues, Apply(q)
    PROVE  OInv'
  <1>1. /\ log' = log /\ late' = late /\ client' = client
        /\ applied' = [applied EXCEPT ![q] = @ + 1]
    BY DEF Apply, Broker
  <1>2. IInv /\ TypeInv /\ LogInv /\ WaitInv /\ ReplicaInv
    BY DEF OInv, IInv
  <1>3. IInv' /\ LogInv'
    BY <1>1, <1>2, ApplyKeeps, LogStays
  <1>4. WaitInv'
    <2>1. Logged' = Logged
      BY <1>1 DEF Logged
    <2>2. QED
      BY <1>1, <1>2, <2>1 DEF WaitInv, Waits, Produced, Open, Awaited
  <1>5. applied \in [Queues -> Nat]
    BY <1>2 DEF TypeInv
  <1>6. /\ applied'[q] = applied[q] + 1
        /\ \A p \in Queues : applied[p] \in Nat /\ 1..applied[p] \subseteq 1..applied'[p]
    BY <1>1, <1>5
  <1>7. ASSUME NEW x \in replica'
        PROVE  \E p \in Queues : \E i \in 1..applied'[p] :
                   x.entry = log[p][i] /\ x.place \in Places(x.entry.record)
    <2>1. CASE x \in replica
      BY <1>2, <1>6, <2>1 DEF ReplicaInv
    <2>2. CASE x \notin replica
      <3>1. x.entry = log[q][applied[q] + 1] /\ x.place \in Places(x.entry.record)
        BY <1>7, <2>2 DEF Apply
      <3>2. applied[q] + 1 \in 1..applied'[q]
        BY <1>6
      <3>3. QED
        BY <3>1, <3>2
    <2>3. QED
      BY <2>1, <2>2
  <1>8. ReplicaInv'
    BY <1>1, <1>7 DEF ReplicaInv
  <1>9. QED
    BY <1>3, <1>4, <1>8 DEF OInv

\* Every step keeps the order.
LEMMA OrderInductive == OInv /\ [Next]_vars => OInv'
  <1> SUFFICES ASSUME OInv, [Next]_vars PROVE OInv'
    OBVIOUS
  <1>1. CASE \E c \in Clients : \E req \in Requests[cfg] : Send(c, req)
    BY <1>1, SendOrders
  <1>2. CASE \E c \in Clients : LandAwaited(c)
    BY <1>2, LandAwaitedOrders
  <1>3. CASE \E c \in Clients :
               Acknowledge(c) \/ NoAcknowledgement(c) \/ Cancel(c) \/ Receive(c)
    BY <1>3, CloseOrders
  <1>4. CASE \E entry \in late : LandLate(entry) \/ Lose(entry)
    BY <1>4, LateOrders
  <1>5. CASE \E q \in Queues : Apply(q)
    BY <1>5, ApplyOrders
  <1>6. CASE UNCHANGED vars
    <2>1. IInv'
      BY <1>6, Inductive DEF OInv
    <2>2. log' = log /\ applied' = applied /\ replica' = replica /\ late' = late /\ client' = client
      BY <1>6 DEF vars
    <2>3. WaitInv'
      BY <2>2 DEF OInv, WaitInv, Waits, Logged, Produced, Open, Awaited
    <2>4. QED
      BY <2>1, <2>2, <2>3, QuietKeeps
  <1>7. QED
    BY <1>1, <1>2, <1>3, <1>4, <1>5, <1>6 DEF Next

\* The order and what it rests on hold throughout.
LEMMA OrderAlways == Spec => []OInv
  BY OrderStarts, OrderInductive, PTL DEF Spec

\* A record is a bulk's if its request is one, and is spelled as the client spells it if
\* the request is passed through (CaptureActions).
LEMMA FormTold ==
    ASSUME NEW c \in Configs, NEW req \in Requests[c], IsWriteRequest(req),
           Handle(c, req).to # "local"
    PROVE  LET line == RecordOf(c, req).line
           IN  /\ line.verb = IF CtxOf(RewriteForPath(c, req)).kind = "ingest_bulk"
                             THEN "_bulk" ELSE "_doc"
               /\ Form(c, req) = <<line.verb, line.spelling>>
  <1> DEFINE rewritten == RewriteForPath(c, req)
             ctx == CtxOf(rewritten)
             v == Handle(c, req)
  <1>1. \/ Bypasses(c, ctx) /\ v.to = "continue"
        \/ ~Bypasses(c, ctx) /\ v.to = "upstream"
    BY WriteFacts
  <1>2. Form(c, req) = <<IF ctx.kind = "ingest_bulk" THEN "_bulk" ELSE "_doc",
                         IF Bypasses(c, ctx) THEN Spelling(rewritten) ELSE None>>
    BY DEF Form
  <1>3. CASE Bypasses(c, ctx)
    <2>1. RecordOf(c, req).line = RawLine(rewritten)
      BY <1>1, <1>3 DEF RecordOf, Capture
    <2>2. /\ RawLine(rewritten).verb = IF ctx.kind = "ingest_bulk" THEN "_bulk" ELSE "_doc"
          /\ RawLine(rewritten).spelling = Spelling(rewritten)
      BY DEF RawLine, Line
    <2> HIDE DEF ctx, rewritten
    <2>3. QED
      BY <1>2, <1>3, <2>1, <2>2 DEF ctx, rewritten
  <1>4. CASE ~Bypasses(c, ctx)
    <2>1. RecordOf(c, req).line = ForwardLine(ctx.kind, v.ops)
      BY <1>1, <1>4 DEF RecordOf, Capture
    <2>2. /\ ForwardLine(ctx.kind, v.ops).verb =
                 IF ctx.kind = "ingest_bulk" THEN "_bulk" ELSE "_doc"
          /\ ForwardLine(ctx.kind, v.ops).spelling = None
      BY DEF ForwardLine, Line
    <2>3. QED
      BY <1>2, <1>4, <2>1, <2>2
  <1>5. QED
    BY <1>3, <1>4

\* Of two writes of one form both records are bulks' or neither is, and both are spelled
\* alike; and the other way round.
LEMMA FormsTold ==
    ASSUME NEW c \in Configs, NEW req \in Requests[c], IsWriteRequest(req),
           Handle(c, req).to # "local", NEW req2 \in Requests[c], IsWriteRequest(req2),
           Handle(c, req2).to # "local"
    PROVE  LET line == RecordOf(c, req).line
               line2 == RecordOf(c, req2).line
           IN  Form(c, req) = Form(c, req2)
                   <=> line.verb = line2.verb /\ line.spelling = line2.spelling
  <1> DEFINE line == RecordOf(c, req).line
             line2 == RecordOf(c, req2).line
  <1>1. /\ Form(c, req) = <<line.verb, line.spelling>>
        /\ Form(c, req2) = <<line2.verb, line2.spelling>>
    BY FormTold
  <1> HIDE DEF line, line2
  <1>2. QED
    BY <1>1 DEF line, line2

\* The record of anything but a bulk has one place, which its line names (ForwardLine,
\* RawLine, Bridge::record).
LEMMA OnePlace ==
    ASSUME NEW c \in Configs, NEW req \in Requests[c], IsWriteRequest(req),
           Handle(c, req).to # "local",
           NEW record, record = RecordOf(c, req), record.line.verb = "_doc",
           NEW place \in Places(record)
    PROVE  /\ Key(record) \in Lines /\ Key(record) = record.line
           /\ place = <<record.line.index, record.line.id, record.line.routing>>
  <1>1. record.line \in Lines
    BY LineTyped
  <1>3. PICK doc, op : Interpret(record) = <<Op(op, record.line.index, record.line.id,
                                                record.line.routing, doc, None)>>
    BY DEF Interpret
  <1>4. place = <<record.line.index, record.line.id, record.line.routing>>
    BY <1>3 DEF Places, Place, Op
  <1>5. QED
    BY <1>1, <1>4 DEF Key

\* The records of all bulks that write anything have the same key.
LEMMA BulkKey ==
    ASSUME NEW c \in Configs, NEW req \in Requests[c], IsWriteRequest(req),
           Handle(c, req).to # "local",
           NEW record, record = RecordOf(c, req), record.line.verb = "_bulk",
           Places(record) # {}
    PROVE  Key(record) = Line("_bulk", "", None, None, None)
  <1> DEFINE ctx == CtxOf(RewriteForPath(c, req))
             v == Handle(c, req)
  <1>1. v.to \in {"continue", "upstream"}
    BY WriteFacts
  <1>2. ctx.kind = "ingest_bulk"
    BY FormTold
  <1>3. v.to # "continue"
    <2> SUFFICES ASSUME v.to = "continue" PROVE FALSE
      OBVIOUS
    <2>1. record.payload = <<>>
      BY DEF RecordOf, Capture
    <2>2. Interpret(record) = <<>>
      BY <2>1 DEF Interpret
    <2>3. QED
      BY <2>2 DEF Places
  <1>4. record.line = ForwardLine(ctx.kind, v.ops)
    BY <1>3 DEF RecordOf, Capture
  <1> HIDE DEF ctx, v
  <1>5. QED
    BY <1>2, <1>4 DEF ForwardLine, Key

\* Two lines with the same fields are one.
LEMMA SameFields ==
    ASSUME NEW k \in Lines, NEW m \in Lines, k.verb = m.verb, k.index = m.index,
           k.id = m.id, k.routing = m.routing, k.spelling = m.spelling
    PROVE  k = m
  <1>1. ASSUME NEW A, NEW B, NEW C, NEW D, NEW E,
               NEW i \in [verb : A, index : B, id : C, routing : D, spelling : E],
               NEW j \in [verb : A, index : B, id : C, routing : D, spelling : E],
               i.verb = j.verb, i.index = j.index, i.id = j.id, i.routing = j.routing,
               i.spelling = j.spelling
        PROVE  i = j
    BY <1>1
  <1>2. QED
    BY <1>1 DEF Lines

\* Two records of one form with a place in common go to the same queue.
LEMMA OneQueue ==
    ASSUME NEW c \in Configs, NEW req \in Requests[c], NEW req2 \in Requests[c],
           IsWriteRequest(req), Handle(c, req).to # "local",
           IsWriteRequest(req2), Handle(c, req2).to # "local",
           NEW x, x = RecordOf(c, req), NEW y, y = RecordOf(c, req2),
           x.line.verb = y.line.verb, x.line.spelling = y.line.spelling,
           NEW place, place \in Places(x), place \in Places(y)
    PROVE  QueueOf(Key(x)) = QueueOf(Key(y))
  <1>1. CASE x.line.verb = "_bulk"
    <2>1. /\ Key(x) = Line("_bulk", "", None, None, None)
          /\ Key(y) = Line("_bulk", "", None, None, None)
      BY <1>1, BulkKey
    <2>2. QED
      BY <2>1
  <1>2. CASE x.line.verb = "_doc"
    <2>1. /\ Key(x) \in Lines /\ Key(x) = x.line
          /\ place = <<x.line.index, x.line.id, x.line.routing>>
      BY <1>2, OnePlace
    <2>2. /\ Key(y) \in Lines /\ Key(y) = y.line
          /\ place = <<y.line.index, y.line.id, y.line.routing>>
      BY <1>2, OnePlace
    <2>3. x.line.index = y.line.index /\ x.line.id = y.line.id /\ x.line.routing = y.line.routing
      BY <2>1, <2>2
    <2>4. x.line = y.line
      BY <2>1, <2>2, <2>3, SameFields
    <2>5. QED
      BY <2>1, <2>2, <2>4
  <1>3. x.line.verb \in {"_doc", "_bulk"}
    BY FormTold
  <1>4. QED
    BY <1>1, <1>2, <1>3

\* A logged write stands behind what its client had been told was accepted, in the same
\* queue, if they are of one form and have a place in common.
LEMMA Preceded ==
    ASSUME IInv, LogInv, NEW q \in Queues, NEW i \in DOMAIN log[q], NEW later, later = log[q][i],
           NEW p \in Queues, NEW j \in DOMAIN log[p], NEW earlier, earlier = log[p][j],
           earlier.client = later.client, earlier.n \in later.after, SameForm(earlier, later),
           NEW place, place \in Places(earlier.record), place \in Places(later.record)
    PROVE  p = q /\ j < i
  <1>1. earlier \in Logged /\ later \in Logged
    BY LoggedAt
  <1>2. EntryInv(earlier) /\ EntryInv(later) /\ cfg \in Configs
    BY <1>1 DEF IInv, EntriesInv, TypeInv
  <1>4. Goes(earlier) = Goes(later)
    BY <1>2, OneQueue DEF EntryInv, SameForm, Goes
  <1>5. p = q
    BY <1>4 DEF LogInv
  <1>6. PICK r \in Queues : \E k \in DOMAIN log[r] :
            log[r][k].client = later.client /\ log[r][k].n = earlier.n /\ (r = q => k < i)
    BY DEF LogInv, Behind
  <1> PICK k \in DOMAIN log[r] :
          log[r][k].client = later.client /\ log[r][k].n = earlier.n /\ (r = q => k < i)
    BY <1>6
  <1>7. Same(log[r][k], log[p][j])
    BY DEF Same
  <1>8. r = p /\ k = j
    BY <1>7 DEF LogInv
  <1>9. QED
    BY <1>5, <1>6, <1>8

\* The step that applies a record applies the next of its queue.
LEMMA AppliesNext ==
    ASSUME OInv, [Next]_vars, NEW q \in Queues, applied'[q] # applied[q]
    PROVE  Apply(q)
  <1>1. applied' = applied => FALSE
    OBVIOUS
  <1>2. PICK p \in Queues : Apply(p)
    BY <1>1 DEF Next, vars, Send, LandAwaited, Acknowledge, NoAcknowledgement,
                Cancel, Receive, LandLate, Lose, Consumer
  <1>3. p = q
    <2>1. applied \in [Queues -> Nat] /\ applied' = [applied EXCEPT ![p] = @ + 1]
      BY <1>2 DEF OInv, IInv, TypeInv, Apply
    <2>2. QED
      BY <2>1
  <1>4. QED
    BY <1>2, <1>3

\* What is applied next is in its queue and was not applied.
LEMMA NextIsLogged ==
    ASSUME OInv, NEW q \in Queues, Apply(q)
    PROVE  /\ applied'[q] = applied[q] + 1 /\ applied'[q] \in DOMAIN log[q]
           /\ \A p \in Queues : applied[p] \in Nat /\ 1..applied[p] \subseteq DOMAIN log[p]
           /\ \A p \in Queues : p # q => applied'[p] = applied[p]
           /\ log[q][applied'[q]] \in Logged
  <1>1. TypeInv
    BY DEF OInv, IInv
  <1>2. /\ applied[q] \in Nat /\ applied'[q] = applied[q] + 1 /\ applied[q] < Len(log[q])
        /\ \A p \in Queues : applied[p] \in Nat /\ applied[p] <= Len(log[p])
        /\ \A p \in Queues : DOMAIN log[p] = 1..Len(log[p]) /\ Len(log[p]) \in Nat
        /\ \A p \in Queues : p # q => applied'[p] = applied[p]
    BY <1>1, AppendFacts DEF TypeInv, Apply
  <1>3. applied'[q] \in DOMAIN log[q]
    BY <1>2
  <1>4. \A p \in Queues : 1..applied[p] \subseteq DOMAIN log[p]
    BY <1>2
  <1>5. QED
    BY <1>2, <1>3, <1>4, LoggedAt

\* Per-document order: the consumer never applies a write over a later one of the same
\* client that was sent after this one had been accepted, bulks over bulks, single
\* documents over single documents, and past the tenancy what has the same path and query
\* (a bulk's record is keyed by its own path, a document's by the document's, and what is
\* passed through by the path its client wrote).
THEOREM OrderHeld == Spec => OrderKept
  <1> DEFINE Never == \A q \in Queues : applied'[q] # applied[q] =>
                          \A x \in replica :
                              x.place \in Places(log[q][applied'[q]].record)
                                /\ SameForm(x.entry, log[q][applied'[q]])
                                  => ~Undone(x, log[q][applied'[q]])
  <1>1. ASSUME OInv, NEW q \in Queues, Apply(q), NEW entry, entry = log[q][applied'[q]],
               NEW x \in replica, x.place \in Places(entry.record), SameForm(x.entry, entry),
               Undone(x, entry)
        PROVE  FALSE
    <2>1. IInv /\ LogInv /\ ReplicaInv
      BY <1>1 DEF OInv
    <2>2. /\ applied'[q] = applied[q] + 1 /\ applied'[q] \in DOMAIN log[q]
          /\ \A p \in Queues : applied[p] \in Nat /\ 1..applied[p] \subseteq DOMAIN log[p]
      BY <1>1, NextIsLogged
    <2>3. PICK p \in Queues : \E i \in 1..applied[p] :
              x.entry = log[p][i] /\ x.place \in Places(x.entry.record)
      BY <2>1 DEF ReplicaInv
    <2> PICK i \in 1..applied[p] : x.entry = log[p][i] /\ x.place \in Places(x.entry.record)
      BY <2>3
    <2>4. i \in DOMAIN log[p]
      BY <2>2
    <2>5. /\ entry.client = x.entry.client /\ entry.n \in x.entry.after
          /\ SameForm(entry, x.entry)
      BY <1>1 DEF Undone, SameForm
    <2>6. ASSUME NEW k \in DOMAIN log[q], entry = log[q][k]
          PROVE  q = p /\ k < i
      <3>1. x.place \in Places(entry.record) /\ x.place \in Places(x.entry.record)
        BY <1>1, <2>3
      <3>2. QED
        BY <2>1, <2>3, <2>4, <2>5, <2>6, <3>1, Preceded
    <2>7. q = p /\ applied'[q] < i
      BY <1>1, <2>2, <2>6
    <2>8. QED
      BY <2>2, <2>7
  <1>2. OInv /\ [Next]_vars => Never
    BY <1>1, AppliesNext
  <1>3. OInv /\ [Next]_vars => [\A q \in Queues : applied'[q] # applied[q] =>
          LET entry == log[q][applied'[q]]
          IN  \A x \in replica :
                 x.place \in Places(entry.record) /\ SameForm(x.entry, entry)
                     => ~Undone(x, entry)]_vars
    BY <1>2
  <1>4. QED
    BY <1>3, OrderAlways, PTL DEF Spec, OrderKept

\* A 202 promises the write itself: where nobody writes to an index the tenancy leaves
\* alone, the record of every write that was accepted carries what the client sent.
THEOREM RecordsCarry ==
    ASSUME NoWriteBypasses
    PROVE  Spec => []AcceptedCarriesTheWrite
  <1>1. IInv => AcceptedCarriesTheWrite
    <2> SUFFICES ASSUME IInv, NEW e \in Logged, e.req.body \notin {None, <<>>}
                 PROVE  e.record.payload # <<>>
      BY DEF AcceptedCarriesTheWrite
    <2>1. EntryInv(e) /\ cfg \in Configs
      BY DEF IInv, TypeInv, EntriesInv
    <2>2. ~Bypasses(cfg, CtxOf(RewriteForPath(cfg, e.req)))
      BY <2>1 DEF EntryInv, NoWriteBypasses, Governed
    <2>3. QED
      BY <2>1, <2>2, RecordCarries DEF EntryInv
  <1>2. QED
    BY <1>1, Always, PTL

-----------------------------------------------------------------------------
(***************************************************************************)
(* The promise.  Each step of AsyncWrite is one of PromisedWrites or none: *)
(* an entry, wherever it is, stands for one write, and no two entries for  *)
(* the same one; and the places of its record are those of the request.    *)
(***************************************************************************)

\* A record is to the places the request itself is to (CaptureActions).
LEMMA PlacesTold ==
    ASSUME NEW c \in Configs, NEW req \in Requests[c], IsWriteRequest(req),
           Handle(c, req).to # "local"
    PROVE  Places(RecordOf(c, req)) = Touches(c, req)
  <1>0. PICK rewritten, ctx, record : /\ rewritten = RewriteForPath(c, req)
                                      /\ ctx = CtxOf(rewritten) /\ record = RecordOf(c, req)
    OBVIOUS
  <1>1. CASE ~Bypasses(c, ctx)
    <2>1. Interpret(record) = Plan(c, req).ops
      BY <1>0, <1>1, RecordSays
    <2>2. QED
      BY <1>0, <1>1, <2>1 DEF Places, Touches
  <1>2. CASE Bypasses(c, ctx)
    <2>1. Handle(c, req).to = "continue"
      BY <1>0, <1>2, WriteFacts
    <2>2. record = [line |-> RawLine(rewritten), payload |-> <<>>]
      BY <1>0, <2>1 DEF RecordOf, Capture
    <2>3. Touches(c, req) = {<<ctx.index, id, None>> :
              id \in IF ctx.kind = "ingest_bulk" THEN {} ELSE {ctx.docId} \ {None}}
      BY <1>0, <1>2 DEF Touches
    <2>4. CASE ctx.kind = "ingest_bulk"
      <3>1. Interpret(record) = <<>>
        BY <1>0, <2>2, <2>4 DEF RawLine, Line, Interpret
      <3>2. Places(record) = {}
        BY <3>1 DEF Places
      <3>3. Touches(c, req) = {}
        BY <2>3, <2>4
      <3>4. QED
        BY <1>0, <3>2, <3>3
    <2>5. CASE ctx.kind # "ingest_bulk"
      <3>1. record.line = Line("_doc", ctx.index, ctx.docId, None, Spelling(rewritten))
        BY <1>0, <2>2, <2>5 DEF RawLine
      <3>2. Interpret(record) = <<Op("delete", ctx.index, ctx.docId, None, None, None)>>
        BY <2>2, <3>1 DEF Interpret, Line
      <3>3. PICK op : op = Op("delete", ctx.index, ctx.docId, None, None, None)
        OBVIOUS
      <3>4. op.id = ctx.docId /\ Place(op) = <<ctx.index, ctx.docId, None>>
        BY <3>3 DEF Op, Place
      <3>5. DOMAIN Interpret(record) = {1} /\ Interpret(record)[1] = op
        BY <3>2, <3>3
      <3>6. Places(record) = {Place(op) : i \in {j \in {1} : op.id # None}}
        BY <3>5 DEF Places
      <3>7. QED
        BY <1>0, <2>3, <2>5, <3>4, <3>6
    <2>6. QED
      BY <2>4, <2>5
  <1>3. QED
    BY <1>1, <1>2

\* Entries that stand for one write are of one client and one number.
LEMMA WritesDiffer == ASSUME NEW e, NEW f, WriteOf(e) = WriteOf(f) PROVE Same(e, f)
  <1>1. WriteOf(e).client = e.client /\ WriteOf(e).n = e.n
    BY DEF WriteOf
  <1>2. WriteOf(f).client = f.client /\ WriteOf(f).n = f.n
    BY DEF WriteOf
  <1>3. QED
    BY <1>1, <1>2 DEF Same

\* The writes of one entry more.
LEMMA WritesAdd ==
    ASSUME NEW S, NEW e
    PROVE  WritesOf(S \cup {e}) = WritesOf(S) \cup {WriteOf(e)}
  BY DEF WritesOf

\* The writes of one entry less.
LEMMA WritesDrop ==
    ASSUME NEW S, NEW e \in S, \A f, g \in S : Same(f, g) => f = g
    PROVE  WritesOf(S \ {e}) = WritesOf(S) \ {WriteOf(e)}
  BY WritesDiffer DEF WritesOf

\* A primed set of writes is the set of the primed entries.
LEMMA WritesPrimed ==
    /\ WritesOf(InFlight)' = WritesOf(InFlight')
    /\ WritesOf(Logged)'   = WritesOf(Logged')
    /\ WritesOf(Consumed)' = WritesOf(Consumed')
  BY DEF WritesOf

\* An entry in flight is one nobody waits for any more, or one that somebody does.
LEMMA Flying ==
    ASSUME NEW e
    PROVE  /\ e \in InFlight <=> e \in late \/ \E d \in Clients : Open(d) /\ e = client[d].entry
           /\ e \in InFlight' <=>
                  e \in late' \/ \E d \in Clients : Open(d)' /\ e = client'[d].entry
  BY DEF InFlight

\* A write has one entry, in flight or in the log.
LEMMA OneEntry ==
    ASSUME OInv
    PROVE  /\ \A e, f \in InFlight : Same(e, f) => e = f
           /\ \A e \in InFlight : \A f \in Logged : ~Same(e, f)
           /\ \A e, f \in Logged : Same(e, f) => e = f
           /\ \A d \in Clients : Open(d) => client[d].entry.client = d
           /\ \A d \in Clients : Open(d) => client[d].entry \notin late
  <1>1. IInv /\ LogInv /\ WaitInv
    BY DEF OInv
  <1>2. \A d \in Clients : Open(d) => client[d].entry.client = d
    BY <1>1 DEF IInv, ClientInv, Open, Awaited
  <1>3. ASSUME NEW e \in InFlight, NEW f \in Logged PROVE ~Same(e, f)
    BY <1>1, <1>3, Flying DEF WaitInv, Waits
  <1>4. ASSUME NEW e \in InFlight, NEW f \in InFlight, Same(e, f) PROVE e = f
    <2>1. CASE e \in late /\ f \in late
      BY <1>1, <1>4, <2>1 DEF WaitInv
    <2>2. CASE e \in late /\ f \notin late
      <3>1. PICK d \in Clients : Open(d) /\ f = client[d].entry
        BY <2>2, Flying
      <3>2. ~Same(f, e)
        BY <1>1, <2>2, <3>1 DEF WaitInv
      <3>3. QED
        BY <1>4, <3>2 DEF Same
    <2>3. CASE e \notin late /\ f \in late
      <3>1. PICK d \in Clients : Open(d) /\ e = client[d].entry
        BY <2>3, Flying
      <3>2. QED
        BY <1>1, <1>4, <2>3, <3>1 DEF WaitInv
    <2>4. CASE e \notin late /\ f \notin late
      <3>1. PICK d \in Clients : Open(d) /\ e = client[d].entry
        BY <2>4, Flying
      <3>2. PICK b \in Clients : Open(b) /\ f = client[b].entry
        BY <2>4, Flying
      <3>3. d = b
        BY <1>2, <1>4, <3>1, <3>2 DEF Same
      <3>4. QED
        BY <3>1, <3>2, <3>3
    <2>5. QED
      BY <2>1, <2>2, <2>3, <2>4
  <1>5. ASSUME NEW e \in Logged, NEW f \in Logged, Same(e, f) PROVE e = f
    <2>1. PICK p \in Queues : \E i \in DOMAIN log[p] : log[p][i] = e
      BY LoggedAt
    <2>2. PICK q \in Queues : \E j \in DOMAIN log[q] : log[q][j] = f
      BY LoggedAt
    <2>3. QED
      BY <1>1, <1>5, <2>1, <2>2 DEF LogInv
  <1>6. \A d \in Clients : Open(d) => client[d].entry \notin late
    BY <1>1 DEF WaitInv, Same
  <1>7. QED
    BY <1>2, <1>3, <1>4, <1>5, <1>6

\* What was consumed stays so while the logs only grow.
LEMMA ConsumedStays ==
    ASSUME OInv, applied' = applied,
           \A q \in Queues : \A i \in DOMAIN log[q] : log'[q][i] = log[q][i]
    PROVE  Consumed' = Consumed
  <1>1. TypeInv
    BY DEF OInv, IInv
  <1>2. \A q \in Queues : 1..applied[q] \subseteq DOMAIN log[q]
    <2>1. /\ \A q \in Queues : applied[q] \in Nat /\ applied[q] <= Len(log[q])
          /\ \A q \in Queues : DOMAIN log[q] = 1..Len(log[q]) /\ Len(log[q]) \in Nat
      BY <1>1, AppendFacts DEF TypeInv
    <2>2. QED
      BY <2>1
  <1>3. \A q \in Queues : {log'[q][i] : i \in 1..applied'[q]} = {log[q][i] : i \in 1..applied[q]}
    BY <1>2
  <1>4. QED
    BY <1>3 DEF Consumed

\* A request is taken, or refused (Filter::async_write up to the produce).
LEMMA SendMaps ==
    ASSUME OInv, NEW c \in Clients, NEW req \in Requests[cfg], Send(c, req)
    PROVE  Promise!Send(c, req)
  <1> DEFINE taken == Take(cfg, sink, req)
  <1>0. PICK entry : entry = Entry(c, sent[c] + 1, req,
                                   IF taken.to = "sink" THEN taken.record ELSE None)
    OBVIOUS
  <1> DEFINE opened == [Idle EXCEPT !.entry = entry]
  <1>1. PICK s : s = IF taken.to = "sink" THEN [opened EXCEPT !.pc = "producing"]
                     ELSE Answered(opened, taken.status, taken.code)
    OBVIOUS
  <1>2. /\ UNCHANGED <<cfg, sink, accepted, log, late, applied, replica>>
        /\ client[c].pc = "idle" /\ sent' = [sent EXCEPT ![c] = @ + 1]
        /\ client' = [client EXCEPT ![c] = s]
    BY <1>0, <1>1 DEF Send, Broker, Consumer
  <1>3. TypeInv /\ sink \in BOOLEAN
    BY DEF OInv, IInv, TypeInv
  <1>4. taken.to = "sink" <=> LetsGo(cfg, sink, req)
    BY <1>3 DEF Take, LetsGo, Immediate
  <1>5. /\ s.entry = entry /\ s.landed = FALSE
        /\ s.pc = IF taken.to = "sink" THEN "producing" ELSE "answered"
    <2> HIDE DEF taken
    <2> QED
      BY <1>1 DEF Idle, Answered
  <1>6. WriteOf(entry) = [client |-> c, n |-> sent[c] + 1, req |-> req, after |-> accepted[c]]
    BY <1>0 DEF Entry, WriteOf
  <1> HIDE DEF taken, opened
  <1>7. /\ client'[c] = s /\ \A d \in Clients : d # c => client'[d] = client[d]
        /\ ~Open(c)
    BY <1>2, <1>3, OneChanges DEF Open, Awaited
  <1>8. \A d \in Clients : d # c => Open(d)' = Open(d)
    BY <1>7 DEF Open, Awaited
  <1>9. Open(c)' <=> taken.to = "sink"
    BY <1>5, <1>7 DEF Open, Awaited
  <1>10. InFlight' = IF taken.to = "sink" THEN InFlight \cup {entry} ELSE InFlight
    <2>1. ASSUME NEW e
          PROVE  e \in InFlight' <=> e \in InFlight \/ (taken.to = "sink" /\ e = entry)
      BY <1>2, <1>5, <1>7, <1>8, <1>9, Flying
    <2>2. CASE taken.to = "sink"
      BY <2>1, <2>2
    <2>3. CASE taken.to # "sink"
      BY <2>1, <2>3
    <2>4. QED
      BY <2>2, <2>3
  <1>11. WritesOf(InFlight)' =
           IF LetsGo(cfg, sink, req) THEN WritesOf(InFlight) \cup {WriteOf(entry)}
           ELSE WritesOf(InFlight)
    <2>1. CASE taken.to = "sink"
      BY <1>4, <1>10, <2>1, WritesAdd, WritesPrimed
    <2>2. CASE taken.to # "sink"
      BY <1>4, <1>10, <2>2, WritesPrimed
    <2>3. QED
      BY <2>1, <2>2
  <1>12. Logged' = Logged /\ Consumed' = Consumed
    BY <1>2 DEF Logged, Consumed
  <1>13. WritesOf(Logged)' = WritesOf(Logged) /\ WritesOf(Consumed)' = WritesOf(Consumed)
    BY <1>12, WritesPrimed
  <1>14. QED
    BY <1>2, <1>6, <1>11, <1>13 DEF Promise!Send, WriteOf

\* Something in flight lands, or is lost (the broker appending a record).
LEMMA LeavesFlight ==
    ASSUME OInv, NEW entry \in InFlight, InFlight' = InFlight \ {entry},
           cfg' = cfg, sink' = sink, sent' = sent, accepted' = accepted,
           applied' = applied, replica' = replica, Land(entry) \/ log' = log
    PROVE  IF Land(entry) THEN Promise!Store(WriteOf(entry)) ELSE Promise!Lose(WriteOf(entry))
  <1>1. IInv /\ TypeInv /\ EntryInv(entry)
    BY Flying DEF OInv, IInv, EntriesInv, ClientInv, Open, Awaited
  <1>2. WriteOf(entry) \in WritesOf(InFlight)
    BY DEF WritesOf
  <1>3. WritesOf(InFlight)' = WritesOf(InFlight) \ {WriteOf(entry)}
    BY OneEntry, WritesDrop, WritesPrimed
  <1>4. CASE Land(entry)
    <2>1. /\ Logged' = Logged \cup {entry}
          /\ \A q \in Queues : \A i \in DOMAIN log[q] : log'[q][i] = log[q][i]
      BY <1>1, <1>4, LandFacts
    <2>2. WritesOf(Logged)' = WritesOf(Logged) \cup {WriteOf(entry)}
      BY <2>1, WritesAdd, WritesPrimed
    <2>3. WritesOf(Consumed)' = WritesOf(Consumed)
      BY <2>1, ConsumedStays, WritesPrimed
    <2>4. Promise!Store(WriteOf(entry))
      BY <1>2, <1>3, <2>2, <2>3 DEF Promise!Store, WriteOf
    <2>5. QED
      BY <1>4, <2>4
  <1>5. CASE ~Land(entry)
    <2>1. log' = log
      BY <1>5
    <2>2. Logged' = Logged /\ Consumed' = Consumed
      BY <2>1 DEF Logged, Consumed
    <2>3. WritesOf(Logged)' = WritesOf(Logged) /\ WritesOf(Consumed)' = WritesOf(Consumed)
      BY <2>2, WritesPrimed
    <2>4. Promise!Lose(WriteOf(entry))
      BY <1>2, <1>3, <2>3 DEF Promise!Lose, WriteOf
    <2>5. QED
      BY <1>5, <2>4
  <1>6. QED
    BY <1>4, <1>5

\* The awaited record lands (LandAwaited).
LEMMA LandAwaitedMaps ==
    ASSUME OInv, NEW c \in Clients, LandAwaited(c)
    PROVE  Promise!Next
  <1>0. PICK entry : entry = client[c].entry
    OBVIOUS
  <1>1. /\ UNCHANGED <<cfg, sink, sent, accepted, late, applied, replica>> /\ Land(entry)
        /\ client' = [client EXCEPT ![c] = [client[c] EXCEPT !.landed = TRUE]]
        /\ Open(c)
    BY <1>0 DEF LandAwaited, Consumer, Open, Awaited
  <1>2. TypeInv /\ IsClient(client[c])
    BY DEF OInv, IInv, ClientInv
  <1>3. /\ client'[c] = [client[c] EXCEPT !.landed = TRUE]
        /\ \A d \in Clients : d # c => client'[d] = client[d]
    BY <1>1, <1>2, OneChanges
  <1>4. client'[c].landed
    BY <1>2, <1>3 DEF IsClient, ClientFields
  <1>5. ~Open(c)' /\ \A d \in Clients : d # c => Open(d)' = Open(d)
    BY <1>3, <1>4 DEF Open, Awaited
  <1>6. entry \in InFlight
    BY <1>0, <1>1, Flying
  <1>7. entry \notin late /\ \A d \in Clients : d # c /\ Open(d) => client[d].entry # entry
    BY <1>0, <1>1, OneEntry
  <1>8. InFlight' = InFlight \ {entry}
    <2>1. ASSUME NEW e PROVE e \in InFlight' <=> e \in InFlight /\ e # entry
      BY <1>0, <1>1, <1>3, <1>5, <1>7, Flying
    <2>2. QED
      BY <2>1
  <1>9. Promise!Store(WriteOf(entry))
    BY <1>1, <1>6, <1>8, LeavesFlight
  <1>10. QED
    BY <1>9 DEF Promise!Next, Promise!Store

\* A record lands late (LandLate), or never (Lose).
LEMMA LateMaps ==
    ASSUME OInv, NEW entry \in late, LandLate(entry) \/ Lose(entry)
    PROVE  Promise!Next
  <1>1. /\ UNCHANGED <<cfg, sink, client, sent, accepted, applied, replica>>
        /\ late' = late \ {entry} /\ (Land(entry) \/ log' = log)
    BY DEF LandLate, Lose, Consumer
  <1>2. entry \in InFlight
    BY Flying
  <1>3. \A d \in Clients : Open(d)' = Open(d)
    BY <1>1 DEF Open, Awaited
  <1>4. InFlight' = InFlight \ {entry}
    <2>1. ASSUME NEW e PROVE e \in InFlight' <=> e \in InFlight /\ e # entry
      BY <1>1, <1>3, Flying, OneEntry
    <2>2. QED
      BY <2>1
  <1>5. Promise!Store(WriteOf(entry)) \/ Promise!Lose(WriteOf(entry))
    BY <1>1, <1>2, <1>4, LeavesFlight
  <1>6. QED
    BY <1>5 DEF Promise!Next, Promise!Store, Promise!Lose

\* A request is over: its client is told that it is accepted, or what it waited for
\* goes on without it (Acknowledge, NoAcknowledgement, Cancel, Receive).
LEMMA CloseMaps ==
    ASSUME OInv, NEW c \in Clients,
           Acknowledge(c) \/ NoAcknowledgement(c) \/ Cancel(c) \/ Receive(c)
    PROVE  Promise!Next \/ UNCHANGED Promise!vars
  <1>1. TypeInv /\ ClientInv(c)
    BY DEF OInv, IInv
  <1>2. /\ UNCHANGED <<cfg, sink, sent, log, applied, replica>>
        /\ late' = IF Open(c) THEN late \cup {client[c].entry} ELSE late
    BY DEF Acknowledge, NoAcknowledgement, Cancel, Receive, Broker, Consumer, Abandoned,
           Open, Awaited
  <1>3. PICK s : /\ client' = [client EXCEPT ![c] = s]
                 /\ s = Idle \/ \E status, code : s = Answered(client[c], status, code)
    BY DEF Acknowledge, NoAcknowledgement, Cancel, Receive
  <1>4. s.pc # "producing"
    <2>1. CASE s = Idle
      BY <2>1 DEF Idle
    <2>2. CASE \E status, code : s = Answered(client[c], status, code)
      BY <1>1, <2>2, Replies DEF ClientInv
    <2>3. QED
      BY <1>3, <2>1, <2>2
  <1>5. client'[c] = s /\ \A d \in Clients : d # c => client'[d] = client[d]
    BY <1>1, <1>3, OneChanges
  <1>6. ~Open(c)' /\ \A d \in Clients : d # c => Open(d)' = Open(d)
    BY <1>4, <1>5 DEF Open, Awaited
  <1>7. InFlight' = InFlight
    <2>1. ASSUME NEW e PROVE e \in InFlight' <=> e \in InFlight
      BY <1>2, <1>5, <1>6, Flying
    <2>2. QED
      BY <2>1
  <1>8. Logged' = Logged /\ Consumed' = Consumed
    BY <1>2 DEF Logged, Consumed
  <1>9. /\ WritesOf(InFlight)' = WritesOf(InFlight) /\ WritesOf(Logged)' = WritesOf(Logged)
        /\ WritesOf(Consumed)' = WritesOf(Consumed)
    BY <1>7, <1>8, WritesPrimed
  <1>10. CASE Acknowledge(c)
    <2>1. PICK entry : entry = client[c].entry
      OBVIOUS
    <2>2. entry \in Logged /\ entry.client = c
      BY <1>1, <1>10, <2>1 DEF Acknowledge, ClientInv, Awaited
    <2>3. accepted' = [accepted EXCEPT ![c] = @ \cup {entry.n}]
      BY <1>10, <2>1 DEF Acknowledge
    <2>4. WriteOf(entry).client = c /\ WriteOf(entry).n = entry.n
      BY <2>2 DEF WriteOf
    <2>5. WriteOf(entry) \in WritesOf(Logged)
      BY <2>2 DEF WritesOf
    <2>6. Promise!Accept(WriteOf(entry))
      BY <1>2, <1>9, <2>3, <2>4, <2>5 DEF Promise!Accept, WriteOf
    <2>7. QED
      BY <2>5, <2>6 DEF Promise!Next
  <1>11. CASE ~Acknowledge(c)
    <2>1. accepted' = accepted
      BY <1>11 DEF NoAcknowledgement, Cancel, Receive
    <2>2. QED
      BY <1>2, <1>9, <2>1 DEF Promise!vars, WriteOf
  <1>12. QED
    BY <1>10, <1>11

\* The consumer applies a record (Apply).
LEMMA ApplyMaps ==
    ASSUME OInv, NEW q \in Queues, Apply(q)
    PROVE  Promise!Next
  <1>0. PICK i, entry : i = applied'[q] /\ entry = log[q][i]
    OBVIOUS
  <1>1. /\ i = applied[q] + 1 /\ i \in DOMAIN log[q] /\ entry \in Logged
        /\ \A p \in Queues : applied[p] \in Nat /\ 1..applied[p] \subseteq DOMAIN log[p]
        /\ \A p \in Queues : p # q => applied'[p] = applied[p]
    BY <1>0, NextIsLogged
  <1>2. /\ UNCHANGED <<cfg, sink, client, sent, accepted, log, late>>
        /\ replica' = {x \in replica : x.place \notin Places(entry.record)}
                      \cup {[place |-> p, entry |-> entry] : p \in Places(entry.record)}
    BY <1>0, <1>1 DEF Apply, Broker
  <1>3. IInv /\ LogInv /\ cfg \in Configs
    BY DEF OInv, IInv, TypeInv
  <1>4. \A e \in Logged : EntryInv(e) /\ Places(e.record) = Touches(cfg, e.req)
    BY <1>3, PlacesTold DEF IInv, EntriesInv, EntryInv
  <1>5. Consumed \subseteq Logged
    BY <1>1, LoggedAt DEF Consumed
  <1>6. entry \notin Consumed
    <2> SUFFICES ASSUME entry \in Consumed PROVE FALSE
      OBVIOUS
    <2>1. PICK p \in Queues : \E j \in 1..applied[p] : entry = log[p][j]
      BY DEF Consumed
    <2>2. PICK j \in 1..applied[p] : entry = log[p][j]
      BY <2>1
    <2>3. p = q /\ j = i
      BY <1>0, <1>1, <1>3, <2>2 DEF LogInv, Same
    <2>4. QED
      BY <1>1, <2>3
  <1>7. Consumed' = Consumed \cup {entry}
    <2>1. 1..applied'[q] = (1..applied[q]) \cup {i}
      BY <1>0, <1>1
    <2>2. {log[q][k] : k \in 1..applied'[q]} = {log[q][k] : k \in 1..applied[q]} \cup {entry}
      BY <1>0, <2>1
    <2>3. \A p \in Queues : p # q =>
              {log[p][k] : k \in 1..applied'[p]} = {log[p][k] : k \in 1..applied[p]}
      BY <1>1
    <2>4. Consumed' = UNION {{log[p][k] : k \in 1..applied'[p]} : p \in Queues}
      BY <1>2 DEF Consumed
    <2>5. ASSUME NEW e, NEW p \in Queues
          PROVE  e \in {log[p][k] : k \in 1..applied'[p]} <=>
                     e \in {log[p][k] : k \in 1..applied[p]} \/ (p = q /\ e = entry)
      <3>1. CASE p = q
        BY <2>2, <3>1
      <3>2. CASE p # q
        BY <2>3, <3>2
      <3>3. QED
        BY <3>1, <3>2
    <2> DEFINE Then(p)  == {log[p][k] : k \in 1..applied[p]}
               Now(p)   == {log[p][k] : k \in 1..applied'[p]}
    <2>6. /\ Consumed' = UNION {Now(p) : p \in Queues}
          /\ Consumed = UNION {Then(p) : p \in Queues}
          /\ \A e : \A p \in Queues : e \in Now(p) <=> e \in Then(p) \/ (p = q /\ e = entry)
      BY <2>4, <2>5 DEF Consumed
    <2> HIDE DEF Then, Now
    <2>7. QED
      BY <2>6
  <1>8. /\ WriteOf(entry) \in WritesOf(Logged) \ WritesOf(Consumed)
        /\ WritesOf(Consumed)' = WritesOf(Consumed) \cup {WriteOf(entry)}
    <2>1. WriteOf(entry) \in WritesOf(Logged)
      BY <1>1 DEF WritesOf
    <2>2. ASSUME NEW e \in Consumed PROVE WriteOf(e) # WriteOf(entry)
      BY <1>1, <1>5, <1>6, OneEntry, WritesDiffer
    <2>3. WriteOf(entry) \notin WritesOf(Consumed)
      BY <2>2 DEF WritesOf
    <2>4. QED
      BY <1>7, <2>1, <2>3, WritesAdd, WritesPrimed
  <1>9. InFlight' = InFlight /\ Logged' = Logged
    BY <1>2 DEF InFlight, Open, Awaited, Logged
  <1>10. WritesOf(InFlight)' = WritesOf(InFlight) /\ WritesOf(Logged)' = WritesOf(Logged)
    BY <1>9, WritesPrimed
  <1>11. ASSUME NEW e \in Logged, Promise!Follows(WriteOf(entry), WriteOf(e))
         PROVE  WriteOf(e) \in WritesOf(Consumed)
    <2>1. /\ e.client = entry.client /\ e.n \in entry.after
          /\ Form(cfg, e.req) = Form(cfg, entry.req)
          /\ Touches(cfg, e.req) \cap Touches(cfg, entry.req) # {}
      BY <1>11 DEF Promise!Follows, WriteOf
    <2>2. PICK place : place \in Places(e.record) /\ place \in Places(entry.record)
      BY <1>1, <1>4, <2>1
    <2>3. SameForm(e, entry)
      <3>1. EntryInv(e) /\ EntryInv(entry)
        BY <1>1, <1>4
      <3>2. QED
        BY <1>3, <2>1, <3>1, FormsTold DEF EntryInv, SameForm, IInv, TypeInv
    <2>4. PICK p \in Queues : \E j \in DOMAIN log[p] : log[p][j] = e
      BY LoggedAt
    <2>5. PICK j \in DOMAIN log[p] : log[p][j] = e
      BY <2>4
    <2>6. p = q /\ j < i
      <3>1. i \in DOMAIN log[q] /\ entry = log[q][i] /\ e = log[p][j]
        BY <1>0, <1>1, <2>5
      <3>2. IInv /\ LogInv /\ e.client = entry.client /\ e.n \in entry.after
        BY <1>3, <2>1
      <3>3. QED
        BY <2>2, <2>3, <3>1, <3>2, Preceded
    <2>7. j \in 1..applied[q]
      <3>1. Len(log[q]) \in Nat /\ DOMAIN log[q] = 1..Len(log[q])
        BY AppendFacts DEF OInv, IInv, TypeInv
      <3>2. QED
        BY <1>1, <2>5, <2>6, <3>1
    <2>8. e \in Consumed
      BY <2>5, <2>6, <2>7 DEF Consumed
    <2>9. QED
      BY <2>8 DEF WritesOf
  <1>12. \A w \in WritesOf(Logged) : Promise!Follows(WriteOf(entry), w) => w \in WritesOf(Consumed)
    BY <1>11 DEF WritesOf
  <1> DEFINE Mapped(R) == {[place |-> x.place, write |-> WriteOf(x.entry)] : x \in R}
             places == Touches(cfg, WriteOf(entry).req)
  <1>13. places = Places(entry.record)
    BY <1>1, <1>4 DEF WriteOf
  <1>14. Mapped(replica') = {x \in Mapped(replica) : x.place \notin places}
                            \cup {[place |-> p, write |-> WriteOf(entry)] : p \in places}
    <2> DEFINE Kept == {x \in replica : x.place \notin Places(entry.record)}
               New  == {[place |-> p, entry |-> entry] : p \in Places(entry.record)}
    <2>1. Mapped(replica') = Mapped(Kept) \cup Mapped(New)
      BY <1>2
    <2>2. Mapped(Kept) = {x \in Mapped(replica) : x.place \notin places}
      BY <1>13
    <2>3. Mapped(New) = {[place |-> p, write |-> WriteOf(entry)] : p \in places}
      <3> HIDE DEF places
      <3>1. ASSUME NEW x \in New PROVE \E p \in places : x.place = p /\ x.entry = entry
        BY <1>13
      <3>2. ASSUME NEW p \in places PROVE \E x \in New : x.place = p /\ x.entry = entry
        <4>1. [place |-> p, entry |-> entry] \in New
          BY <1>13
        <4>2. QED
          BY <4>1
      <3> HIDE DEF New
      <3>3. QED
        BY <3>1, <3>2
    <2>4. QED
      BY <2>1, <2>2, <2>3
  <1>15. Promise!Apply(WriteOf(entry))
    BY <1>2, <1>8, <1>10, <1>12, <1>14 DEF Promise!Apply
  <1>16. QED
    BY <1>8, <1>15 DEF Promise!Next

\* An async write has the effect of the synchronous one or none, at most once, the first
\* if it was accepted, and after what its client knew to be accepted: for any clients,
\* requests, queues and keys, whatever the broker loses or stores late, and whoever goes
\* away or tries again.
THEOREM ImplementsLog == Spec => ImplementsPromise
  <1>1. Init => Promise!Init
    <2> SUFFICES ASSUME Init PROVE Promise!Init
      OBVIOUS
    <2>1. \A d \in Clients : ~Open(d)
      BY DEF Init, Idle, Open, Awaited
    <2>2. InFlight = {}
      BY <2>1 DEF Init, InFlight
    <2>3. Logged = {} /\ Consumed = {}
      BY DEF Init, Logged, Consumed
    <2>4. QED
      BY <2>2, <2>3 DEF Init, Promise!Init, WritesOf
  <1>2. OInv /\ [Next]_vars => [Promise!Next]_(Promise!vars)
    <2> SUFFICES ASSUME OInv, [Next]_vars PROVE Promise!Next \/ UNCHANGED Promise!vars
      OBVIOUS
    <2>1. ASSUME NEW c \in Clients, NEW req \in Requests[cfg], Send(c, req)
          PROVE  Promise!Next
      BY <2>1, SendMaps DEF Promise!Next
    <2>2. CASE \E c \in Clients : LandAwaited(c)
      BY <2>2, LandAwaitedMaps
    <2>3. CASE \E c \in Clients :
                 Acknowledge(c) \/ NoAcknowledgement(c) \/ Cancel(c) \/ Receive(c)
      BY <2>3, CloseMaps
    <2>4. CASE \E entry \in late : LandLate(entry) \/ Lose(entry)
      BY <2>4, LateMaps
    <2>5. CASE \E q \in Queues : Apply(q)
      BY <2>5, ApplyMaps
    <2>6. CASE UNCHANGED vars
      BY <2>6 DEF vars, Promise!vars, WritesOf, InFlight, Open, Awaited, Logged, Consumed
    <2>7. QED
      BY <2>1, <2>2, <2>3, <2>4, <2>5, <2>6 DEF Next
  <1>3. QED
    BY <1>1, <1>2, OrderAlways, PTL DEF Spec, ImplementsPromise, Promise!Spec

\* "Records for the same document land on the same partition - preserving per-document
\* order", where writes to one document are all of one form (Bridge::record).
THEOREM DocumentsInOrder ==
    ASSUME FormsAgree
    PROVE  Spec => PerDocumentOrder
  <1> DEFINE Never == \A q \in Queues : applied'[q] # applied[q] =>
                          \A x \in replica :
                              x.place \in Places(log[q][applied'[q]].record)
                                  => ~Undone(x, log[q][applied'[q]])
             Kept  == \A q \in Queues : applied'[q] # applied[q] =>
                          \A x \in replica :
                              x.place \in Places(log[q][applied'[q]].record)
                                /\ SameForm(x.entry, log[q][applied'[q]])
                                  => ~Undone(x, log[q][applied'[q]])
  <1>0. ASSUME OInv, NEW e \in Logged, NEW f \in Logged,
               NEW place \in Places(e.record), place \in Places(f.record)
        PROVE  SameForm(e, f)
    <2>1. EntryInv(e) /\ EntryInv(f) /\ cfg \in Configs /\ sink \in BOOLEAN
      BY <1>0 DEF OInv, IInv, EntriesInv, TypeInv
    <2>2. place \in Touches(cfg, e.req) /\ place \in Touches(cfg, f.req)
      BY <1>0, <2>1, PlacesTold DEF EntryInv
    <2>3. LetsGo(cfg, TRUE, e.req) /\ LetsGo(cfg, TRUE, f.req)
      BY <2>1 DEF EntryInv, LetsGo
    <2>4. Form(cfg, e.req) = Form(cfg, f.req)
      BY <2>1, <2>2, <2>3 DEF FormsAgree, OneForm, EntryInv
    <2>5. QED
      BY <2>1, <2>4, FormsTold DEF EntryInv, SameForm
  <1>1. ASSUME OInv, NEW q \in Queues, Apply(q), NEW x \in replica,
               x.place \in Places(log[q][applied'[q]].record)
        PROVE  SameForm(x.entry, log[q][applied'[q]])
    <2>1. log[q][applied'[q]] \in Logged
      BY <1>1, NextIsLogged
    <2>2. x.entry \in Logged /\ x.place \in Places(x.entry.record)
      <3>1. PICK p \in Queues : \E i \in 1..applied[p] :
                x.entry = log[p][i] /\ x.place \in Places(x.entry.record)
        BY <1>1 DEF OInv, ReplicaInv
      <3>2. QED
        BY <1>1, <3>1, NextIsLogged, LoggedAt
    <2>3. QED
      BY <1>0, <1>1, <2>1, <2>2
  <1>2. OInv /\ [Next]_vars /\ [Kept]_vars => [Never]_vars
    BY <1>1, AppliesNext
  <1>3. Spec => [][Kept]_vars
    BY OrderHeld DEF OrderKept
  <1>4. Spec => [][Never]_vars
    BY <1>2, <1>3, OrderAlways, PTL DEF Spec
  <1>5. QED
    BY <1>4 DEF PerDocumentOrder

-----------------------------------------------------------------------------
(***************************************************************************)
(* Tenants.  A record names an index, an id and a routing, but no cluster: *)
(* placements that differ in the cluster alone look the same in it.        *)
(***************************************************************************)
RecordsTell(c) ==
    /\ KeepsApart(c) /\ c.isolation # "dedicated_cluster"
    /\ c.isolation = "dedicated_index" =>
           \A p, q \in Partitions : p # q => c.indexOf[p] # c.indexOf[q]

\* A place of tenant t's in a replica.
Owns(c, t, index, id) ==
    IF t = None THEN index \in c.passthrough
    ELSE /\ index \notin c.passthrough
         /\ c.isolation = "dedicated_index" => index = c.indexOf[t]
         /\ Shares(c, t) => OwnId(t, id)

\* What a consumer makes of a record stays in places of the tenant who sent it.
LEMMA PlacesOwned ==
    ASSUME NEW c \in Configs, KeepsApart(c), NEW req \in Requests[c], IsWriteRequest(req),
           Handle(c, req).to # "local", NEW t, t = TenantOf(c, req),
           NEW place \in Places(RecordOf(c, req))
    PROVE  /\ t \in Partitions \cup {None}
           /\ \E index, id, routing :
                  place = <<index, id, routing>> /\ Owns(c, t, index, id)
  <1>0. PICK record : record = RecordOf(c, req)
    OBVIOUS
  <1>1. PICK rewritten, ctx, r : /\ rewritten = RewriteForPath(c, req)
                                 /\ ctx = CtxOf(rewritten) /\ r = Resolve(c, ctx)
    OBVIOUS
  <1>2. /\ WellFormed(ctx)
        /\ ctx.kind \in {"ingest_doc", "ingest_bulk", "delete_by_id"}
        /\ \/ Bypasses(c, ctx) /\ Handle(c, req).to = "continue"
           \/ ~Bypasses(c, ctx) /\ Handle(c, req).to = "upstream"
    BY <1>1, WriteFacts
  <1>3. PICK i \in DOMAIN Interpret(record) :
            Interpret(record)[i].id # None /\ place = Place(Interpret(record)[i])
    BY <1>0 DEF Places
  <1>4. CASE Bypasses(c, ctx)
    <2>1. t = None
      BY <1>1, <1>4 DEF TenantOf
    <2>2. record = [line |-> RawLine(rewritten), payload |-> <<>>]
      BY <1>0, <1>1, <1>2, <1>4 DEF RecordOf, Capture
    <2>3. ctx.kind # "ingest_bulk"
      <3>1. CASE ctx.kind = "ingest_bulk"
        <4>1. Interpret(record) = <<>>
          BY <1>1, <2>2, <3>1 DEF RawLine, Line, Interpret
        <4>2. QED
          BY <1>3, <4>1
      <3>2. QED
        BY <3>1
    <2>4. record.line = Line("_doc", ctx.index, ctx.docId, None, Spelling(rewritten))
      BY <1>1, <2>2, <2>3 DEF RawLine
    <2>5. PICK op, doc : Interpret(record) =
                             <<Op(op, ctx.index, ctx.docId, None, doc, None)>>
      BY <2>4 DEF Interpret, Line
    <2>6. place = <<ctx.index, ctx.docId, None>>
      BY <1>3, <2>5 DEF Place, Op
    <2>7. Owns(c, t, ctx.index, ctx.docId)
      BY <1>4, <2>1 DEF Owns, Bypasses
    <2>8. QED
      BY <2>1, <2>6, <2>7
  <1>5. CASE ~Bypasses(c, ctx)
    <2>1. Interpret(record) = Plan(c, req).ops
      BY <1>0, <1>1, <1>5, RecordSays
    <2>2. Plan(c, req) = Handle(c, req)
      BY <1>2, <1>5 DEF Plan
    <2>3. t \in Partitions \cup {None} /\ ScopedPlan(c, t, Plan(c, req))
      <3>1. Sendable(c, req)
        BY <1>1, <1>2, <1>5 DEF Sendable
      <3>2. QED
        BY <1>2, <1>5, <2>2, <3>1, PlanScoped
    <2>4. PICK op : op = Interpret(record)[i]
      OBVIOUS
    <2>5. OpScoped(c, t, Plan(c, req).cluster, op)
      BY <1>3, <2>1, <2>3, <2>4 DEF ScopedPlan
    <2>6. op.id # None /\ place = <<op.index, op.id, op.routing>>
      BY <1>3, <2>4 DEF Place
    <2>7. Owns(c, t, op.index, op.id)
      BY <2>5, <2>6 DEF OpScoped, Home, Owns
    <2>8. QED
      BY <2>3, <2>6, <2>7
  <1>6. QED
    BY <1>4, <1>5

\* A place has one owner.
LEMMA OneOwner ==
    ASSUME NEW c, RecordsTell(c), NEW t \in Partitions \cup {None},
           NEW u \in Partitions \cup {None}, NEW index, NEW id,
           Owns(c, t, index, id), Owns(c, u, index, id)
    PROVE  t = u
  <1>1. CASE t = None \/ u = None
    BY <1>1 DEF Owns
  <1>2. CASE t # None /\ u # None
    <2>1. t \in Partitions /\ u \in Partitions
      BY <1>2
    <2>2. c.isolation \in {"dedicated_index", "shared_index"}
      BY DEF RecordsTell, KeepsApart, Config, Isolations
    <2>3. CASE c.isolation = "dedicated_index"
      BY <1>2, <2>1, <2>3 DEF Owns, RecordsTell
    <2>4. CASE c.isolation = "shared_index"
      <3>1. OwnId(t, id) /\ OwnId(u, id)
        BY <1>2, <2>4 DEF Owns, Shares
      <3>2. QED
        BY <2>1, <3>1, TemplateInjective, ZenonT(60) DEF TemplateInjective, OwnId
    <2>5. QED
      BY <2>2, <2>3, <2>4
  <1>3. QED
    BY <1>1, <1>2

\* A replica that knows nothing of tenancy keeps tenants apart, where their placements
\* differ in more than the cluster (CaptureActions, and a consumer that reads it).
THEOREM TenantsApart ==
    ASSUME \A c \in Configs : RecordsTell(c)
    PROVE  Spec => []RecordsKeepTenantsApart /\ []ConsumerNeedsNoTenancy
  <1>1. IInv => RecordsKeepTenantsApart
    <2> SUFFICES ASSUME IInv, NEW e \in Logged, NEW f \in Logged,
                        NEW place \in Places(e.record), place \in Places(f.record)
                 PROVE  TenantOf(cfg, e.req) = TenantOf(cfg, f.req)
      BY DEF RecordsKeepTenantsApart
    <2>1. cfg \in Configs /\ RecordsTell(cfg) /\ KeepsApart(cfg)
      BY DEF IInv, TypeInv, RecordsTell
    <2>2. EntryInv(e) /\ EntryInv(f)
      BY DEF IInv, EntriesInv
    <2>3. PICK t, u : t = TenantOf(cfg, e.req) /\ u = TenantOf(cfg, f.req)
      OBVIOUS
    <2>4. /\ t \in Partitions \cup {None}
          /\ \E index, id, routing :
                 place = <<index, id, routing>> /\ Owns(cfg, t, index, id)
      BY <2>1, <2>2, <2>3, PlacesOwned DEF EntryInv
    <2>5. /\ u \in Partitions \cup {None}
          /\ \E index, id, routing :
                 place = <<index, id, routing>> /\ Owns(cfg, u, index, id)
      BY <2>1, <2>2, <2>3, PlacesOwned DEF EntryInv
    <2>6. t = u
      BY <2>1, <2>4, <2>5, OneOwner
    <2>7. QED
      BY <2>3, <2>6
  <1>2. QED
    BY <1>1, Always, PTL DEF ConsumerNeedsNoTenancy
=============================================================================
