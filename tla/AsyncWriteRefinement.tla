------------------------ MODULE AsyncWriteRefinement ------------------------
(* AsyncWrite implements PromisedWrites: a record, in flight, in the log or  *)
(* applied, stands for the write it was made from.                           *)
EXTENDS AsyncWrite

WriteOf(entry) ==
    [client |-> entry.client, n |-> entry.n, req |-> entry.req, after |-> entry.after]

\* What may still land: the produces somebody waits for, and those nobody does.
Awaited(c)  == client[c].pc = "producing"
Open(c)     == Awaited(c) /\ ~client[c].landed
InFlight    == late \cup {client[c].entry : c \in {d \in Clients : Open(d)}}
Consumed    == UNION {{log[q][i] : i \in 1..applied[q]} : q \in Queues}
WritesOf(S) == {WriteOf(e) : e \in S}

LetsGo(c, wired, req) ==
    wired /\ IsWriteRequest(req) /\ Handle(c, req).to # "local"

\* Where the synchronous path would put the write; of a write that is passed through,
\* the place the client names, a bulk's being in the body the record does not have.
Touches(c, req) ==
    LET ctx == CtxOf(RewriteForPath(c, req))
        ops == Plan(c, req).ops
    IN  IF Bypasses(c, ctx)
        THEN {<<ctx.index, id, None>> :
                id \in IF ctx.kind = "ingest_bulk" THEN {} ELSE {ctx.docId} \ {None}}
        ELSE {Place(ops[i]) : i \in {j \in DOMAIN ops : ops[j].id # None}}

\* Bulk or single document; and how the client spells it, if it is passed through.
Form(c, req) ==
    LET rewritten == RewriteForPath(c, req)
    IN  <<IF CtxOf(rewritten).kind = "ingest_bulk" THEN "_bulk" ELSE "_doc",
          IF Bypasses(c, CtxOf(rewritten)) THEN Spelling(rewritten) ELSE None>>

Promise == INSTANCE PromisedWrites WITH
    pending <- WritesOf(InFlight),
    stored  <- WritesOf(Logged),
    applied <- WritesOf(Consumed),
    replica <- {[place |-> x.place, write |-> WriteOf(x.entry)] : x \in replica}

\* An async write has the effect of the synchronous one or none, at most once, the
\* first if it was accepted, and in order: whatever acknowledgements are lost, and
\* whoever goes away or tries again (async_write, CaptureActions, Bridge).
ImplementsPromise == Promise!Spec
=============================================================================
