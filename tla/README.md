# evoxy in TLA+

evoxy puts a multi-tenant OpenSearch behind Envoy: a filter that resolves the
tenant of every request, rewrites the request into the tenant's physical
placement, lets Envoy forward it, and reshapes the response into the client's own
terms. These modules model that filter, the two backends that run it inside Envoy,
their observe surface and the asynchronous write mode; TLC checks them on small
instances, and TLAPS proves for every instance that each tenant has a store of its own,
the contract of an accepted write, the write gate, that each backend takes one decision per
request and carries it out at most once, that its streams only go forward and wait for
nobody who waits for them, that the counters, directives and dry runs tell operators the
truth, and under which conditions what the documentation claims is so. Paths below are relative to the repository's root.

## 1. The system

| part | state | operations | talks to |
|---|---|---|---|
| reference tenancy, `crates/evoxy-filter/src/reference.rs` | none (a configuration, fixed at start-up) | partition, placement, index, id rule, injected fields, write gate | the engine's router |
| engine (`osproxy-*` crates, not in the repository) | a router's placements | `resolve`, `admit_write`, body and query rewriting | evoxy-route |
| routing, `crates/evoxy-route` | none | `prepare` and its forward builders, `resolve_target`, `explain`, `shape_read_response` | the router |
| adapter, `crates/evoxy-adapter`, `crates/evoxy-abi` | none | classification, principal, request context | the filter |
| filter, `crates/evoxy-filter/src/lib.rs` | none | `handle`, `route_headers`, `shape_response`, `is_write`, `decision_shape`, `explain` | adapter, routing, `EnvoyActions` |
| async writes, `crates/evoxy-filter/src/asyncwrite.rs`, `crates/evoxy-bridge` | a produce in flight | `async_write`, `Bridge::record`, `forward_acked` | filter, broker |
| ext_proc service, `crates/evoxy-extproc` | per stream: buffered headers, the message being processed | one task per gRPC stream; `process_message` per phase | Envoy (gRPC), filter, sink, observe |
| dynamic module, `crates/evoxy-module-sdk` | per stream: headers; per worker: the callback under way | Envoy's four HTTP callbacks, `block_on` | Envoy (C ABI), filter, sink, observe |
| observe, `crates/evoxy-filter/src/observe.rs` | two counters, one switch: relaxed atomics under no lock | reserved paths (metrics, explain, directives), counters, decision header | backends, filter, router |
| `evoxy-bench`, `xtask`, `examples`, `site` | – | measurement, build, samples | – |

A request travels client → Envoy → backend → filter (adapter, then routing, which
asks the router twice) → backend → Envoy → cluster, and its response goes back
through the backend's response phases, which ask the filter anew. An asynchronous
write ends in a broker instead, for a consumer to replay.

What makes it hard:

- tenants share physical indices, and their operations interleave there; a single
  unscoped id or a missing filter term in one of eight endpoints joins two tenants;
- a decision is not one step: `prepare` awaits the placement and then the gate, the
  dynamic module decides once for the headers and again for the body, and the
  response phase decides a third time, on the request line alone;
- Envoy, clients, clusters and the broker each go away, answer late or not at all;
- counters and the directive are read and set by requests on other threads while a
  scrape or an order is half done;
- an accepted asynchronous write must be durable, once refused it must not exist,
  and its record must say all that the request said.

## 2. Modules

Read in this order. The first three have no state of their own.

| module | models |
|---|---|
| `Tenancy` | the reference tenancy and what the router makes of it (`Resolve`) |
| `Route` | `prepare` with every forward builder, `resolve_target`, `explain`, response shaping |
| `Brain` | classification, the request context, and the filter's six operations |
| `SharedStore` | clients, filter and clusters: requests cross the filter and run operation by operation in shared indices |
| `TenantStore` | the promise: every tenant has a store of its own |
| `SharedStoreRefinement` | `SharedStore` implements `TenantStore` |
| `AsyncWrite` | async mode, the bridge, the broker, a consumer |
| `PromisedWrites` | the promise: an accepted write is stored, and what is stored has the effect of the synchronous write, at most once and in its client's order |
| `AsyncWriteRefinement` | `AsyncWrite` implements `PromisedWrites` |
| `Placements` | a router whose placements change, and what both backends are handed |
| `Observe` | the counters, the directive and the reserved paths, step by step |
| `Exchange` | the promise: one decision per request, at most one forward, of that decision, whatever the router is and however placements change |
| `ExtProc` | the ext_proc service and Envoy's side of its streams |
| `DynModule` | the dynamic module and Envoy's worker threads |
| `SharedStoreClaims`, `AsyncWriteClaims`, `DynModuleClaims` | sentences of the documentation, stated as properties, and what it takes for them to hold |
| `RouteProofs` | what the filter's forwards may name: shared by the next two |
| `SharedStoreProofs`, `AsyncWriteProofs` | theorems about `SharedStore` and `AsyncWrite` |
| `RefinementProofs` | theorems that `SharedStore` implements `TenantStore`, and about the claims of `SharedStoreClaims` |
| `BackendProofs` | what a moved tenant leaves fresh; what sets of requests say of the counters they stand behind; how a reply on a reserved path comes about: shared by the next three |
| `ExtProcProofs`, `DynModuleProofs` | theorems about the two backends |
| `OperatorProofs` | theorems about what operators are told by the ext_proc service |
| `MC*` | instances (`MCBackends` is what the two backends' instances share) |

**How state and actions correspond to the code.** In `SharedStore`, `Forward` and
`Reject` are one call of `Filter::handle` (with every effect it sets), `Execute`
is a cluster running one operation of the forwarded request, `Respond` the
response-body phase. In `AsyncWrite`, `Send` is `Filter::async_write` up to the
produce, `Acknowledge`/`NoAcknowledgement` its two ends, `Land`/`LandLate`/`Lose`
what the broker may do meanwhile, `Cancel` a client that stops waiting while the
task goes on.

In `ExtProc`, a stream has an Envoy record and a task record; each `On...` action is
the arm of `process_message` of that name up to the first await, `ResolveNow` and
`Gate` are the two awaits of `prepare` (with everything up to the answer),
`Acknowledged`/`NotAcknowledged` the end of the await on the sink, `DecisionHeader`
the end of the response headers' own look-up, `End` the end of the task's loop,
`Message`/`Answer` the two directions of the stream. In `DynModule`,
`OnRequestHeaders`, `OnRequestBody`, `OnResponseHeaders` and `OnResponseBody` are
the callbacks; a callback that awaits goes on in `ResolveNow`, `Gate`, `Produced` or
`DecisionHeader` and keeps its worker (`Idling`) until then.

A reserved path is answered by `reserved_reply`, which both backends take apart in
the same way: `BeginReply` (authorise, parse the orders of the query), any number of
`Observing` steps, and `Observed`. What one `Observing` step may find is
`Observe!Glances`: one of the two counters (the relaxed loads of `snapshot_json` may
be swapped), the router's answer to a dry run, or nothing when an order is carried
out; `Observe!Obeys` is the store of one order (`apply_query`). The last step reads
what is still missing and answers (`Reply`): the other counter, the flag, the gate.
`Count` is `record_routed` or `record_rejected`, one atomic addition in the step that
calls it. `before` is a history variable: what clients had been told when a scrape
began. It is read by `ScrapesTell` alone.

**What data is.** A path is the sequence of its segments, a document is [id,
injected tenant, rest], a body that does not parse is `Malformed`. A forward is the
sequence of physical operations the cluster will run: one for a document or a
search, one per item of `_bulk`, `_mget`, `_msearch`. A physical id is an
application of `Template`, whose only property is that it is injective. A query
body is absent, present or malformed.

## 3. Abstract specifications

`SharedStore` ⇒ `TenantStore`. `SharedStoreRefinement` maps every physical entry
to the private document it stands for, and takes what a client *asked for* from
the request alone (`Asks`), not from what the filter made of it. The refinement
thus says that ids survive the way in and back out for every pair of endpoints,
that nothing reaches another tenant, and that a refused request did nothing. Two
replies need a reading of their own: the acknowledgement of a single-document
write or delete is not reshaped by the code, and is translated in the mapping.

`AsyncWrite` ⇒ `PromisedWrites`. A record, in flight, in a queue or applied, stands for
the write it was made from (`WriteOf`); what a write is to do is taken from the
synchronous path alone (`LetsGo`, `Touches`, `Form`), never from the record. Lost
acknowledgements, records that land late, clients that go away, the queues and the keys
are all gone in `PromisedWrites`: there a write that was taken is stored or lost, is
accepted only once stored, and is applied at most once, not ahead of a write of the same
form with a place in common that its client knew to be accepted. Two writes are of one form
if both are bulks or neither is, and if they cross the tenancy or spell path and query
alike: a record's key is the path and query as they stand, and only the filter makes all
ways of writing one document (`_doc`, `_create`, `_update`, a query) into one path. A write
to a passthrough index keeps its own (`RawLine`, `Spelling`). Of a passthrough bulk the
record has no body, so it touches nothing in either.

`ExtProc` ⇒ `Exchange` and `DynModule` ⇒ `Exchange`. The phases, the buffering,
the reserved paths, the limits and the async dispatch of each backend come down to
`Ask`, `Decide`, `Deliver`, with the gate asked after the look-up and nothing
forwarded that was not decided on the whole request. `Exchange` knows nothing of the
router: `LookAt`, `AdmitsAt`, `Front` and `Verdict` are constant operators of the
placements of the moment, which may change to anything between two steps, so the
promise does not depend on what a migration does. For `DynModule` the cluster a
request is sent to is left out of the mapping, because the header phase chooses it;
`SplitOnlyByMove` says when it can differ from the decision's.

Of the counters, the abstract specification is a set: behind each stands the set of
requests it counted. `CountersTell` says it for clients (whoever was served or
refused is counted, nobody is counted twice), `ScrapesTell` for a reader.

## 4. Runs

Expected to pass:

| run | instance | properties |
|---|---|---|
| `tenants` | two clients, interchangeable (`SYMMETRY`); tenants acme and globex in one shared index: routing off and on, and keyed by certificate with the mutation policy while globex drains, or while acme is in cutover, both with documents from before; the same tenants kept apart by index (header-keyed) and by cluster (path-keyed); 18 requests over all eight endpoints, bulks and deletions of the tenant in cutover among them, well- and ill-formed, one past the tenancy; 440,314 states | `TypeOK`, `TenantIsolation`, `ExplainMatches`, `ReadsAreLogical`, `WritesStayHome`, `FrozenInCutover`, `ImplementsTenantStore` |
| `async_log` | two clients, one sending twice; two queues; with and without a sink; shared index (with a bulk) and dedicated index, one tenant draining or in cutover (with a read and two passthrough writes of one document, spelled differently); writes of both tenants to one document; 197,207 states | `TypeOK`, `AcceptedIsDurable`, `RefusalsQueueNothing`, `RecordIsTheWrite`, `RecordsKeepTenantsApart`, `OrderKept`, `AcceptedHappens`, `ImplementsPromise` |
| `ext_proc` | two streams: one with any of thirteen requests (body, no body, body over the cap, trailers, async write, async read, passthrough, unsupported endpoint, unresolvable tenant, metrics, dry run, two orders in one query, an order with a wrong token), one with a queued deletion or an order; one tenant moved once; Envoy may give up any time | `TypeOK`, `AnswersMatch`, `CountersTell`, `ScrapesTell`, `DirectiveInForce`, `ImplementsExchange`, `StaleWritesHeld`, `ExplainsGated`, `TurnsTaken`, `StreamsProgress`, `StreamsEnd` |
| `dyn_module` | two streams: one on worker `w1` with any of nine requests, one on `w1` or `w2` with an unresolvable write, a queued deletion, two orders or a scrape; dedicated clusters; one tenant moved once; 71,489 states | `TypeOK`, `CountersTell`, `ScrapesTell`, `ImplementsExchange`, `SplitOnlyByMove`, `StaleWritesHeld`, `DirectiveInForce`, `ExplainsGated`, `NobodyStuck`, `StreamsProgress`, `AnsweredUnlessBlocked` |

What the less obvious ones show. `FrozenInCutover`: the documents a tenant in cutover had
stay as they were and none is added, whatever it sends and whatever the other client does in
the same index meanwhile; its mutant forgets the gate on every endpoint but the single
document's. `ExplainMatches`: where a dry run speaks of a route, every operation that leaves
has the decision reported (`Shows`): injected field, filter and id are the tenant's if it
says so, and it reads if writes are held; where it speaks of a refusal, that is the request's.
`CountersTell`, in the module: the two counters add up to the requests that `process` or
`async_write` has ended (`Settled`), no more and no less, so that a request refused at its
headers is provably in neither (`module_rejections` is what that contradicts). `AnswersMatch`: the variant of every answer is the
phase Envoy waits for, though it is chosen where the answer is built and Envoy may
have given up meanwhile. `OrderKept`: no write is applied over a later one that was
sent once it was accepted, among writes of one form; those of two forms have different keys
(`async_bulk_order`). `ScrapesTell`: the two counters of a snapshot are read at
two moments, but a scrape misses nobody whose answer was out when it began, and
invents nobody. `DirectiveInForce`: orders that overtake each other may undo one
another, but once all are answered the flag is what somebody was told.
`ExplainsGated`: a dry run promises a write no route its tenant has left between the
dry run's two awaits. `StreamsProgress`: every step takes its stream nearer to its end
and no other stream back, whatever is moved meanwhile; `TurnsTaken` and `NobodyStuck`:
until then somebody can take a step (Envoy or the task, never both; in the module, a
callback of the same worker, unless the broker holds it). `AnsweredUnlessBlocked`: a broker that never answers stops the
streams of one worker and of no other.

Expected to be violated: each states what a document or a comment of the
repository says, and shows a behaviour of the code that is otherwise.

| run | says | the code |
|---|---|---|
| `path_reads` | clients read logical ids and indices (guide, 02-tenancy) | `shape_response` does not move a tenant out of the path, so a path-keyed read of a shared index is not reshaped |
| `explain_disagrees` | "the explain can never disagree with the real route" (11-roadmap) | certificate policy, passthrough and the path's tenant are not in it |
| `bulk_explicit_ids` | an id is constructed "unless the action line carried an explicit id" (bulk.rs) | it is constructed before the action line is looked at, and may fail |
| `async_global` | "a `202` promises the write will happen" (asyncwrite.rs) | the record of a passthrough write has no body |
| `async_tenants` | "the consumer needs no tenancy logic either" (guide, 09) | the cluster is not in the record |
| `async_bulk_order` | "records for the same document land on the same partition" (bridge) | a bulk has a key of its own (and so has every spelling of a passthrough write) |
| `module_rejections` | "`rejected` is fail-closed replies (unresolved partition, ...)", and `/_evoxy/metrics` behaves "identically whichever you deploy" (guide, 07-observability; observe.rs) | the module applies a refusal of its header phase without counting it; ext_proc counts the same request |
| `module_migration` | "Migration between placements is epoch-gated" (guide) | the dynamic module's header phase commits a cluster without the gate, and drops the epoch |

**Bounds, and why they are enough.** Isolation is a relation of two tenants, two
documents and two requests in flight; a third tenant (`anonymous`, for a request
without a certificate) and a passthrough index are there for the requests that
belong to nobody. Multi-operation bodies have two or three items so that a
failure can be preceded and followed by a success. A configuration is fixed within a
behaviour, as it is in the process, so a behaviour lies in one phase of a migration; what
the phases before it left is in `Stores`, from which `Init` takes what the clusters hold.
In `tenants` the tenant in cutover starts with two documents and the other with one.
`StoresHandedOn` (section 5) shows that every run leaves what `StoresAssumption` asks of
the next one's start. `Sends` is 2 and 1: an order
needs two writes of one client, an interference one of another. `Moves` is 1: one
migration passes through draining, cutover, and an end in either place, at any
point of a request; a second one brings nothing new to a request that met the
first, since epochs are only compared for equality. Streams are one-shot: one HTTP
request each, as in the code, where nothing but the counters, the directive, the
placements and (in the module) the worker joins them. In `dyn_module` the second
stream is given to the first one's worker or to another: the least that shows a
blocked worker stopping a neighbour and not a stranger. An order query has up to two
settings, so that a flag that was set and set back can be confirmed to somebody; a
scrape can be overtaken between its two readings by the other stream's count. What
two streams cannot show (three orders that chase each other, many requests between
two readings) the theorems of section 5 cover.

**Deadlock** is checked in `SharedStore`, whose clients go on for ever. The others
stop when their bounded clients have sent everything or all their streams are
closed, so `CHECK_DEADLOCK FALSE`; that nothing stops *earlier* is what
`StreamsEnd`, `AnsweredUnlessBlocked` and `AcceptedHappens` say.

**Fairness.** `AsyncWrite`: the consumer keeps consuming; clients, broker and
acknowledgements owe nothing. `ExtProc`: a stream does not stand still for ever: a
runnable task is run (tokio), and Envoy, the upstream and the broker answer in the
end; nobody has to give up, and no migration has to progress. There is no timeout
around the produce in the code, so a broker that never answered would keep the
task for ever: `StreamsEnd` is under the assumption that it does. `DynModule`
assumes the same of Envoy and upstreams but nothing of the broker, because there
the broker's silence holds a thread that other streams need.

## 5. Proofs

All theorems are for every value of the constants: any tenants, ids, clusters,
indices, configurations, requests, clients, streams, workers, queues and moves that
meet the assumptions, each named where its constants are declared and evaluated by
TLC on every instance. In common:

- templates are injective and the reserved names differ (`Tenancy!TemplateInjective`,
  `NamesDiffer`); configurations are well-typed (`ConfigsAssumption`,
  `MovesAssumption`);
- requests are what classification and parsing can produce, and name a tenant there is
  or none (`RequestsAssumption` of each module); `EmitAssumption`, `WorkersAssumption`,
  `SendsAssumption`, `QueuesAssumption` and `DocAssumption` give the other constants
  their types;
- what the clusters hold when the filter starts is what earlier runs of it left
  (`StoresAssumption`: every document lies at its author's home and, where tenants share
  an index, has the author's mark and an id built from its partition).

A theorem that needs more says so in its `ASSUME`.

**The store** (`SharedStoreProofs`, on the lemmas of `RouteProofs`). Assumed besides:
where a configuration relies on tenants having different clusters or indices they do,
with no tenant's index among the passthrough indices (`KeepsApart`).

| theorem | says |
|---|---|
| `TypeCorrect`, `Isolated` | `Spec => []TypeOK`, `Spec => []TenantIsolation` |
| `StaysHome` | `Spec => WritesStayHome` |
| `Frozen` | `Spec => FrozenInCutover`, if a cutover names the tenant it is of |
| `DryRunsTell` | `Spec => []ExplainMatches` |
| `StoresHandedOn` | `Spec => []StoreInv(...)` for the same configuration with any tenant in any phase of a migration: `StoresAssumption` is what runs provide |

Isolation is not inductive: that no operation *has returned* a stranger's document
says nothing of what the next one will. `IInv` adds what the filter is for: every
stored entry carries its author's mark (in a shared index: its injected field and
an id built from its partition; elsewhere: a place only its tenant's forwards name),
and every open request holds a *scoped* plan, one whose operations name such places
only. The lemmas go through the code in its order: the operators on ids, documents
and routing; each forward builder yields a scoped plan (`WriteForwardScoped`, ...,
`MultiSearchForwardScoped`); `Dispatch`; `Resolve`; `Plan`. Then a scoped operation
of one tenant leaves every other tenant's entries alone, returns only its own, and
keeps the marks. `Frozen` adds that a plan under way for a tenant in cutover only
reads (`HeldInv`), and the others' plans touch only what is theirs; the tenant's documents
are there from the start (`Stores`). `ExplainMatches` is about two routes through the code
and one request, so `DryRunsTell` compares the two case by case (`DryRun`), and where both
go on shows of every operation that it has the decision reported (`DryRunShows`): its
filter (`SearchesFiltered`), its mark and id (it is scoped), and that it reads (`ReadsOnly`).

**The private stores** (`RefinementProofs`, on `SharedStoreProofs`).

| theorem | says |
|---|---|
| `ImplementsStore` | `Spec => ImplementsTenantStore` |

The filter is a translator, and the proof says so in four steps. On the way in, every
physical operation of a forward is the image (`OpOf`) of one operation the client asked
for, in its order: one lemma per forward builder (`WriteForwardAmounts`, ...,
`MultiSearchForwardAmounts`), put together by `PlanAmounts`. At rest, every entry is the
image of exactly one private document, because the marks of `IInv` tell whose it is and
the template can be undone (`Translated`, `EntryMaps`). In the clusters, whatever
outcome an operation has there, its counterpart has on the private store of its tenant,
and on no other (`EveryOutcomeMaps`). On the way back, what the clusters return is named
as the tenant names it (`ResultGood`, `NamesDistinct`; a count is the number of the
tenant's own documents, `SameCount`), and the response phase, which routes the request
anew, arrives at the same names (`AnswerMaps`). `RefInv` is `IInv` with `Translated` and,
of an open request, that it is still the one that was planned (`Opens`, `Running`).

It assumes, besides, that the missing value is neither a document nor a result
(`NoneIsNothing`), and three things that the code does not see to:

- no tenant's physical id is one a client may choose (`TemplatesApart`): otherwise
  an id is undone that was never constructed;
- what was there before was written under the same placements, by constructed ids and
  with the same routing (`FaithfulStores`);
- requests are *faithful* (`FaithfulRequests`): a tenant is taken out of the path only
  where responses need no reshaping and nothing else names a tenant (`path_reads` is the
  counterexample), and in a shared index path and body agree on a document's id (see the
  first observation of section 6) and a passthrough write carries no injected field.

TLC evaluates all three on the instance of `tenants`
(`MCSharedStore!InstancesAreFaithful`).

**Async writes** (`AsyncWriteProofs`, on `RouteProofs`).

| theorem | says |
|---|---|
| `TypeCorrect` | `Spec => []TypeOK` |
| `Durable` | `Spec => []AcceptedIsDurable` |
| `RefusalsHeld` | `Spec => []RefusalsQueueNothing` |
| `RecordsSay` | `Spec => []RecordIsTheWrite` |
| `RecordsCarry` | `Spec => []AcceptedCarriesTheWrite`, if nobody writes to a passthrough index (`NoWriteBypasses`) |
| `OrderHeld` | `Spec => OrderKept` |
| `DocumentsInOrder` | `Spec => PerDocumentOrder`, if every document is written in one form only (`FormsAgree`) |
| `ImplementsLog` | `Spec => ImplementsPromise` |
| `TenantsApart` | `Spec => []RecordsKeepTenantsApart`, if tenants are not told apart by their cluster alone (`RecordsTell`) |

The first five rest on `IInv`: every record in a queue, or that may still land there,
is of a write its client sent and the filter let go, with the record the filter's
effects amount to (`EntryInv`); a client that waits holds such a record, and one it was
told of is in the log (`ClientInv`); a refused write has none (`RefusedInv`). The
order needs the past: `LogInv` and `WaitInv` say that a record comes behind every
record its client had been promised when it sent it, in the same queue if they are of
one form and have a place in common (`OneQueue`: the path is the document's, a bulk's own,
or the one both clients spelled), and `ReplicaInv` that what the replica holds is from what was applied.

`ImplementsLog` adds to these (`OInv`) no further invariant: that no two records in flight,
in the queues or in both are of one send (`OneEntry`) makes what a record stands for
determine the record (`WritesDiffer`), so that each step that puts a record in, takes one
out or moves one does the same to its write (`WritesAdd`, `WritesDrop`); one lemma per
step says which step of `PromisedWrites` it is (`SendMaps`, `LandAwaitedMaps`, `LateMaps`,
`CloseMaps`, `ApplyMaps`). Of `Apply` there are two things to show: the consumer finds in
the record the places of the synchronous forward (`PlacesTold`, from the lemmas behind
`RecordsSay`), and what the write follows is ahead of it in its own queue and therefore
consumed (`Preceded`).

The extra assumptions are needed: `async_global`, `async_bulk_order` and
`async_tenants` are their counterexamples.

**The backends** (`ExtProcProofs`, `DynModuleProofs`, `OperatorProofs`, on
`BackendProofs`).

| theorem | of | says |
|---|---|---|
| `TypeCorrect` | both | `Spec => []TypeOK`; in the module, the exclusion of callbacks on a worker |
| `AnswersFit` | ext_proc | `Spec => []AnswersMatch` |
| `WritesHeld` | both | `Spec => StaleWritesHeld` |
| `CommitmentHeld` | module | `Spec => SplitOnlyByMove` |
| `Implements` | both | `Spec => ImplementsExchange` |
| `CountersAdd` | both | `Spec => []CountersTell` |
| `ScrapesAdd` | both | `Spec => []ScrapesTell` |
| `OrdersAgree` | both | `Spec => []DirectiveInForce` |
| `PromisesHeld` | both | `Spec => ExplainsGated` |
| `ProgressMade` | both | `Spec => StreamsProgress` |
| `TurnsAlternate` | ext_proc | `Spec => []TurnsTaken` |
| `WorkersFreed` | module | `Spec => []NobodyStuck` |

Of these, `Implements`, `CountersAdd`, `ScrapesAdd`, `OrdersAgree` and `PromisesHeld`
assume that `None` is not a verdict (`NoneIsNoVerdict`; the mapping tells by a missing
verdict that a request is undecided), and all but `Implements` itself that there are
finitely many streams, without which the counters count nothing. In the module these also
assume that `None` is not a record of epochs (`NoneIsNoEpoch`; by a missing one a stream
tells that its header phase has not looked up anything). `TurnsAlternate`
assumes that `None` is not a message (`NoneIsNoMessage`).

- *The write gate.* A cluster found for a tenant at an epoch is *fresh* as long as the
  epoch still holds, because `Flip` counts and nothing else changes a cluster
  (`MoveKeeps`); the router's answer is fresh (`LookIsFresh`); a forward is for the
  cluster of the answer it was made from (`VerdictForwards`); so a write the gate
  admits is for the placement of the moment (`GateHolds`). `Inv` carries the freshness
  over the await, which takes knowing that the request being decided is one the
  stream was opened for (`TenantNamed`, `MoveKeepsTenants`), and that takes the whole
  protocol of phases: a task works only while Envoy waits or is gone, and has kept the
  headers by then (`Pair`). `SplitOnlyByMove` also needs the freshness of the cluster
  committed at the header phase (`CommitInv`) and that the two agree at the gate if
  their epochs do.
- *One exchange.* Every step of a stream is a step of `Exchange` or none at all. Of
  ext_proc this needs more than `Inv`: a task has spoken only after the last phase it
  has to hear, the headers it kept and the body it reads are the request's (`Agree`),
  and what Envoy has been told to forward so far is what the task said (`Carries`). Of
  the module it needs `MapInv`: a stream has a verdict from its decision on, and a
  look-up only between its two awaits.
- *The counters.* There are two sets of streams, one behind each counter, each as large
  as the counter (`Books`, `Tally`); a stream is in at most one, gets in only in the
  step that counts it, and whoever was served or refused is in the right one. The sets
  exist in every reachable state; no variable holds them. In the module they are, together,
  the requests that were ended by `process` or `async_write` (`Settled`), and so the sum of
  the counters is known exactly (`TallyAdds`).
- *Scrapes.* Counters only grow (`Later`), so a reading lies between what was counted
  when the scrape began and what is counted now, however the two readings and the
  counts of others fall between each other (`Begun`, `Glanced`, `Scraped`).
- *Directives.* The flag is as it was at first, or somebody who may still have stored it
  has yet to read it, or somebody was told it (`Directed`): an order reads after its
  last store, in one step with its answer.
- *Dry runs* are the write gate again, for the request behind the prefix: its tenant is
  the request's own, or the default one when the tenant was in the path (`TargetNamed`).
- *Directives and dry runs of both backends* rest on the same lemmas about a reply on a
  reserved path (`GlancesBegin`, `GlancesEnd`, `PlaneReplies`, `ExplainReplies`,
  `PromisesGated` of `BackendProofs`); each backend adds that its streams hold such a
  reply and nothing else (`Operated`, `Begun`).
- *Progress.* The measure of a stream is a pair: the phases (in the module, the steps of
  the callbacks) ahead of it and, within one, the work ahead of whoever has the turn,
  which for a scrape or an order is what it has still to read or store (`GlancesAhead`).
  Every action lowers its stream's measure and touches no other's (`StepGoes`). That
  the measure is defined where it is used is `Coursing`: of a task and of the message it
  has, which phase of the request they belong to (`OnCourse`, `Answerable`, `Attended`).
- *Turns.* A message is on one side or the other: if Envoy waits, either its inbox holds
  an answer it can apply or the task has something to do. `TurnsAlternate` reads this off
  `Coursing`. In the module a callback that holds a worker is the one thing under way
  there (`TypeCorrect`), so whoever waits for the worker waits for that callback, which
  can go on or waits for the broker; that a request which waits for its body has one to
  come is `Buffered`.

**What the documentation claims, and when it is so.** Each claim that a run of section 4
refutes is a theorem under the condition its counterexample breaks. The claims and
conditions are in the `...Claims` modules.

| claim | refuted by | holds if | theorem |
|---|---|---|---|
| `ReadsAreLogical` | `path_reads` | requests are faithful: no tenant in the path where responses need reshaping (`FaithfulRequests`, `FaithfulStores`, `TemplatesApart`) | `RefinementProofs!ReadsInOwnTerms` |
| `ExplainNeverDisagrees` | `explain_disagrees` | the dry run sees all there is to a request: no tenant in the path, no passthrough index, no certificate missing (`DryRunsSeeAll`) | `RefinementProofs!DryRunsAgree` |
| `ExplicitIdsSuffice` | `bulk_explicit_ids` | every source of a bulk has an id of its own and no injected field, and nothing else speaks against the request (`BulksReady`) | `RefinementProofs!SourceIdsSuffice` |
| `AcceptedCarriesTheWrite` | `async_global` | nobody writes to a passthrough index (`NoWriteBypasses`) | `AsyncWriteProofs!RecordsCarry` |
| `ConsumerNeedsNoTenancy` | `async_tenants` | tenants differ in more than their cluster (`RecordsTell`) | `AsyncWriteProofs!TenantsApart` |
| `PerDocumentOrder` | `async_bulk_order` | no document is written both by a bulk and on its own, and past the tenancy each always under one path and query (`FormsAgree`) | `AsyncWriteProofs!DocumentsInOrder` |
| `RejectionsCounted` | `module_rejections` | no request has a body, but for the async writes (`NoBodies`) | `DynModuleProofs!RejectionsAdd` |
| `EpochGated` | `module_migration` | no move is completed (`NobodyMoves`), tenants may drain and be held | `DynModuleProofs!GatedUnlessMoved` |

The one of `EpochGated` is a theorem about behaviours, `Spec => (NobodyMoves => EpochGated)`; the others
assume their condition of the constants, and TLC finds requests in the instances that meet
it (`ClaimsFitSome`; of the requests of `module_rejections` one has a body and one has none). `ReadsAreLogical` is checked where it holds as well: `tenants`
meets its condition.

**Model-checked only**: liveness (`AcceptedHappens`, `StreamsEnd`,
`AnsweredUnlessBlocked`), which needs fairness and ENABLED and is out of the prover's
reach. What is left to TLC is less than it seems, though. `StreamsEnd` and
`AnsweredUnlessBlocked` follow from three facts: a stream that is not at its end has a
step to take, each step lowers a measure that cannot fall for ever, and an enabled step
is taken in the end. The second is `ProgressMade`. The first is `TurnsAlternate` and
`WorkersFreed`, in terms of `TasksTurn`, `EnvoysTurn` and `Ready`, which say in plain
predicates when an action of a stream is enabled: that they say it exactly (the invariants
`(ENABLED Works(s)) <=> TasksTurn(s) \/ EnvoysTurn(s)` and
`(ENABLED Works(s)) <=> Ready(s)`) TLC confirmed on the instances of `ext_proc` and
`dyn_module`. The third is the
fairness of section 4. There are no RECURSIVE operators in these modules.

## 6. Observations

Noticed while reading, and either modelled as they are or outside the models:

- a shared-index `PUT /i/_doc/7` with `"id": 8` in its body is stored as 8: the
  constructed id wins over the path's (`WriteForward`);
- a bulk or multi-get item's own `_index` is replaced by the placement's;
- replies to single-document writes and deletes are not reshaped, replies of
  passthrough reads are, and cluster-level requests are answered with an empty
  logical index;
- the record of an async write has no method: a consumer can only tell a deletion
  by the empty payload, and `_create` or `_update` becomes an index operation;
- a client that gives up while its produce is awaited leaves a durable record
  behind; its retry is a second one (`AsyncWrite!Cancel`, `LandLate`);
- the dynamic module builds its requests with no client identity (sdk.rs:329), so
  with the certificate policy on it refuses every mutation, and with
  certificate-keyed tenants it sees only `anonymous` (`BuildRequest`);
- a request with a body refused at the module's header phase is not counted; the
  ext_proc service counts the same request (`DynModule!RefusedAtHeaders`, `module_rejections`);
- the comment of `async_write` that an untransformed write keeps its query so that the key
  "is then consistent across isolation modes" (asyncwrite.rs:80) holds of routing only: a
  passthrough write keeps its verb and every other query parameter too, and the same
  document gets a key for each;
- ext_proc keeps the client's query string when the path is unchanged, the module
  always writes the path it was given;
- the comment of `route_headers` (evoxy-filter/src/lib.rs:205) says the shipped
  backends do not use it; the dynamic module does;
- `default_partition` has no effect with certificate-keyed tenants: the principal
  is never empty;
- `is_write` (evoxy-filter/src/lib.rs:271) classifies the path as it came, with the
  tenant still in it: where tenants are keyed by path, an async write to a document is
  taken for no write at all and answered 400 (asyncwrite.rs:72; `IsWriteRequest`);
- in the module, the dry run and the decision header believe the client certificate
  (`request_from_headers`, observe.rs:286), which the request itself loses in
  `build_request` (sdk.rs:315): with certificate-keyed tenants they speak of another
  tenant than the one the request is routed for;
- the decision header of a response is that of a new look-up, not of the decision the
  request was forwarded with (`DecisionHeader`);
- a document id is encoded again as it was written in the path, percent-escapes
  included (evoxy-route/src/encode.rs);
- the gate is asked before the request leaves, not when it arrives: a write let go
  just before a cutover may reach the old placement during it. Nothing in the code
  waits for writes in flight; `StaleWritesHeld` is about the moment of the decision.

## 7. Limits of the models

- The router that moves tenants (`Placements`) is what `evoxy-route/src/lib.rs`
  expects of one: `resolve` returns the placement with its epoch, `admit_write`
  refuses one that is in cutover or superseded. The reference tenancy never changes
  its placements, and its gate ignores the epoch.
- A template that is not injective (a `:` in a tenant's name with
  `{partition}:{id}`) is excluded by assumption.
- A request's path id and body id agree in the instances; an update item of a bulk
  and a document request without an id (other than a creation) are left out.
  Passthrough requests are of the supported kinds.
- The backends abstract what a shaped response contains to the decision that shapes
  it; `SharedStore` has the content. The ext_proc message that names no phase (it
  changes nothing, and Envoy sends none) is left out, and so is a body chunk before
  the last.
- Generated ids are drawn from `Ids`; `op_id` is not modelled.
- When Envoy chooses the route is taken from the code's comments, not from the code. In the
  module a cluster set at the body phase "lands after the route is chosen and is ignored"
  (sdk.rs:188-192), although `apply` sets it there again and drops the route cache
  (sdk.rs:381-384); `module_migration` rests on the comment. In ext_proc an answer names the
  decision's cluster, and whether Envoy re-routes on it with `clear_route_cache: false`
  (actions.rs:106-112) is left to Envoy: `StaleWritesHeld` and `ImplementsExchange` are
  about the decision and what is said of it.
- The cap on bodies is ext_proc's alone; the module has none, and nothing about it is
  claimed there.
- Not modelled: parsing (the configuration, certificates, trace ids, JSON), which is
  string work without state; byte mutations of headers; registration of the module
  (it builds the settings a run starts from); `evoxy-bench`, `xtask`, the site and the
  examples, which are no part of the request path.

## 8. Plan

Done: the core (`Tenancy`, `Route`, `Brain`), the store with its abstract
specification, async writes with theirs, the backends over moving placements with theirs,
the observe surface; proofs of every safety property of the passing runs, the four
refinements among them; and of every refuted claim, the condition under which it holds.

Left: the backends over the store, with a migration that copies documents while writes
are in flight, to make the last observation of section 6 a checked one.
