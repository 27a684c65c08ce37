---------------------------- MODULE TenantStore ----------------------------
(***************************************************************************)
(* What evoxy promises a client: an OpenSearch of its own.  Every tenant   *)
(* has a private set of documents, in one or several spaces, under ids it  *)
(* chose itself; a request asks for operations on that set alone, they run *)
(* one at a time, each may be refused by the engine without effect, and    *)
(* the reply is exactly what they returned.  Module SharedStore, where all *)
(* tenants live in the same physical store behind the filter, is shown to  *)
(* implement this one.                                                     *)
(***************************************************************************)
EXTENDS Naturals, Sequences, FiniteSets
CONSTANTS
    Clients,
    Tenants,
    Ids,
    None,
    Spaces,       \* the parts a tenant's documents may be kept in
    Names,        \* what clients call them
    Docs

VARIABLES
    docs,         \* docs[t]: the documents [space, id, doc] of tenant t
    calls         \* calls[c]: the request client c has open

vars == <<docs, calls>>

\* An operation on a tenant's documents: `index` is what the client calls the
\* space, id None asks for a generated id.
Ask == [op    : {"index", "create", "delete", "get", "search", "count"},
        space : Spaces, index : Names, id : Ids \cup {None},
        doc   : Docs \cup {None}]

Document == [space : Spaces, id : Ids, doc : Docs]

NoReply == [refused |-> FALSE, results |-> <<>>]
Idle == [pc |-> "idle", tenant |-> None, asks |-> <<>>, results |-> <<>>,
         reply |-> NoReply]

\* Every tenant has what it had.
Init ==
    /\ docs \in [Tenants -> SUBSET Document]
    /\ calls = [c \in Clients |-> Idle]

-----------------------------------------------------------------------------
(* What one operation may do to a set of documents, and return.  Any        *)
(* operation may also fail and leave the documents alone.                   *)

At(set, space, id) == {d \in set : d.space = space /\ d.id = id}
InSpace(set, space) == {d \in set : d.space = space}

\* The ids a write may land on: its own, or one not taken yet.
Landing(set, a) ==
    IF a.id # None THEN {a.id}
    ELSE {i \in Ids : At(set, a.space, i) = {}}

\* A hit is [index, id, doc]; the answer to a write carries no document.
View(set, a) == {[index |-> a.index, id |-> d.id, doc |-> d.doc] : d \in set}
Named(a, id) == {[index |-> a.index, id |-> id, doc |-> None]}

Outcome(set, result) == [docs |-> set, result |-> result]

Written(set, a) ==
    {Outcome((set \ At(set, a.space, i))
                \cup {[space |-> a.space, id |-> i, doc |-> a.doc]},
             Named(a, i)) :
        i \in {j \in Landing(set, a) :
                 a.op = "create" => At(set, a.space, j) = {}}}

Deleted(set, a) ==
    {Outcome(set \ At(set, a.space, a.id), Named(a, a.id))}

Outcomes(set, a) ==
    {Outcome(set, {})} \cup
    CASE a.op \in {"index", "create"} -> Written(set, a)
      [] a.op = "delete"              -> Deleted(set, a)
      [] a.op = "get"                 -> {Outcome(set, View(At(set, a.space, a.id), a))}
      [] OTHER                        -> {Outcome(set, View(InSpace(set, a.space), a))}

-----------------------------------------------------------------------------
Call(c) ==
    /\ calls[c].pc = "idle"
    /\ calls'[c].tenant \in Tenants
    /\ calls'[c].asks \in Seq(Ask)
    /\ calls' = [calls EXCEPT ![c] =
           [Idle EXCEPT !.pc = "running", !.tenant = calls'[c].tenant,
                        !.asks = calls'[c].asks]]
    /\ UNCHANGED docs

Refuse(c) ==
    /\ calls[c].pc = "idle"
    /\ calls' = [calls EXCEPT ![c] =
           [Idle EXCEPT !.pc = "answered", !.reply = [NoReply EXCEPT !.refused = TRUE]]]
    /\ UNCHANGED docs

Step(c) ==
    LET call == calls[c]
        next == Len(call.results) + 1
    IN  /\ call.pc = "running"
        /\ next <= Len(call.asks)
        /\ \E o \in Outcomes(docs[call.tenant], call.asks[next]) :
             /\ docs'  = [docs EXCEPT ![call.tenant] = o.docs]
             /\ calls' = [calls EXCEPT ![c].results = Append(@, o.result)]

\* A count answers with a number, everything else with what it found.
Answer(asks, results) ==
    [i \in DOMAIN results |->
        IF asks[i].op = "count" THEN Cardinality(results[i]) ELSE results[i]]

Return(c) ==
    LET call == calls[c]
    IN  /\ call.pc = "running"
        /\ Len(call.results) = Len(call.asks)
        /\ calls' = [calls EXCEPT ![c].pc = "answered",
                                  ![c].reply.results = Answer(call.asks, call.results)]
        /\ UNCHANGED docs

\* The client takes the reply, or stops waiting with operations left undone.
Finish(c) ==
    /\ calls[c].pc # "idle"
    /\ calls' = [calls EXCEPT ![c] = Idle]
    /\ UNCHANGED docs

Next == \E c \in Clients :
    Call(c) \/ Refuse(c) \/ Step(c) \/ Return(c) \/ Finish(c)

Spec == Init /\ [][Next]_vars
=============================================================================
