------------------------- MODULE SharedStoreProofs -------------------------
(***************************************************************************)
(* Type correctness and tenant isolation of SharedStore, for every set of  *)
(* tenants, clients, configurations and requests.                          *)
(*                                                                         *)
(* Isolation alone is not inductive.  It rests on two facts about where    *)
(* things are: every operation a forwarded request carries stays at the    *)
(* home of its tenant (OpScoped), and so does every entry the clusters     *)
(* hold (EntryScoped).  A home is a place of one's own in a dedicated      *)
(* placement, and a share of a common place - own ids, own mark - in the   *)
(* shared index.                                                           *)
(***************************************************************************)
EXTENDS SharedStore, RouteProofs

IsSession(s) ==
    /\ DOMAIN s = {"pc", "req", "ctx", "tenant", "cluster", "ops", "asks",
                   "results", "reply"}
    /\ s = [f \in DOMAIN s |-> s[f]]

SessionInv(c, s) ==
    /\ IsSession(s)
    /\ s.pc \in {"idle", "upstream", "answered"}
    /\ s.pc = "upstream" => s.cluster \in Clusters
    /\ s.tenant \in Partitions \cup {None}
    /\ s.ops \in Seq(Operation)
    /\ \A i \in DOMAIN s.ops : OpScoped(c, s.tenant, s.cluster, s.ops[i])
    /\ s.results \in Seq(SUBSET Hit)
    /\ \A i \in DOMAIN s.results : \A h \in s.results[i] : h.author = s.tenant

\* The inductive invariant.
IInv ==
    /\ cfg \in Configs
    /\ StoreInv(cfg, store)
    /\ session = [c \in Clients |-> session[c]]
    /\ \A c \in Clients : SessionInv(cfg, session[c])

-----------------------------------------------------------------------------
(* Requests become sessions.                                                *)

\* An open request holds a scoped plan.
LEMMA OpenedScoped ==
    ASSUME NEW c \in Configs, NEW req \in Requests[c], <<c, req>> \in Accepted
    PROVE  SessionInv(c, Opened[<<c, req>>])
  <1> DEFINE x == <<c, req>>
             s == Opened[x]
  <1>1. x \in Pairs /\ Plans[x] = Plan(c, req) /\ Plan(c, req).to = "upstream"
    BY DEF Accepted, Plans
  <1>2. /\ TenantOf(c, req) \in Partitions \cup {None}
        /\ ScopedPlan(c, TenantOf(c, req), Plan(c, req))
    BY <1>1, PlanScoped, ConfigsAssumption, RequestsAssumption
       DEF ConfigsAssumption, RequestsAssumption
  <1>3. s = [pc |-> "upstream", req |-> req, ctx |-> Contexts[x],
             tenant |-> TenantOf(c, req), cluster |-> Plan(c, req).cluster,
             ops |-> Plan(c, req).ops, asks |-> Asks(c, req), results |-> <<>>,
             reply |-> NoReply]
    BY <1>1 DEF Opened, Idle
  <1>4. /\ IsSession(s)
        /\ s.pc = "upstream"
        /\ s.tenant = TenantOf(c, req)
        /\ s.cluster = Plan(c, req).cluster
        /\ s.ops = Plan(c, req).ops
        /\ s.results = <<>>
    <2> HIDE DEF s
    <2> QED
      BY <1>3 DEF IsSession
  <1>5. s.results \in Seq(SUBSET Hit) /\ DOMAIN s.results = {}
    BY <1>4
  <1>6. QED
    <2> HIDE DEF s
    <2>1. SessionInv(c, s)
      BY <1>2, <1>4, <1>5 DEF SessionInv, ScopedPlan
    <2>2. QED
      BY <2>1 DEF s

-----------------------------------------------------------------------------
(* One operation on the clusters.                                           *)

\* The entries an operation finds by id are its own tenant's.
LEMMA LocatedIsOwn ==
    ASSUME NEW c \in Configs, NEW t \in Partitions \cup {None},
           NEW cluster, NEW set, StoreInv(c, set),
           NEW op \in Operation, OpScoped(c, t, cluster, op),
           NEW id, op.id # None => id = op.id,
           Shares(c, t) => id = op.id,
           NEW e \in Located(set, cluster, op, id)
    PROVE  e.author = t
  <1>1. /\ e \in set /\ e.cluster = cluster /\ e.index = op.index /\ e.id = id
        /\ e \in Stored
    BY DEF Located, InIndex, StoreInv
  <1>2. e.author \in Partitions \cup {None} /\ e.id \in PhysIds
    BY <1>1 DEF Stored
  <1>3. Home(c, e.author, cluster, op.index) /\ Home(c, t, cluster, op.index)
    BY <1>1 DEF StoreInv, EntryScoped, OpScoped
  <1>4. CASE Shares(c, t) /\ Shares(c, e.author)
    <2>1. t \in Partitions /\ e.author \in Partitions
      BY <1>2, <1>4 DEF Shares
    <2>2. op.id # None /\ OwnId(t, op.id)
      BY <1>1, <1>2, <1>4, NonePhysical DEF OpScoped
    <2>3. OwnId(e.author, op.id)
      BY <1>1, <1>4 DEF StoreInv, EntryScoped
    <2>4. QED
      BY <2>1, <2>2, <2>3, TemplateInjective, ZenonT(60) DEF TemplateInjective, OwnId
  <1>5. QED
    BY <1>2, <1>3, <1>4, HomesApart, ConfigsAssumption DEF ConfigsAssumption

\* And so are the entries its filter lets through.
LEMMA MatchingIsOwn ==
    ASSUME NEW c \in Configs, NEW t \in Partitions \cup {None},
           NEW cluster, NEW set, StoreInv(c, set),
           NEW op \in Operation, OpScoped(c, t, cluster, op),
           op.op \in {"search", "count"},
           NEW e \in Matching(set, cluster, op)
    PROVE  e.author = t
  <1>1. /\ e \in set /\ e.cluster = cluster /\ e.index = op.index
        /\ op.filter # None => e.doc.tenant = op.filter
    BY DEF Matching, InIndex
  <1>2. e.author \in Partitions \cup {None}
    BY <1>1 DEF StoreInv, Stored
  <1>3. Home(c, e.author, cluster, op.index) /\ Home(c, t, cluster, op.index)
    BY <1>1 DEF StoreInv, EntryScoped, OpScoped
  <1>4. CASE Shares(c, t) /\ Shares(c, e.author)
    <2>1. op.filter = t /\ t # None
      BY <1>4 DEF OpScoped, Shares
    <2>2. e.doc.tenant = e.author
      BY <1>1, <1>4 DEF StoreInv, EntryScoped
    <2>3. QED
      BY <1>1, <2>1, <2>2
  <1>5. QED
    BY <1>2, <1>3, <1>4, HomesApart, ConfigsAssumption DEF ConfigsAssumption

\* What one outcome of an operation of tenant t has to be.
OutcomeInv(c, set, t, o) ==
    /\ StoreInv(c, o.store)
    /\ \A e \in set \ o.store : e.author = t
    /\ o.result \in SUBSET Hit
    /\ \A h \in o.result : h.author = t

\* What a cluster returns of an entry keeps its author.
LEMMA HitFacts ==
    ASSUME NEW e \in Stored
    PROVE  HitOf(e) \in Hit /\ HitOf(e).author = e.author
  BY DEF HitOf, Hit, Stored

\* A read that finds the tenant's entries alone is one the invariant allows.
LEMMA ReadOutcome ==
    ASSUME NEW c, NEW set, StoreInv(c, set), NEW t, NEW found \in SUBSET set,
           \A e \in found : e.author = t
    PROVE  OutcomeInv(c, set, t, Outcome(set, {HitOf(e) : e \in found}))
  <1> DEFINE o == Outcome(set, {HitOf(e) : e \in found})
  <1>1. o.store = set /\ o.result = {HitOf(e) : e \in found}
    BY DEF Outcome
  <1>2. \A e \in found : HitOf(e) \in Hit /\ HitOf(e).author = t
    BY HitFacts DEF StoreInv
  <1>3. QED
    BY <1>1, <1>2 DEF OutcomeInv

\* A scoped write leaves other tenants' entries and every mark as they are.
LEMMA WrittenOutcome ==
    ASSUME NEW c \in Configs, NEW t \in Partitions \cup {None},
           NEW cluster \in Clusters, NEW set, StoreInv(c, set),
           NEW op \in Operation, OpScoped(c, t, cluster, op),
           op.op \in {"index", "create"},
           NEW o \in Written(set, cluster, op, t)
    PROVE  OutcomeInv(c, set, t, o)
  <1>1. PICK id \in Landing(set, cluster, op) :
           o = Outcome((set \ Located(set, cluster, op, id))
                          \cup {Entry(cluster, op, id, t)}, {Ack(op, id, t)})
    BY DEF Written
  <1> DEFINE e == Entry(cluster, op, id, t)
             a == Ack(op, id, t)
             gone == Located(set, cluster, op, id)
  <1>2. /\ op.index \in Indices \cup {""} /\ op.id \in PhysIds \cup {None}
        /\ op.routing \in Partitions \cup {None} /\ op.doc \in Doc
    BY DEF Operation, OpScoped
  <1>3. /\ op.id # None => id = op.id
        /\ id \in PhysIds
    <2>1. Ids \subseteq PhysIds
      BY DEF PhysIds
    <2>2. CASE op.id # None
      BY <1>2, <2>2 DEF Landing
    <2>3. CASE op.id = None
      BY <2>1, <2>3 DEF Landing
    <2>4. QED
      BY <2>2, <2>3
  <1>4. Shares(c, t) => /\ op.id # None /\ id = op.id
                        /\ OwnId(t, id) /\ op.doc.tenant = t
    BY <1>3 DEF OpScoped
  <1>5. e \in Stored
    BY <1>2, <1>3 DEF Entry, Stored
  <1>6. /\ e.author = t /\ e.cluster = cluster /\ e.index = op.index
        /\ e.id = id /\ e.doc = op.doc
    BY DEF Entry
  <1>7. EntryScoped(c, e)
    <2> HIDE DEF e
    <2> QED
      BY <1>4, <1>6 DEF EntryScoped, OpScoped
  <1>8. a \in Hit /\ a.author = t
    BY <1>2, <1>3 DEF Ack, Hit
  <1>9. \A x \in gone : x.author = t
    BY <1>3, <1>4, LocatedIsOwn
  <1>10. o.store = (set \ gone) \cup {e} /\ o.result = {a}
    BY <1>1 DEF Outcome
  <1>11. StoreInv(c, o.store)
    <2> HIDE DEF e, gone, a
    <2> QED
      BY <1>5, <1>7, <1>10 DEF StoreInv
  <1>12. QED
    <2> HIDE DEF e, gone, a
    <2> QED
      BY <1>8, <1>9, <1>10, <1>11 DEF OutcomeInv

\* A scoped deletion leaves other tenants' entries and every mark as they are.
LEMMA DeletedOutcome ==
    ASSUME NEW c \in Configs, NEW t \in Partitions \cup {None},
           NEW cluster \in Clusters, NEW set, StoreInv(c, set),
           NEW op \in Operation, OpScoped(c, t, cluster, op),
           NEW o \in Deleted(set, cluster, op, t)
    PROVE  OutcomeInv(c, set, t, o)
  <1> DEFINE a == Ack(op, op.id, t)
             gone == Located(set, cluster, op, op.id)
  <1>1. o.store = set \ gone /\ o.result = {a}
    BY DEF Deleted, Outcome
  <1>2. a \in Hit /\ a.author = t
    <2>1. op.index \in Indices \cup {""} /\ op.id \in PhysIds \cup {None}
      BY DEF Operation
    <2>2. a = [index |-> op.index, id |-> op.id, doc |-> None, author |-> t]
      BY DEF Ack
    <2>3. QED
      <3> HIDE DEF a
      <3> QED
        BY <2>1, <2>2 DEF Hit
  <1>3. \A x \in gone : x.author = t
    BY LocatedIsOwn
  <1>4. QED
    <2> HIDE DEF gone, a
    <2> QED
      BY <1>1, <1>2, <1>3 DEF OutcomeInv, StoreInv

\* However an operation of tenant t ends, it neither returns nor removes
\* anything that is not t's.
LEMMA OutcomeScoped ==
    ASSUME NEW c \in Configs, NEW t \in Partitions \cup {None},
           NEW cluster \in Clusters, NEW set, StoreInv(c, set),
           NEW op \in Operation, OpScoped(c, t, cluster, op),
           NEW o \in Outcomes(set, cluster, op, t)
    PROVE  OutcomeInv(c, set, t, o)
  <1>1. op.op \in {"index", "create", "delete", "get", "search", "count"}
    BY DEF Operation
  <1>2. CASE o = Outcome(set, {})
    BY <1>2 DEF OutcomeInv, Outcome
  <1>3. CASE op.op \in {"index", "create"} /\ o # Outcome(set, {})
    <2>1. o \in Written(set, cluster, op, t)
      BY <1>3 DEF Outcomes
    <2>2. QED
      BY <1>3, <2>1, WrittenOutcome
  <1>4. CASE op.op = "delete" /\ o # Outcome(set, {})
    <2>1. o \in Deleted(set, cluster, op, t)
      BY <1>4 DEF Outcomes
    <2>2. QED
      BY <2>1, DeletedOutcome
  <1>5. CASE op.op = "get" /\ o # Outcome(set, {})
    <2> DEFINE found == Located(set, cluster, op, op.id)
    <2>1. o = Outcome(set, {HitOf(e) : e \in found})
      BY <1>5 DEF Outcomes
    <2>2. \A e \in found : e.author = t
      BY LocatedIsOwn
    <2>3. found \in SUBSET set
      BY DEF Located, InIndex
    <2>4. QED
      <3> HIDE DEF found
      <3> QED
        BY <2>1, <2>2, <2>3, ReadOutcome
  <1>6. CASE op.op \in {"search", "count"} /\ o # Outcome(set, {})
    <2> DEFINE found == Matching(set, cluster, op)
    <2>1. o = Outcome(set, {HitOf(e) : e \in found})
      BY <1>6 DEF Outcomes
    <2>2. \A e \in found : e.author = t
      BY <1>6, MatchingIsOwn
    <2>3. found \in SUBSET set
      BY DEF Matching, InIndex
    <2>4. QED
      <3> HIDE DEF found
      <3> QED
        BY <2>1, <2>2, <2>3, ReadOutcome
  <1>7. QED
    BY <1>1, <1>2, <1>3, <1>4, <1>5, <1>6

-----------------------------------------------------------------------------
(* The invariant and its preservation.                                      *)

\* A client without a request meets the invariant.
LEMMA IdleSession == ASSUME NEW c PROVE SessionInv(c, Idle)
  BY DEF SessionInv, IsSession, Idle

\* The invariant holds at the start.
LEMMA InvInit == Init => IInv
  <1> SUFFICES ASSUME Init PROVE IInv
    OBVIOUS
  <1>1. StoreInv(cfg, store)
    BY StoresAssumption DEF Init, StoresAssumption
  <1>2. QED
    BY <1>1, IdleSession DEF Init, IInv

\* A step of client c that leaves the clusters alone.
LEMMA SessionStep ==
    ASSUME IInv, NEW c \in Clients, NEW s, SessionInv(cfg, s),
           cfg' = cfg, store' = store, session' = [session EXCEPT ![c] = s]
    PROVE  IInv'
  <1>1. StoreInv(cfg', store')
    BY DEF IInv
  <1>2. /\ session' = [k \in Clients |-> session'[k]]
        /\ \A k \in Clients : session'[k] = IF k = c THEN s ELSE session[k]
    BY DEF IInv
  <1>3. \A k \in Clients : SessionInv(cfg', session'[k])
    BY <1>2 DEF IInv
  <1>4. QED
    BY <1>1, <1>2, <1>3 DEF IInv

\* A session stays scoped when it takes in a result of its own tenant's.
LEMMA ExtendedSession ==
    ASSUME NEW c, NEW t, SessionInv(c, t), NEW result \in SUBSET Hit,
           \A h \in result : h.author = t.tenant
    PROVE  SessionInv(c, [t EXCEPT !.results = Append(@, result)])
  <1> DEFINE s == [t EXCEPT !.results = Append(@, result)]
             more == Append(t.results, result)
  <1>1. IsSession(t) /\ t.results \in Seq(SUBSET Hit)
    BY DEF SessionInv
  <1>2. /\ IsSession(s)
        /\ s.pc = t.pc /\ s.tenant = t.tenant /\ s.cluster = t.cluster
        /\ s.ops = t.ops /\ s.results = more
    <2> HIDE DEF more
    <2>1. s = [t EXCEPT !.results = more]
      BY DEF more
    <2>2. IsSession(s)
      BY <1>1, <2>1 DEF IsSession
    <2>3. s.results = more
      BY <1>1, <2>1 DEF IsSession
    <2>4. s.pc = t.pc /\ s.tenant = t.tenant /\ s.cluster = t.cluster /\ s.ops = t.ops
      BY <1>1, <2>1 DEF IsSession
    <2>5. QED
      <3> HIDE DEF s
      <3> QED
        BY <2>2, <2>3, <2>4
  <1>3. /\ more \in Seq(SUBSET Hit)
        /\ DOMAIN more = 1..(Len(t.results) + 1)
        /\ \A i \in DOMAIN more : \/ i \in DOMAIN t.results /\ more[i] = t.results[i]
                                 \/ more[i] = result
    BY <1>1
  <1>4. \A i \in DOMAIN more : \A h \in more[i] : h.author = t.tenant
    BY <1>3 DEF SessionInv
  <1>5. QED
    <2> HIDE DEF s, more
    <2>1. SessionInv(c, s)
      BY <1>2, <1>3, <1>4 DEF SessionInv
    <2>2. QED
      BY <2>1 DEF s

\* So it does when it is answered: the reply is not part of the invariant.
LEMMA AnsweredSession ==
    ASSUME NEW c, NEW t, SessionInv(c, t), NEW req, NEW reply
    PROVE  SessionInv(c, [t EXCEPT !.pc = "answered", !.req = req, !.reply = reply])
  <1> DEFINE s == [t EXCEPT !.pc = "answered", !.req = req, !.reply = reply]
  <1>1. /\ IsSession(s)
        /\ s.pc = "answered" /\ s.tenant = t.tenant /\ s.cluster = t.cluster
        /\ s.ops = t.ops /\ s.results = t.results
    <2>1. IsSession(t)
      BY DEF SessionInv
    <2>2. IsSession(s)
      BY <2>1 DEF IsSession
    <2>3. s.pc = "answered" /\ s.tenant = t.tenant /\ s.cluster = t.cluster
      BY <2>1 DEF IsSession
    <2>4. s.ops = t.ops /\ s.results = t.results
      BY <2>1 DEF IsSession
    <2>5. QED
      <3> HIDE DEF s
      <3> QED
        BY <2>2, <2>3, <2>4
  <1>2. QED
    <2> HIDE DEF s
    <2>1. SessionInv(c, s)
      BY <1>1 DEF SessionInv
    <2>2. QED
      BY <2>1 DEF s

\* What a step of Execute does.
LEMMA ExecuteFacts ==
    ASSUME IInv, NEW c \in Clients, Execute(c)
    PROVE  \E o : /\ OutcomeInv(cfg, store, session[c].tenant, o)
                  /\ store' = o.store
                  /\ session' = [session EXCEPT ![c] =
                        [session[c] EXCEPT !.results = Append(@, o.result)]]
                  /\ cfg' = cfg
                  /\ session[c].pc = "upstream"
  <1> DEFINE s == session[c]
             next == Len(s.results) + 1
  <1>1. SessionInv(cfg, s) /\ StoreInv(cfg, store) /\ cfg \in Configs
    BY DEF IInv
  <1>2. s.pc = "upstream" /\ next <= Len(s.ops) /\ cfg' = cfg
    BY DEF Execute
  <1>3. PICK o \in Outcomes(store, s.cluster, s.ops[next], s.tenant) :
           /\ store' = o.store
           /\ session' = [session EXCEPT ![c].results = Append(@, o.result)]
    BY DEF Execute
  <1>4. s.results \in Seq(SUBSET Hit) /\ s.ops \in Seq(Operation)
    BY <1>1 DEF SessionInv
  <1>5. next \in DOMAIN s.ops /\ s.ops[next] \in Operation
    BY <1>2, <1>4
  <1>6. /\ s.cluster \in Clusters
        /\ s.tenant \in Partitions \cup {None}
        /\ OpScoped(cfg, s.tenant, s.cluster, s.ops[next])
    BY <1>1, <1>2, <1>5 DEF SessionInv
  <1>7. OutcomeInv(cfg, store, s.tenant, o)
    <2> HIDE DEF next, s
    <2> QED
      BY <1>1, <1>3, <1>5, <1>6, OutcomeScoped
  <1>8. QED
    BY <1>2, <1>3, <1>7

\* Every step keeps the invariant.
LEMMA InvNext == IInv /\ [Next]_vars => IInv'
  <1> SUFFICES ASSUME IInv, [Next]_vars PROVE IInv'
    OBVIOUS
  <1>1. ASSUME NEW c \in Clients, NEW req \in Requests[cfg], Forward(c, req)
        PROVE  IInv'
    <2>1. SessionInv(cfg, Opened[<<cfg, req>>])
      BY <1>1, OpenedScoped DEF Forward, IInv
    <2>2. QED
      BY <1>1, <2>1, SessionStep DEF Forward
  <1>2. ASSUME NEW c \in Clients, NEW req \in Requests[cfg], Reject(c, req)
        PROVE  IInv'
    BY <1>2, IdleSession, AnsweredSession, SessionStep DEF Reject
  <1>3. ASSUME NEW c \in Clients, Execute(c)
        PROVE  IInv'
    <2> DEFINE t == session[c]
    <2>1. PICK o : /\ OutcomeInv(cfg, store, t.tenant, o)
                   /\ store' = o.store
                   /\ session' = [session EXCEPT ![c] =
                         [t EXCEPT !.results = Append(@, o.result)]]
                   /\ cfg' = cfg
      BY <1>3, ExecuteFacts
    <2> DEFINE s == [t EXCEPT !.results = Append(@, o.result)]
    <2>2. SessionInv(cfg, t)
      BY DEF IInv
    <2>3. StoreInv(cfg', store')
      BY <2>1 DEF OutcomeInv
    <2>4. SessionInv(cfg, s)
      BY <2>1, <2>2, ExtendedSession DEF OutcomeInv
    <2>5. /\ session' = [k \in Clients |-> session'[k]]
          /\ \A k \in Clients : session'[k] = IF k = c THEN s ELSE session[k]
      BY <2>1 DEF IInv
    <2>6. \A k \in Clients : SessionInv(cfg', session'[k])
      <3> HIDE DEF s
      <3> QED
        BY <2>1, <2>4, <2>5 DEF IInv
    <2>7. QED
      BY <2>1, <2>3, <2>5, <2>6 DEF IInv
  <1>4. ASSUME NEW c \in Clients, Respond(c)
        PROVE  IInv'
    <2> DEFINE t == session[c]
               reply == Reply(FALSE, ReplyTo(cfg, t))
               s == [t EXCEPT !.pc = "answered", !.req = t.req, !.reply = reply]
    <2>1. SessionInv(cfg, t)
      BY DEF IInv
    <2>2. SessionInv(cfg, s)
      BY <2>1, AnsweredSession
    <2>3. s = [t EXCEPT !.pc = "answered", !.reply = reply]
      <3> HIDE DEF reply, t
      <3> QED
        BY <2>1 DEF SessionInv, IsSession
    <2>4. session' = [session EXCEPT ![c] = s]
      BY <1>4, <2>3 DEF Respond
    <2>5. QED
      <3> HIDE DEF s
      <3> QED
        BY <1>4, <2>2, <2>4, SessionStep DEF Respond
  <1>5. ASSUME NEW c \in Clients, Finish(c)
        PROVE  IInv'
    BY <1>5, IdleSession, SessionStep DEF Finish
  <1>6. CASE UNCHANGED vars
    BY <1>6 DEF IInv, vars
  <1>7. QED
    BY <1>1, <1>2, <1>3, <1>4, <1>5, <1>6 DEF Next

\* What the invariant says about a step of the system as a whole: it takes
\* away only entries of the tenant whose operation it runs.
LEMMA NextStaysHome ==
    ASSUME IInv, [Next]_vars, store' # store
    PROVE  \A e \in store \ store' :
              \E c \in Clients : session[c].pc = "upstream" /\ e.author = session[c].tenant
                                 /\ session'[c].results # session[c].results
  <1>1. PICK c \in Clients : Execute(c)
    BY DEF Next, vars, Forward, Reject, Respond, Finish
  <1>2. PICK o : /\ OutcomeInv(cfg, store, session[c].tenant, o)
                 /\ store' = o.store
                 /\ session' = [session EXCEPT ![c] =
                       [session[c] EXCEPT !.results = Append(@, o.result)]]
                 /\ session[c].pc = "upstream"
    BY <1>1, ExecuteFacts
  <1> DEFINE t == session[c]
  <1>3. SessionInv(cfg, t)
    BY DEF IInv
  <1>4. session'[c].results = Append(t.results, o.result)
    <2>1. session'[c] = [t EXCEPT !.results = Append(@, o.result)]
      BY <1>2 DEF IInv
    <2>2. QED
      BY <1>3, <2>1 DEF SessionInv, IsSession
  <1>5. Append(t.results, o.result) # t.results
    <2>1. t.results \in Seq(SUBSET Hit) /\ o.result \in SUBSET Hit
      BY <1>2, <1>3 DEF SessionInv, OutcomeInv
    <2>2. Len(Append(t.results, o.result)) = Len(t.results) + 1 /\ Len(t.results) \in Nat
      BY <2>1
    <2>3. QED
      BY <2>2
  <1>6. \A e \in store \ store' : e.author = t.tenant
    BY <1>2 DEF OutcomeInv
  <1>7. QED
    BY <1>2, <1>4, <1>5, <1>6

\* The invariant, in every behaviour.
LEMMA Inductive == Spec => []IInv
  BY InvInit, InvNext, PTL DEF Spec

-----------------------------------------------------------------------------
(* The theorems.                                                            *)

\* Whatever the tenants, placements and requests, the clusters hold and return
\* well-typed documents (the operations Execute runs, with Route's forwards).
THEOREM TypeCorrect == Spec => []TypeOK
  <1>1. IInv => TypeOK
    BY DEF IInv, StoreInv, SessionInv, TypeOK
  <1>2. QED
    BY <1>1, Inductive, PTL

\* Tenant isolation for every configuration that keeps placements apart: no
\* operation returns a document another tenant wrote (read.rs, bulk.rs and
\* demux.rs through PhysicalId and FilterOf).
THEOREM Isolated == Spec => []TenantIsolation
  <1>1. IInv => TenantIsolation
    BY DEF IInv, SessionInv, TenantIsolation
  <1>2. QED
    BY <1>1, Inductive, PTL

\* No request replaces or deletes another tenant's document, in any placement.
THEOREM StaysHome == Spec => WritesStayHome
  <1>1. IInv /\ [Next]_vars =>
           [\A e \in store \ store' :
               \E c \in Clients : session[c].pc = "upstream" /\ e.author = session[c].tenant
                                  /\ session'[c].results # session[c].results]_vars
    <2> SUFFICES ASSUME IInv, [Next]_vars
                 PROVE  \A e \in store \ store' :
                    \E c \in Clients :
                       session[c].pc = "upstream" /\ e.author = session[c].tenant
                       /\ session'[c].results # session[c].results
      OBVIOUS
    <2>1. CASE store' = store
      BY <2>1
    <2>2. CASE store' # store
      BY <2>2, NextStaysHome
    <2>3. QED
      BY <2>1, <2>2
  <1>2. QED
    BY <1>1, Inductive, PTL DEF Spec, WritesStayHome

\* What a run leaves, a run that begins with a tenant in any other phase may find
\* (StoresAssumption): where documents lie and whose mark they bear does not depend
\* on the migration (with_migration, reference.rs).
THEOREM StoresHandedOn ==
    ASSUME NEW m, NEW phase
    PROVE  Spec => []StoreInv([cfg EXCEPT !.migrating = m, !.phase = phase], store)
  <1>1. ASSUME IInv
        PROVE  StoreInv([cfg EXCEPT !.migrating = m, !.phase = phase], store)
    <2>1. PICK d : d = [cfg EXCEPT !.migrating = m, !.phase = phase]
      OBVIOUS
    <2>2. cfg \in Config
      BY <1>1, ConfigsAssumption DEF IInv, KeepsApart
    <2>3. /\ d.isolation = cfg.isolation /\ d.clusterBy = cfg.clusterBy
          /\ d.cluster = cfg.cluster /\ d.indexOf = cfg.indexOf
          /\ d.passthrough = cfg.passthrough
      BY <2>1, <2>2 DEF Config
    <2>4. \A e : EntryScoped(cfg, e) => EntryScoped(d, e)
      BY <2>3 DEF EntryScoped, Home, Shares, ClusterFor
    <2>5. QED
      BY <1>1, <2>1, <2>4 DEF IInv, StoreInv
  <1>2. QED
    BY <1>1, Inductive, PTL

\* A request that is open, or was answered, is one that was sent.
Sent(c, s) == s.pc # "idle" => s.req \in Requests[c]

\* Every step keeps it so (Forward and Reject open a request, no step changes it).
LEMMA SentNext ==
    ASSUME IInv, [Next]_vars, \A k \in Clients : Sent(cfg, session[k])
    PROVE  \A k \in Clients : Sent(cfg', session'[k])
  <1>1. /\ session = [x \in Clients |-> session[x]]
        /\ \A x \in Clients : IsSession(session[x])
    BY DEF IInv, SessionInv
  <1>2. ASSUME NEW k \in Clients, NEW s, cfg' = cfg, Sent(cfg, s),
               session' = [session EXCEPT ![k] = s]
        PROVE  \A x \in Clients : Sent(cfg', session'[x])
    BY <1>1, <1>2
  <1>3. ASSUME NEW k \in Clients, NEW req \in Requests[cfg], Forward(k, req)
        PROVE  \A x \in Clients : Sent(cfg', session'[x])
    <2>1. Opened[<<cfg, req>>].req = req
      BY <1>3 DEF Forward, Opened, Idle
    <2>2. Sent(cfg, Opened[<<cfg, req>>])
      BY <2>1 DEF Sent
    <2>3. QED
      BY <1>2, <1>3, <2>2 DEF Forward
  <1>4. ASSUME NEW k \in Clients, NEW req \in Requests[cfg], Reject(k, req)
        PROVE  \A x \in Clients : Sent(cfg', session'[x])
    <2>1. PICK s : s = [Idle EXCEPT !.pc = "answered", !.req = req,
                                    !.reply = Reply(TRUE, <<>>)]
      OBVIOUS
    <2>2. s.req = req
      BY <2>1 DEF Idle
    <2>3. Sent(cfg, s)
      BY <2>2 DEF Sent
    <2>4. QED
      BY <1>2, <1>4, <2>1, <2>3 DEF Reject
  <1>5. ASSUME NEW k \in Clients, Execute(k)
        PROVE  \A x \in Clients : Sent(cfg', session'[x])
    <2>1. PICK result, s : s = [session[k] EXCEPT !.results = Append(@, result)]
                           /\ session' = [session EXCEPT ![k].results = Append(@, result)]
      BY <1>5 DEF Execute
    <2>2. session' = [session EXCEPT ![k] = s]
      BY <2>1
    <2>3. s.req = session[k].req /\ session[k].pc = "upstream"
      BY <1>1, <1>5, <2>1 DEF IsSession, Execute
    <2>4. Sent(cfg, s)
      BY <2>3 DEF Sent
    <2>5. QED
      BY <1>2, <1>5, <2>2, <2>4 DEF Execute
  <1>6. ASSUME NEW k \in Clients, Respond(k)
        PROVE  \A x \in Clients : Sent(cfg', session'[x])
    <2>1. PICK s : s = [session[k] EXCEPT !.pc = "answered",
                                          !.reply = Reply(FALSE, ReplyTo(cfg, session[k]))]
      OBVIOUS
    <2>2. session' = [session EXCEPT ![k] = s]
      BY <1>6, <2>1 DEF Respond
    <2>3. s.req = session[k].req /\ session[k].pc = "upstream"
      BY <1>1, <1>6, <2>1 DEF IsSession, Respond
    <2>4. Sent(cfg, s)
      BY <2>3 DEF Sent
    <2>5. QED
      BY <1>2, <1>6, <2>2, <2>4 DEF Respond
  <1>7. ASSUME NEW k \in Clients, Finish(k)
        PROVE  \A x \in Clients : Sent(cfg', session'[x])
    <2>1. Sent(cfg, Idle)
      BY DEF Sent, Idle
    <2>2. QED
      BY <1>2, <1>7, <2>1 DEF Finish
  <1>8. CASE UNCHANGED vars
    BY <1>8 DEF vars
  <1>9. QED
    BY <1>3, <1>4, <1>5, <1>6, <1>7, <1>8 DEF Next

\* The decision a dry run reports is the one the operations are sent with (explain
\* and prepare, which resolve the same route).
LEMMA DryRunShows ==
    ASSUME NEW c, KeepsApart(c), NEW req, Sendable(c, req), c.source # "path",
           ~Bypasses(c, CtxOf(req)), Handle(c, req).to = "upstream",
           Explain(c, req).to = "route"
    PROVE  \A i \in DOMAIN Handle(c, req).ops :
               Shows(Explain(c, req).decision, TenantOf(c, req), Handle(c, req).ops[i])
  <1>1. PICK ctx, r :
          /\ ctx = CtxOf(RewriteForPath(c, req)) /\ r = Resolve(c, ctx) /\ r.ok
          /\ Explain(c, req) = [to |-> "route", decision |-> DecisionShape(r)]
          /\ ctx.kind \in SupportedKinds
          /\ IsWrite(ctx.kind) => Admitted(c, r)
          /\ ~Bypasses(c, ctx)
          /\ Handle(c, req) = Dispatch(r, ctx)
    BY DryRun DEF Immediate, RewriteFailed
  <1>2. WellFormed(ctx)
    BY <1>1 DEF Sendable
  <1>3. Plan(c, req) = Handle(c, req)
    BY DEF Plan
  <1>4. TenantOf(c, req) = r.partition
    BY <1>1 DEF TenantOf
  <1>5. Routed(c, r.partition, r)
    BY <1>1, <1>2, ResolveRouted
  <1>6. ScopedPlan(c, r.partition, Dispatch(r, ctx))
    BY <1>1, <1>3, <1>4, PlanScoped
  <1>7. ASSUME NEW i \in DOMAIN Dispatch(r, ctx).ops
        PROVE  Shows(DecisionShape(r), r.partition, Dispatch(r, ctx).ops[i])
    <2>1. PICK op : op = Dispatch(r, ctx).ops[i]
      OBVIOUS
    <2>2. OpScoped(c, r.partition, Dispatch(r, ctx).cluster, op)
      BY <1>6, <2>1 DEF ScopedPlan
    <2>3. op.op \in {"search", "count"} =>
             op.filter = IF r.inject THEN r.partition ELSE None
      BY <1>1, <1>2, <2>1, SearchesFiltered DEF FilterOf
    <2>4. r.phase = "cutover" => op.op \in {"get", "search", "count"}
      <3>1. r.phase = PhaseOf(c, r.partition)
        BY <1>1 DEF Resolve, Unresolved
      <3>2. r.phase = "cutover" => ~IsWrite(ctx.kind)
        BY <1>1, <3>1 DEF Admitted, AdmitWrite
      <3>3. QED
        BY <1>1, <2>1, <3>2, ReadsOnly DEF Reads
    <2>5. /\ DecisionShape(r).inject = r.inject
          /\ DecisionShape(r).idRule = r.idRule
          /\ DecisionShape(r).phase = r.phase
      BY DEF DecisionShape
    <2>6. r.inject /\ op.op \in {"index", "create"} => op.doc.tenant = r.partition
      BY <1>5, <2>2 DEF Routed, OpScoped
    <2>7. r.idRule /\ op.id # None => OwnId(r.partition, op.id)
      BY <1>5, <2>2 DEF Routed, OpScoped
    <2>8. Shows(DecisionShape(r), r.partition, op)
      BY <2>3, <2>4, <2>5, <2>6, <2>7, Zenon DEF Shows
    <2>9. QED
      BY <2>1, <2>8
  <1>8. QED
    BY <1>1, <1>4, <1>7

\* A dry run tells the truth, whoever asks and whatever is open (explain and prepare).
THEOREM DryRunsTell == Spec => []ExplainMatches
  <1> DEFINE AllSent == \A k \in Clients : Sent(cfg, session[k])
  <1>1. Init => AllSent
    BY DEF Init, Sent, Idle
  <1>2. IInv /\ AllSent /\ [Next]_vars => AllSent'
    BY SentNext
  <1>3. ASSUME IInv, AllSent
        PROVE  ExplainMatches
    <2> SUFFICES ASSUME NEW c \in Clients, NEW req, req = session[c].req,
                        session[c].pc # "idle", cfg.source # "path"
                 PROVE  \/ Bypasses(cfg, CtxOf(req))
                        \/ Handle(cfg, req) = Immediate(403, "mtls_required_for_mutation")
                        \/ /\ Explain(cfg, req).to = "local"
                           /\ Handle(cfg, req) = Explain(cfg, req)
                        \/ /\ Explain(cfg, req).to = "route"
                           /\ \/ Handle(cfg, req) = RewriteFailed
                              \/ /\ Handle(cfg, req).to = "upstream"
                                 /\ \A i \in DOMAIN Handle(cfg, req).ops :
                                       Shows(Explain(cfg, req).decision,
                                             TenantOf(cfg, req), Handle(cfg, req).ops[i])
      BY Zenon DEF ExplainMatches
    <2>1. KeepsApart(cfg) /\ Sendable(cfg, req)
      BY <1>3, ConfigsAssumption, RequestsAssumption DEF IInv, Sent
    <2>2. \/ Bypasses(cfg, CtxOf(req))
          \/ Handle(cfg, req) = Immediate(403, "mtls_required_for_mutation")
          \/ /\ Explain(cfg, req).to = "local"
             /\ Handle(cfg, req) = Explain(cfg, req)
          \/ /\ Explain(cfg, req).to = "route"
             /\ \/ Handle(cfg, req) = RewriteFailed
                \/ Handle(cfg, req).to = "upstream"
      BY DryRun
    <2>3. QED
      BY <2>1, <2>2, DryRunShows, Zenon
  <1>4. QED
    BY <1>1, <1>2, <1>3, Inductive, PTL DEF Spec

-----------------------------------------------------------------------------
(***************************************************************************)
(* Cutover.  That the documents of a tenant in cutover stand still rests   *)
(* on no request of its being open that does more than read; what another  *)
(* tenant's operation touches is that tenant's.                            *)
(***************************************************************************)
Held(c, s) ==
    s.pc = "upstream" /\ c.phase = "cutover" /\ s.tenant = c.migrating =>
        \A i \in DOMAIN s.ops : s.ops[i].op \in Reads

HeldInv == \A c \in Clients : Held(cfg, session[c])

\* A session that is not open any more, or was not touched, holds nothing back.
LEMMA HeldSession ==
    ASSUME IInv, HeldInv, NEW c \in Clients, NEW s, Held(cfg, s),
           cfg' = cfg, session' = [session EXCEPT ![c] = s]
    PROVE  HeldInv'
  <1>1. \A k \in Clients : session'[k] = IF k = c THEN s ELSE session[k]
    BY DEF IInv
  <1>2. QED
    BY <1>1 DEF HeldInv

\* No step opens a request of a tenant in cutover that does more than read.
LEMMA HeldNext ==
    ASSUME \A c \in Configs : c.phase = "cutover" => c.migrating # None,
           IInv, HeldInv, [Next]_vars
    PROVE  HeldInv'
  <1>0. cfg \in Configs /\ \A c \in Clients : IsSession(session[c])
    BY DEF IInv, SessionInv
  <1>1. ASSUME NEW c \in Clients, NEW req \in Requests[cfg], Forward(c, req)
        PROVE  HeldInv'
    <2>1. PICK x, s : x = <<cfg, req>> /\ s = Opened[x]
      OBVIOUS
    <2>2. x \in Pairs /\ Plans[x] = Plan(cfg, req) /\ Plan(cfg, req).to = "upstream"
          /\ x \in Accepted
      BY <1>1, <2>1 DEF Forward, Accepted, Plans
    <2>3. s.tenant = TenantOf(cfg, req) /\ s.ops = Plan(cfg, req).ops
      BY <2>1, <2>2 DEF Opened, Idle
    <2>4. Held(cfg, s)
      BY <1>0, <2>2, <2>3, PlanHeld DEF Held
    <2>5. QED
      BY <1>1, <2>1, <2>4, HeldSession DEF Forward
  <1>2. ASSUME NEW c \in Clients, NEW req \in Requests[cfg], Reject(c, req)
        PROVE  HeldInv'
    <2>1. PICK s : s = [Idle EXCEPT !.pc = "answered", !.req = req,
                                    !.reply = Reply(TRUE, <<>>)]
      OBVIOUS
    <2>2. s.pc = "answered"
      BY <2>1 DEF Idle
    <2>3. Held(cfg, s)
      BY <2>2 DEF Held
    <2>4. QED
      BY <1>2, <2>1, <2>3, HeldSession DEF Reject
  <1>3. ASSUME NEW c \in Clients, Execute(c)
        PROVE  HeldInv'
    <2>1. PICK o : session' = [session EXCEPT ![c].results = Append(@, o.result)]
      BY <1>3 DEF Execute
    <2>2. PICK s : s = [session[c] EXCEPT !.results = Append(@, o.result)]
      OBVIOUS
    <2>3. s.pc = session[c].pc /\ s.tenant = session[c].tenant /\ s.ops = session[c].ops
      BY <1>0, <2>2 DEF IsSession
    <2>4. Held(cfg, s)
      BY <2>3 DEF HeldInv, Held
    <2>5. QED
      BY <1>3, <2>1, <2>2, <2>4, HeldSession DEF Execute
  <1>4. ASSUME NEW c \in Clients, Respond(c)
        PROVE  HeldInv'
    <2>1. PICK s : s = [session[c] EXCEPT !.pc = "answered",
                                          !.reply = Reply(FALSE, ReplyTo(cfg, session[c]))]
      OBVIOUS
    <2>2. s.pc = "answered"
      BY <1>0, <2>1 DEF IsSession
    <2>3. Held(cfg, s)
      BY <2>2 DEF Held
    <2>4. QED
      BY <1>4, <2>1, <2>3, HeldSession DEF Respond
  <1>5. ASSUME NEW c \in Clients, Finish(c)
        PROVE  HeldInv'
    <2>1. Held(cfg, Idle)
      BY DEF Held, Idle
    <2>2. QED
      BY <1>5, <2>1, HeldSession DEF Finish
  <1>6. CASE UNCHANGED vars
    BY <1>6 DEF HeldInv, vars
  <1>7. QED
    BY <1>1, <1>2, <1>3, <1>4, <1>5, <1>6 DEF Next

\* An operation adds only entries of its tenant, and a read changes nothing.
LEMMA OutcomeAuthors ==
    ASSUME NEW set, NEW cluster, NEW op, NEW t, NEW o \in Outcomes(set, cluster, op, t)
    PROVE  /\ \A e \in o.store \ set : e.author = t
           /\ op.op \in Reads => o.store = set
  <1>1. CASE o.store = set
    BY <1>1
  <1>2. CASE op.op \in {"index", "create"} /\ o \in Written(set, cluster, op, t)
    <2>1. PICK i : o.store = (set \ Located(set, cluster, op, i)) \cup {Entry(cluster, op, i, t)}
      BY <1>2 DEF Written, Outcome
    <2>2. QED
      BY <1>2, <2>1 DEF Entry, Reads
  <1>3. CASE op.op = "delete" /\ o \in Deleted(set, cluster, op, t)
    <2>1. o.store = set \ Located(set, cluster, op, op.id)
      BY <1>3 DEF Deleted, Outcome
    <2>2. QED
      BY <1>3, <2>1 DEF Reads
  <1>4. QED
    BY <1>1, <1>2, <1>3 DEF Outcomes, Outcome

\* While a tenant is in cutover its documents stand still, whatever the others do
\* (the write gate of prepare).
THEOREM Frozen ==
    ASSUME \A c \in Configs : c.phase = "cutover" => c.migrating # None
    PROVE  Spec => FrozenInCutover
  <1>1. Init => HeldInv
    BY DEF Init, HeldInv, Held, Idle
  <1>2. IInv /\ HeldInv /\ [Next]_vars => HeldInv'
    BY HeldNext
  <1>3. ASSUME IInv, HeldInv, [Next]_vars, cfg.phase = "cutover"
        PROVE  {e \in store : e.author = cfg.migrating}
                  = {e \in store' : e.author = cfg.migrating}
    <2>1. CASE store' = store
      BY <2>1
    <2>2. CASE store' # store
      <3>1. PICK c \in Clients : Execute(c)
        BY <1>3, <2>2 DEF Next, vars, Forward, Reject, Respond, Finish
      <3>2. PICK next, o : /\ next = Len(session[c].results) + 1
                           /\ o \in Outcomes(store, session[c].cluster,
                                             session[c].ops[next], session[c].tenant)
                           /\ store' = o.store
        BY <3>1 DEF Execute
      <3>3. /\ \A e \in store' \ store : e.author = session[c].tenant
            /\ session[c].ops[next].op \in Reads => store' = store
        BY <3>2, OutcomeAuthors
      <3>4. session[c].tenant # cfg.migrating
        <4>1. session[c].pc = "upstream" /\ next <= Len(session[c].ops)
          BY <3>1, <3>2 DEF Execute
        <4>2. session[c].results \in Seq(SUBSET Hit) /\ session[c].ops \in Seq(Operation)
          BY <1>3 DEF IInv, SessionInv
        <4>3. next \in DOMAIN session[c].ops
          BY <3>2, <4>1, <4>2
        <4>4. QED
          BY <1>3, <2>2, <3>3, <4>1, <4>3 DEF HeldInv, Held
      <3>5. \A e \in store \ store' : e.author = session[c].tenant
        <4>1. PICK u : OutcomeInv(cfg, store, session[c].tenant, u) /\ store' = u.store
          BY <1>3, <3>1, ExecuteFacts
        <4>2. QED
          BY <4>1 DEF OutcomeInv
      <3>6. QED
        BY <3>3, <3>4, <3>5
    <2>3. QED
      BY <2>1, <2>2
  <1>4. IInv /\ HeldInv /\ [Next]_vars =>
            [cfg.phase = "cutover" =>
                {e \in store : e.author = cfg.migrating}
                   = {e \in store' : e.author = cfg.migrating}]_vars
    BY <1>3
  <1>5. QED
    BY <1>1, <1>2, <1>4, Inductive, PTL DEF Spec, FrozenInCutover
=============================================================================
