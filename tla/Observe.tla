------------------------------- MODULE Observe -------------------------------
(***************************************************************************)
(* The observe surface both backends share, crates/evoxy-filter/src/       *)
(* observe.rs: two counters and one directive, kept for the life of the    *)
(* process, and the reserved paths that read and set them.  They are       *)
(* relaxed atomics under no lock, so a reply is put together in steps, and *)
(* requests on other threads go on in between.                             *)
(***************************************************************************)
EXTENDS Placements
CONSTANTS
    AdminToken,   \* ObserveConfig: the token of the directive plane, or None
    EmitAtStart   \* ObserveConfig: whether the decision header is on at first

ASSUME EmitAssumption == EmitAtStart \in BOOLEAN

VARIABLES
    metrics,      \* Metrics: how many requests were routed, how many rejected
    emit          \* Directives: whether the decision header is emitted

observed == <<metrics, emit>>

Counters == {"routed", "rejected"}

ObserveInit ==
    /\ metrics = [c \in Counters |-> 0]
    /\ emit = EmitAtStart

Count(counter) == metrics' = [metrics EXCEPT ![counter] = @ + 1]
Uncounted      == UNCHANGED metrics

-----------------------------------------------------------------------------
(* reserved_reply.  A request to the directive plane carries a token and    *)
(* the orders of its query, in their order.                                 *)

MetricsPath   == <<"_evoxy", "metrics">>
AdminPath     == <<"_evoxy", "admin", "directives">>
Explains(path) == Len(path) > 2 /\ SubSeq(path, 1, 2) = <<"_evoxy", "explain">>

Reserved(path) == path \in {MetricsPath, AdminPath} \/ Explains(path)

Authorized(x) == AdminToken # None /\ x.token = AdminToken

\* The request an explanation is about: the same, for the path behind the prefix.
Target(x) == [x.raw EXCEPT !.path = SubSeq(x.raw.path, 3, Len(x.raw.path)), !.body = None]

\* What a reply has found out before it has looked at anything: counters read,
\* orders to be carried out, the router's answer.
Unseen(x) ==
    CASE x.raw.path = MetricsPath -> [c \in Counters |-> None]
      [] x.raw.path = AdminPath   -> IF Authorized(x) THEN x.orders ELSE <<>>
      [] OTHER                    -> None

\* What it may have found out after one more step, its last step excepted; the
\* compiler and the processor may swap the two relaxed loads.
Glances(x, seen) ==
    CASE x.raw.path = MetricsPath ->
             IF seen = Unseen(x) THEN {[seen EXCEPT ![c] = metrics[c]] : c \in Counters}
                                 ELSE {}
      [] x.raw.path = AdminPath   -> IF seen = <<>> THEN {} ELSE {Tail(seen)}
      [] OTHER                    ->
             IF seen = None /\ x.raw.method \in Methods
             THEN {LookUp(CtxOf(Target(x)))} ELSE {}

\* How many such steps there may still be.
GlancesAhead(x, seen) ==
    IF x.raw.path = AdminPath THEN Len(seen) ELSE IF seen = Unseen(x) THEN 1 ELSE 0

\* apply_query stores one order after the other.
Obeys(x, seen) ==
    emit' = IF x.raw.path = AdminPath /\ seen # <<>> THEN Head(seen) ELSE emit

\* The gate of an explanation is asked after the router.
Explanation(x, looked) ==
    IF x.raw.method \notin Methods THEN BadMethod
    ELSE ExplainRoute(looked.r, Admits(looked), CtxOf(Target(x)).kind)

\* Mutant: an old snapshot is served.
SnapshotStale(seen) == [c \in Counters |-> 0]

\* snapshot_json, for the metrics: what is missing is read now.
Snapshot(seen) == [c \in Counters |-> OrElse(seen[c], metrics[c])]

\* Mutant: an order is confirmed as it was given.
AdminReplyEchoing(x) ==
    IF ~Authorized(x) THEN Immediate(403, "unauthorized")
    ELSE Immediate(200, IF x.orders = <<>> THEN emit ELSE x.orders[1])

\* The directive is read again, whatever was ordered.
AdminReply(x) ==
    IF Authorized(x) THEN Immediate(200, emit) ELSE Immediate(403, "unauthorized")

\* The last step reads what is missing and answers.
Reply(x, seen) ==
    CASE x.raw.path = MetricsPath -> Immediate(200, Snapshot(seen))
      [] x.raw.path = AdminPath   -> AdminReply(x)
      [] OTHER                    -> Immediate(200, Explanation(x, seen))

-----------------------------------------------------------------------------
(* What the replies of a backend should say together.  `served` and         *)
(* `refused` are how many clients had their request forwarded or accepted,  *)
(* and refused, when the scrape began.                                      *)

ScrapeTells(scrape, served, refused, asked) ==
    /\ served <= scrape["routed"]
    /\ refused <= scrape["rejected"]
    /\ scrape["routed"] + scrape["rejected"] <= asked

InForce(told) == IF told = {} THEN emit = EmitAtStart ELSE emit \in told
=============================================================================
