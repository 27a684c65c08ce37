----------------------------- MODULE MCDynModule -----------------------------
(* Two streams: the first is on one worker thread, the second on that worker   *)
(* too or on another.                                                         *)
EXTENDS DynModuleClaims, MCBackends
CONSTANTS s1, s2, w1, w2

MCConfigs   == {HeaderKeyed}
MCWorkersOf == s1 :> {w1} @@ s2 :> {w1, w2}

\* One stream carries any request; beside it a write is queued or a document lost,
\* the directive is set or the counters are asked for.
MCRequests ==
    s1 :> {PutDoc, Search, Delete, Global, Lost, Dry, Probe, Orders(<<FALSE>>),
           Queued(PutDoc)} @@
    s2 :> {Lost, Queued(Delete), Orders(<<TRUE, FALSE>>), Probe}

\* A migration under a single writing stream.
LoneRequests == [s \in {s1, s2} |-> IF s = s1 THEN {PutDoc, Delete} ELSE {}]

\* Requests that name no tenant, with a body and without one.
LostRequests == [s \in {s1, s2} |-> {Lost, Nobody}]
=============================================================================
