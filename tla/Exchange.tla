------------------------------ MODULE Exchange ------------------------------
(***************************************************************************)
(* What a backend promises of one request, whichever backend it is: the    *)
(* router is asked about the whole request, its gate after that, and what  *)
(* the two answers make of the request is the one thing that may reach an  *)
(* upstream, at most once and while somebody waits for it.  Otherwise the  *)
(* backend answers by itself.  ExtProc and DynModule implement this.       *)
(*                                                                         *)
(* The promise does not depend on what the router is, nor on how tenants   *)
(* move: its answers are constant operators of the placements (`cfg` and   *)
(* `epoch`) of the moment it is asked, and the placements may change to    *)
(* anything while a request runs, except in the step of a request.         *)
(***************************************************************************)
CONSTANTS
    None, Streams,
    Requests,            \* Requests[s]: what stream s may be opened for
    LookAt(_, _, _),     \* the router's answer, asked about a request
    AdmitsAt(_, _, _),   \* the gate's, asked about that answer
    Front(_, _),         \* what is decided without either
    Verdict(_, _, _, _)  \* what they make of a request
VARIABLES cfg, epoch, exchange

vars == <<cfg, epoch, exchange>>

Idle == [pc |-> "idle", x |-> None, looked |-> None, outcome |-> None,
         upstream |-> None, gone |-> FALSE]

Init == exchange = [s \in Streams |-> Idle]

Becomes(s, e) ==
    /\ exchange' = [exchange EXCEPT ![s] = e]
    /\ UNCHANGED <<cfg, epoch>>

Open(s, x) ==
    /\ exchange[s].pc = "idle"
    /\ Becomes(s, [Idle EXCEPT !.pc = "open", !.x = x])

Ask(s) ==
    LET e == exchange[s]
    IN  /\ e.pc = "open"
        /\ Becomes(s, [e EXCEPT !.pc = "looked", !.looked = LookAt(cfg, epoch, e.x.raw)])

Decided(s, outcome) ==
    Becomes(s, [exchange[s] EXCEPT !.pc = "decided", !.looked = None, !.outcome = outcome])

\* The gate is asked no earlier than this.
Decide(s) ==
    LET e == exchange[s]
    IN  /\ e.pc = "looked"
        /\ Decided(s, Verdict(cfg, e.x.raw, e.looked.r, AdmitsAt(cfg, epoch, e.looked)))

\* Passthrough needs no router.
PassThrough(s) ==
    LET outcome == Front(cfg, exchange[s].x.raw)
    IN  /\ exchange[s].pc = "open"
        /\ outcome = [to |-> "continue"]
        /\ Decided(s, outcome)

\* A reply of the backend's own: reserved paths, limits, early refusals.
Refuse(s) ==
    LET outcome == exchange'[s].outcome
    IN  /\ exchange[s].pc = "open" /\ exchange'[s].pc = "decided"
        /\ outcome.to = "local"
        /\ Decided(s, outcome)

Deliver(s) ==
    LET e == exchange[s]
    IN  /\ e.pc = "decided" /\ e.outcome.to # "local" /\ ~e.x.async
        /\ e.upstream = None /\ ~e.gone
        /\ Becomes(s, [e EXCEPT !.upstream = e.outcome])

\* The client has its answer, or gives up; work already begun goes on.
Leave(s) ==
    /\ exchange[s].pc # "idle" /\ ~exchange[s].gone
    /\ Becomes(s, [exchange[s] EXCEPT !.gone = TRUE])

Elsewhere == UNCHANGED exchange

Next ==
    \/ Elsewhere
    \/ \E s \in Streams :
         \/ \E x \in Requests[s] : Open(s, x)
         \/ Ask(s) \/ Decide(s) \/ PassThrough(s) \/ Refuse(s)
         \/ Deliver(s) \/ Leave(s)

Spec == Init /\ [][Next]_vars
=============================================================================
