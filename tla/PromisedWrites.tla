--------------------------- MODULE PromisedWrites ---------------------------
(***************************************************************************)
(* What an asynchronous write is promised.  A client sends a write and     *)
(* stops waiting; the write is taken exactly when the synchronous path     *)
(* would have let it go and there is somewhere to put it.  What was taken  *)
(* is stored at most once, or lost without anyone having been told         *)
(* otherwise; it is accepted only once it is stored; what is stored is     *)
(* applied at most once, to the places the write itself is to, and never   *)
(* ahead of a write of the same form that its client knew to be accepted.  *)
(* AsyncWrite implements this.                                             *)
(***************************************************************************)
EXTENDS Naturals
CONSTANTS
    Clients,
    Requests,            \* Requests[c]: what clients may send under c
    LetsGo(_, _, _),     \* whether a request is taken, with a sink or without
    Touches(_, _),       \* the places a write is to
    Form(_, _)           \* its form: writes of one form keep their order
VARIABLES
    cfg, sink,           \* the deployment
    sent,                \* sent[c]: how many requests c has sent
    pending,             \* writes that were taken and may yet be stored
    stored, applied,     \* writes that were stored, and applied
    accepted,            \* accepted[c]: the ones c was told are accepted
    replica              \* the last write to each place

vars == <<cfg, sink, sent, pending, stored, applied, accepted, replica>>

Init ==
    /\ sent = [c \in Clients |-> 0]
    /\ pending = {} /\ stored = {} /\ applied = {} /\ replica = {}
    /\ accepted = [c \in Clients |-> {}]

Send(c, req) ==
    LET write == [client |-> c, n |-> sent[c] + 1, req |-> req, after |-> accepted[c]]
    IN  /\ sent' = [sent EXCEPT ![c] = @ + 1]
        /\ pending' = IF LetsGo(cfg, sink, req) THEN pending \cup {write} ELSE pending
        /\ UNCHANGED <<cfg, sink, stored, applied, accepted, replica>>

Store(write) ==
    /\ write \in pending
    /\ pending' = pending \ {write}
    /\ stored' = stored \cup {write}
    /\ UNCHANGED <<cfg, sink, sent, applied, accepted, replica>>

Lose(write) ==
    /\ write \in pending
    /\ pending' = pending \ {write}
    /\ UNCHANGED <<cfg, sink, sent, stored, applied, accepted, replica>>

Accept(write) ==
    /\ write \in stored
    /\ accepted' = [accepted EXCEPT ![write.client] = @ \cup {write.n}]
    /\ UNCHANGED <<cfg, sink, sent, pending, stored, applied, replica>>

\* A write that this one's client knew to be accepted when it sent this one, of the
\* same form and with a place in common.
Follows(write, earlier) ==
    /\ earlier.client = write.client /\ earlier.n \in write.after
    /\ Form(cfg, earlier.req) = Form(cfg, write.req)
    /\ Touches(cfg, earlier.req) \cap Touches(cfg, write.req) # {}

Apply(write) ==
    LET places == Touches(cfg, write.req)
    IN  /\ write \in stored \ applied
        /\ \A earlier \in stored : Follows(write, earlier) => earlier \in applied
        /\ applied' = applied \cup {write}
        /\ replica' = {x \in replica : x.place \notin places}
                      \cup {[place |-> p, write |-> write] : p \in places}
        /\ UNCHANGED <<cfg, sink, sent, pending, stored, accepted>>

Next ==
    \/ \E c \in Clients : \E req \in Requests[cfg] : Send(c, req)
    \/ \E write \in pending : Store(write) \/ Lose(write)
    \/ \E write \in stored : Accept(write) \/ Apply(write)

Spec == Init /\ [][Next]_vars
=============================================================================
