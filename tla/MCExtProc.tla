------------------------------ MODULE MCExtProc ------------------------------
(* Two streams over the ext_proc backend. *)
EXTENDS ExtProc, MCBackends
CONSTANTS s1, s2

MCConfigs == {SharedKeyed}

\* One stream carries any request, beside a queued deletion or an operator.
MCRequests == s2 :> {Queued(Delete), Orders(<<FALSE>>)} @@ s1 :>
    {Search, Delete, Alien, Global, Probe, Dry, Lost, Queued(PutDoc), Queued(Search),
     [PutDoc EXCEPT !.trailers = TRUE], [PutDoc EXCEPT !.big = TRUE],
     Orders(<<FALSE, TRUE>>), Guessing(Orders(<<FALSE>>))}
=============================================================================
