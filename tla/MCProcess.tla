------------------------------ MODULE MCProcess ------------------------------
(***************************************************************************)
(* The command lines: a synchronizing process with the internal or an      *)
(* external explorer, one that serves or loads a range without it, and the *)
(* one-off jobs.                                                           *)
(***************************************************************************)
EXTENDS Process

Serve(sync, range, public, explorer) ==
    [job |-> "serve", sync |-> sync, range |-> range, public |-> public, explorer |-> explorer, rollback |-> 0]
Job(job, rollback) ==
    [job |-> job, sync |-> FALSE, range |-> FALSE, public |-> FALSE, explorer |-> TRUE, rollback |-> rollback]

MCConfigs ==
    {Serve(TRUE, FALSE, TRUE, TRUE), Serve(TRUE, FALSE, TRUE, FALSE), Serve(FALSE, TRUE, FALSE, TRUE),
     Serve(FALSE, FALSE, TRUE, TRUE)}
    \cup {Job("rollback", h) : h \in 1 .. Best + 1}
    \cup {Job(j, 0) : j \in {"repair", "feestats", "columnstats"}}
ZeroConfigs == {Job("rollback", 0)}
=============================================================================
