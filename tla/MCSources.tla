------------------------------ MODULE MCSources ------------------------------
(* A small instance of Sources for TLC.  One behaviour visits the connections   *)
(* page or the jobs page with everything else, or both of them alone; or it     *)
(* stays on the connections page of a user who has cancelled a job.             *)
EXTENDS Sources

Others == {"setup", "dashboard", "chat", "settings"}
MCTours == {
    [pages |-> Others \cup {"connections", "notion"}, clicks |-> 3, jobs |-> 2,
     limit |-> 3, past |-> FALSE],
    [pages |-> Others \cup {"jobs"}, clicks |-> 3, jobs |-> 3, limit |-> 1,
     past |-> FALSE],
    [pages |-> {"connections", "jobs"}, clicks |-> 2, jobs |-> 2, limit |-> 2,
     past |-> FALSE],
    [pages |-> {"connections", "chat"}, clicks |-> 2, jobs |-> 2, limit |-> 3,
     past |-> TRUE] }
==============================================================================
