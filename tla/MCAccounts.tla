------------------------------ MODULE MCAccounts ------------------------------
(* Small instances of Accounts for TLC: two people, the second of whom has   *)
(* the login that the first one's workspaces are named after.               *)
EXTENDS Accounts, TLC

CONSTANTS ann, bob

MCLogin == (ann :> "a") @@ (bob :> "b")
MCPlans ==
    {[can_create_teams |-> FALSE, max_workspaces |-> Unlimited],
     [can_create_teams |-> TRUE, max_workspaces |-> 2]}
==============================================================================
