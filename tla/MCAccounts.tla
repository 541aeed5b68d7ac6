----------------------------- MODULE MCAccounts -----------------------------
(* Small instances of Accounts. *)
EXTENDS Accounts, TLC

CONSTANTS ann, bob, none, q1, q2

Symmetry ==
    {f @@ g : f \in Permutations(Emails \ FirstAdmins), g \in Permutations(Requests)}
=============================================================================
