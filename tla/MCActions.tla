----------------------------- MODULE MCActions ------------------------------
(* Small instances of Actions: thresholds of 2 and 4 paise, so that amounts *)
(* 1..4 are below, at, above the claim minimum and at the escalation        *)
(* threshold.                                                               *)
EXTENDS Actions, TLC

CONSTANTS w1, w2, p1, p2

Leak(p, reason, amount) ==
    [policy |-> p, reason |-> reason, amount |-> amount, status |-> "open"]

(* A claim, the same claim with a corrected amount, a leak to re-bill and a *)
(* finding the gate refuses and a human must see.                           *)
Mixed ==
    {Leak(p1, "MISSING_COMMISSION", 2), Leak(p1, "MISSING_COMMISSION", 3),
     Leak(p2, "RENEWAL_1PLUS1_NOT_PROVISIONED", 2),
     Leak(p2, "CRM_MISMATCH", 2)}

(* Every way through route for one sequential caller. *)
AllRoutes ==
    Mixed \cup
    {Leak(p1, "MISSING_COMMISSION", 1), Leak(p1, "UNDERPAID_BELOW_RATE", 2),
     Leak(p2, "DUPLICATE_PAYMENT", 3), Leak(p2, "DUPLICATE_PAYMENT", 4),
     [Leak(p1, "RENEWAL_1PLUS1_NOT_PROVISIONED", 2) EXCEPT !.status = ""]}

Claims == {Leak(p1, "MISSING_COMMISSION", 2), Leak(p2, "MISSING_COMMISSION", 2)}

Rebills == {Leak(p1, "DUPLICATE_PAYMENT", 2)}

Symmetry == Permutations(Workers)
=============================================================================
