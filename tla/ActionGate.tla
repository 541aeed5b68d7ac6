----------------------------- MODULE ActionGate -----------------------------
(***************************************************************************)
(* The judgement half of the action layer: the gate of remediation.py, the *)
(* routing of escalation.py, as operators on findings.  A finding is what  *)
(* ActionableFinding holds; amounts are whole paise.                       *)
(***************************************************************************)
EXTENDS Integers

CONSTANTS MinClaim,             \* MIN_CLAIM_THRESHOLD
          EscalationThreshold   \* ESCALATION_THRESHOLD

ASSUME ThresholdsAssumption ==
    /\ MinClaim \in Nat
    /\ EscalationThreshold \in Nat
    /\ MinClaim <= EscalationThreshold

(* The reason vocabulary shared by detection and action. *)
DetectionReason ==
    {"MISSING_COMMISSION", "UNDERPAID_BELOW_RATE", "DUPLICATE_PAYMENT",
     "RENEWAL_1PLUS1_NOT_PROVISIONED", "ROUNDING_DELTA", "NO_MATCHING_POLICY",
     "CRM_MISMATCH", "ANOMALY_UNCLASSIFIED", "OK"}

ValidReasonCodes ==
    {"MISSING_COMMISSION", "UNDERPAID_BELOW_RATE", "DUPLICATE_PAYMENT",
     "RENEWAL_1PLUS1_NOT_PROVISIONED"}

Claimable == {"MISSING_COMMISSION", "UNDERPAID_BELOW_RATE"}

ResolutionState == {"", "open", "disputed"}

GateCode == {"OK", "NOT_CONFIRMED", "INVALID_REASON", "TOO_SMALL"}

EscalationReason == {"HIGH_VALUE", "GATE_NOT_CONFIRMED", "GATE_INVALID_REASON"}

(* Mutation of ValidateAction: a finding need not be open. *)
ValidateUnconfirmed(f) ==
    IF f.reason \notin ValidReasonCodes THEN "INVALID_REASON"
    ELSE IF f.amount < MinClaim THEN "TOO_SMALL"
    ELSE "OK"

(* validate_action: the first failing condition names the refusal. *)
ValidateAction(f) ==
    IF f.status # "open" THEN "NOT_CONFIRMED"
    ELSE IF f.reason \notin ValidReasonCodes THEN "INVALID_REASON"
    ELSE IF f.amount < MinClaim THEN "TOO_SMALL"
    ELSE "OK"

HighValue(f) == f.amount >= EscalationThreshold

(* should_escalate, the predicate the decide node tags plan items with.    *)
(* "" stands for None.                                                     *)
ShouldEscalate(f) ==
    IF HighValue(f) THEN "HIGH_VALUE"
    ELSE IF ValidateAction(f) = "NOT_CONFIRMED" THEN "GATE_NOT_CONFIRMED"
    ELSE IF ValidateAction(f) = "INVALID_REASON" THEN "GATE_INVALID_REASON"
    ELSE ""

(* route, step (2): which action a finding below the threshold is given.   *)
RouteAction(f) == IF f.reason \in Claimable THEN "claim" ELSE "rebill"

(* Mutation of BlockEndsRoute: no refusal is handed on. *)
EveryBlockEndsRoute(code) == code # "OK"

(* A refusal that only means "not worth it" ends the route; every other    *)
(* refusal is handed to a human.                                           *)
BlockEndsRoute(code) == code = "TOO_SMALL"

(* route, step (3): the reason written on the escalation row. *)
RouteEscalationReason(f) ==
    IF HighValue(f) THEN "HIGH_VALUE"
    ELSE IF ValidateAction(f) = "NOT_CONFIRMED" THEN "GATE_NOT_CONFIRMED"
    ELSE "GATE_INVALID_REASON"
=============================================================================
