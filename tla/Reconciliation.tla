--------------------------- MODULE Reconciliation ---------------------------
(***************************************************************************)
(* The judgement of a pipeline run, as operators on data: the verdicts of  *)
(* reconciliation/engine.py, the rule detectors of detection/rules.py, the *)
(* mapping of actions/mapping.py and the plan of the decide node.          *)
(*                                                                         *)
(* Amounts are whole units of money.  A book says, for every policy on our *)
(* register, what commission is expected, what our CRM recorded and whether *)
(* a 1+1 renewal is owed; a feed is a set of commission rows of insurers.  *)
(***************************************************************************)
EXTENDS ActionGate, Normalizer, FiniteSets, FiniteSetsExt

CONSTANTS Tolerance,     \* TOLERANCE
          RoundingMin    \* ROUNDING_MIN

ASSUME TolerancesAssumption ==
    /\ Tolerance \in Nat /\ RoundingMin \in Nat
    /\ 0 < RoundingMin /\ RoundingMin <= Tolerance /\ Tolerance < MinClaim

-----------------------------------------------------------------------------
(* The engine *)

ReconciliationClass ==
    {"MATCHED", "MISSING_COMMISSION", "UNDERPAID", "OVERPAID_DUPLICATE",
     "CRM_MISMATCH", "UNEXPECTED_PAYMENT"}

StatusToReason ==
    [status \in ReconciliationClass |->
        CASE status = "MATCHED" -> "OK"
          [] status = "MISSING_COMMISSION" -> "MISSING_COMMISSION"
          [] status = "UNDERPAID" -> "UNDERPAID_BELOW_RATE"
          [] status = "OVERPAID_DUPLICATE" -> "DUPLICATE_PAYMENT"
          [] status = "CRM_MISMATCH" -> "CRM_MISMATCH"
          [] status = "UNEXPECTED_PAYMENT" -> "NO_MATCHING_POLICY"]

Abs(n) == IF n < 0 THEN -n ELSE n

(* The engine adds up what a policy was paid; a row without an amount      *)
(* counts as a row and adds nothing, one without a policy does neither.    *)
FeedOf(feed, policy) == {row \in feed : row.policy = policy}
FeedCount(feed, policy) == Cardinality(FeedOf(feed, policy))
FeedSum(feed, policy) ==
    MapThenSumSet(LAMBDA row : row.amount,
                  {row \in FeedOf(feed, policy) : row.amount # NoAmount})

(* Mutation of Underpaid: the sign of the shortfall is lost. *)
UnderpaidBySign(delta) == delta > Tolerance
Underpaid(delta) == delta < -Tolerance

Duplicated(count) == count >= 2

(* _classify *)
Classify(expected, count, total, crm) ==
    LET delta == total - expected IN
    IF count = 0 THEN "MISSING_COMMISSION"
    ELSE IF Duplicated(count) THEN "OVERPAID_DUPLICATE"
    ELSE IF Underpaid(delta) THEN "UNDERPAID"
    ELSE IF delta > Tolerance THEN "OVERPAID_DUPLICATE"
    ELSE IF crm # NoAmount /\ Abs(crm - expected) > Tolerance THEN "CRM_MISMATCH"
    ELSE "MATCHED"

(* A reconciliation_results row, written by run r. *)
Verdict(r, policy, status, expected, actual) ==
    [by |-> r, policy |-> policy, status |-> status, reason |-> StatusToReason[status],
     expected |-> expected, actual |-> actual, delta |-> actual - expected,
     state |-> IF status = "MATCHED" THEN "" ELSE "open"]

(* Mutation of Orphans: the register is not consulted. *)
EveryPaidPolicy(book, feed) == {row.policy : row \in feed} \ {NoPolicy}

Orphans(book, feed) == {row.policy : row \in feed} \ (DOMAIN book \cup {NoPolicy})

(* reconcile, by run r: a verdict for every policy of the register, and    *)
(* for every policy number that was paid for but is not on it.             *)
Reconcile(r, book, feed) ==
    {LET expected == book[p].expected
         total    == FeedSum(feed, p)
     IN  Verdict(r, p, Classify(expected, FeedCount(feed, p), total, book[p].crm),
                 expected, total) : p \in DOMAIN book}
    \cup
    {Verdict(r, p, "UNEXPECTED_PAYMENT", 0, FeedSum(feed, p)) : p \in Orphans(book, feed)}

-----------------------------------------------------------------------------
(* The detectors.  from is the verdict a finding was made from: a policy   *)
(* with several verdicts has several findings of the same reason.          *)

UnderpaymentReasons ==
    {"MISSING_COMMISSION", "UNDERPAID_BELOW_RATE", "RENEWAL_1PLUS1_NOT_PROVISIONED",
     "NO_MATCHING_POLICY", "ANOMALY_UNCLASSIFIED"}
ClawbackReasons == {"DUPLICATE_PAYMENT"}

(* RULE_DETECTORS in the order they run; the anomaly net runs last. *)
DetectorOrder ==
    [reason \in DetectionReason \ {"OK", "CRM_MISMATCH"} |->
        CASE reason = "MISSING_COMMISSION" -> 1
          [] reason = "UNDERPAID_BELOW_RATE" -> 2
          [] reason = "DUPLICATE_PAYMENT" -> 3
          [] reason = "RENEWAL_1PLUS1_NOT_PROVISIONED" -> 4
          [] reason = "ROUNDING_DELTA" -> 5
          [] reason = "NO_MATCHING_POLICY" -> 6
          [] reason = "ANOMALY_UNCLASSIFIED" -> 7]

Detected(reason, from) == [policy |-> from.policy, reason |-> reason, from |-> from]

(* Mutation of CarriedThrough: orphan payments have no detector. *)
CarriedThroughRegistered(results) ==
    {Detected(v.reason, v) : v \in {v \in results :
        v.status \in {"MISSING_COMMISSION", "UNDERPAID", "OVERPAID_DUPLICATE"}}}

(* The detectors that carry a verdict of the engine through. *)
CarriedThrough(results) ==
    {Detected(v.reason, v) : v \in {v \in results :
        v.status \in {"MISSING_COMMISSION", "UNDERPAID", "OVERPAID_DUPLICATE",
                      "UNEXPECTED_PAYMENT"}}}

(* detect_renewal_1plus1_not_provisioned looks at the sale only. *)
RenewalsOwed(book) ==
    {Detected("RENEWAL_1PLUS1_NOT_PROVISIONED", [policy |-> p]) :
        p \in {p \in DOMAIN book : book[p].renewalOwed}}

(* detect_rounding_delta, the one detector of INFO severity. *)
RoundingDeltas(results) ==
    {Detected("ROUNDING_DELTA", v) : v \in {v \in results :
        /\ v.status = "MATCHED"
        /\ Abs(v.delta) >= RoundingMin
        /\ Abs(v.delta) <= Tolerance}}

Informational(finding) == finding.reason = "ROUNDING_DELTA"

RunRules(book, results) ==
    CarriedThrough(results) \cup RenewalsOwed(book) \cup RoundingDeltas(results)

(* The policies run_anomaly may report: those with a feed row to look at,  *)
(* except those a rule has covered.                                        *)
Novel(feed, found) ==
    {row.policy : row \in {row \in feed : /\ row.policy # NoPolicy
                                          /\ row.amount # NoAmount
                                          /\ row.premium # NoAmount}}
        \ {f.policy : f \in found}

Anomalies(policies) ==
    {Detected("ANOMALY_UNCLASSIFIED", [policy |-> p]) : p \in policies}

-----------------------------------------------------------------------------
(* The plan *)

(* build_actionable_finding: the amount at stake. *)
AmountAtStake(verdict) ==
    IF verdict.delta # 0 THEN Abs(verdict.delta) ELSE verdict.expected

(* The finding as the action layer sees it, mapped against the verdict of  *)
(* its policy, or without one.                                             *)
Unverified(finding) ==
    [policy |-> finding.policy, reason |-> finding.reason, from |-> finding.from,
     amount |-> 0, status |-> ""]
Verified(finding, verdict) ==
    [Unverified(finding) EXCEPT !.amount = AmountAtStake(verdict),
                                !.status = verdict.state]

(* The decide node's target for an item. *)
Target(item) ==
    IF Informational(item) THEN "informational"
    ELSE IF ShouldEscalate(item) # "" THEN "escalate" ELSE "remediate"

(* The exposures of the run summary. *)
Exposure(items, reasons) ==
    MapThenSumSet(LAMBDA item : item.amount, {item \in items : item.reason \in reasons})
=============================================================================
