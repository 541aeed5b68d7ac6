----------------------------- MODULE Normalizer -----------------------------
(***************************************************************************)
(* The normalizers of ingestion/normalizer.py: from a line of an insurer's *)
(* statement to the canonical view of it (ReconciliationView).             *)
(*                                                                         *)
(* A unit of money is what _money rounds to; the product of a premium and  *)
(* a percentage, and a stated amount with more digits than money has, are  *)
(* counted in hundredths of a unit.  A reference is written in some form   *)
(* and means some policy number, if any; a cell that is blank or no number *)
(* is NoAmount.  Dates, statuses and notes decide nothing and are left out.*)
(***************************************************************************)
EXTENDS Integers

CONSTANTS NoPolicy,   \* a policy number that is NULL
          NoAmount    \* an amount that is NULL

ASSUME NullsAssumption == NoAmount \notin Int

(* The registry: how each insurer states commissions and writes references. *)
Insurers == {"ICICI Lombard", "Bajaj", "Digit", "Tata AIG"}

CommissionMode ==
    [insurer \in Insurers |->
        IF insurer \in {"ICICI Lombard", "Digit"} THEN "absolute" ELSE "rate_pct"]

RefForm ==
    [insurer \in Insurers |->
        CASE insurer = "Bajaj" -> "slashed"   \* BAJAJ/<year>/<policy_no>/<state>
          [] insurer = "Digit" -> "wrapped"   \* DIGIT-<policy_no>-TW
          [] OTHER -> "plain"]

(* Mutation of Money: fractions are cut off. *)
MoneyDown(hundredths) ==
    IF hundredths >= 0 THEN hundredths \div 100 ELSE -((-hundredths) \div 100)

(* _money: half a unit is rounded away from zero. *)
Money(hundredths) ==
    IF hundredths >= 0 THEN (hundredths + 50) \div 100
    ELSE -((50 - hundredths) \div 100)

(* parse_policy_no.  Insurers that write the number as it is take whatever *)
(* they find for one.                                                      *)
ParsePolicyNo(insurer, form, policy) ==
    IF form = "blank" THEN NoPolicy
    ELSE IF RefForm[insurer] = form THEN policy
    ELSE IF RefForm[insurer] = "plain" THEN <<form, policy>>
    ELSE NoPolicy

(* Mutation of ComputeAmount: a rate is taken for an amount. *)
ComputeAmountStated(line) ==
    IF line.commission = NoAmount THEN NoAmount ELSE Money(line.commission)

(* _compute_amount *)
ComputeAmount(line) ==
    IF line.commission = NoAmount THEN NoAmount
    ELSE IF CommissionMode[line.insurer] = "absolute" THEN Money(line.commission)
    ELSE IF line.premium = NoAmount THEN NoAmount
    ELSE Money(line.premium * line.commission)

NormalizeRow(line) ==
    [insurer |-> line.insurer, n |-> line.n,
     policy |-> ParsePolicyNo(line.insurer, line.form, line.policy),
     premium |-> line.premium, amount |-> ComputeAmount(line)]

(* Nothing is dropped: a line that does not parse is kept with its gaps. *)
NormalizeFeed(lines) == {NormalizeRow(line) : line \in lines}
=============================================================================
