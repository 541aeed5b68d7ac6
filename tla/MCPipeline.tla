----------------------------- MODULE MCPipeline -----------------------------
(* Small instances of Pipeline.  Tolerance 3 and rounding minimum 2 leave   *)
(* deltas 0 and 1 as noise, 2 and 3 as rounding, 4 as the smallest leak; a  *)
(* claim needs 5, a human 8.                                                *)
EXTENDS ReadApi, TLC

CONSTANTS r1, r2, p1, p2, ghost, none

Line(n, insurer, form, policy, premium, commission) ==
    [n |-> n, insurer |-> insurer, form |-> form, policy |-> policy,
     premium |-> premium, commission |-> commission]

(* A payment of so many units. *)
Row(n, policy, amount) ==
    Line(n, "ICICI Lombard", "plain", policy, 100,
         IF amount = NoAmount THEN NoAmount ELSE 100 * amount)

Policy(expected, crm, renewalOwed) ==
    [expected |-> expected, crm |-> crm, renewalOwed |-> renewalOwed]

(* Amounts at and around every threshold, in whole units; fractions around  *)
(* a half; percentages of a premium, one of them unknown; references that   *)
(* their insurer does not write.                                            *)
SinglePayments(policy) ==
    {Row(1, policy, a) : a \in {0, 1, 2, 3, 4, 5, 6, 8, 9, 10, 13, NoAmount}}
    \cup {Line(1, "Digit", "wrapped", policy, 100, h) :
             h \in {-250, 49, 50, 99, 149, 150, 349, 350, 550, 949, 950, 1250}}
    \cup {Line(1, "Tata AIG", "plain", policy, premium, 25) :
             premium \in {2, 6, 14, 22, 36, 50, NoAmount}}
    \cup {Line(1, insurer, form, policy, 60, 15) :
             insurer \in Insurers, form \in {"plain", "slashed", "wrapped", "blank"}}

PaymentsOn(policy) ==
    {{}} \cup {{l} : l \in SinglePayments(policy)}
         \cup {{Row(1, policy, a), Row(2, policy, b)} : a \in {2, 6}, b \in {2, 3, 6, NoAmount}}

(* One policy, every kind of payment on it, and an orphan payment or none. *)
OnePolicy ==
    {[book |-> (p1 :> Policy(expected, crm, renewalOwed)),
      lines |-> paid \cup orphan, outliers |-> outliers] :
        expected \in {0, 4, 6, 9}, crm \in {NoAmount, 6, 9}, renewalOwed \in BOOLEAN,
        paid \in PaymentsOn(p1), orphan \in {{}, {Row(3, ghost, 6)}},
        outliers \in {{}, {p1, ghost}}}

(* A policy paid in two parts. *)
PartPayments ==
    {[book |-> (p1 :> Policy(expected, NoAmount, FALSE)),
      lines |-> {Row(1, p1, 2), Row(2, p1, 3)}, outliers |-> {}] : expected \in {4, 9}}

(* A leak to claim, one too small to claim or a rounding difference, one to *)
(* re-bill and some for a human.                                            *)
OneOfEach ==
    {[book |-> (p1 :> Policy(6, NoAmount, FALSE)) @@ (p2 :> Policy(7, NoAmount, TRUE)),
      lines |-> paid \cup {Row(2, p2, 7), Row(3, p2, 7), Row(4, ghost, 6)},
      outliers |-> {}] : paid \in {{}, {Row(1, p1, 2)}, {Row(1, p1, 4)}}}

Symmetry == Permutations(Runs)
=============================================================================
