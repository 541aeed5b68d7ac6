---------------------------- MODULE SoleRunProofs ----------------------------
(***************************************************************************)
(* What a run that nobody overlaps decides, does and files: the money from *)
(* the line of a statement to the claim, the handover or the finding.  For *)
(* every number of runs and whatever books and files they meet, for the    *)
(* runs that overlap nobody, failed and repeated ones among them; and what *)
(* the API then shows of it.                                               *)
(***************************************************************************)
EXTENDS PipelineProofs, ReadApi

(* Nobody overlaps the run. *)
Sole(r) == Active(r) /\ state[r].alone

(* The nodes of a run that has loaded its feed, and the action nodes.      *)
AfterLoad == {"reconcile", "verdicts", "detect", "decide", "remediate", "escalate", "finalize"}
Acting == {"remediate", "escalate", "finalize"}

(* A run sends its items where the gate sends them. *)
RoutedAsGated(r) ==
    /\ \A o \in state[r].remediated : /\ Target(o.item) = "remediate"
                                      /\ ValidateAction(o.item) = "OK"
                                      /\ o.action = RouteAction(o.item)
    /\ \A o \in state[r].skipped : /\ Target(o.item) = "remediate"
                                   /\ ValidateAction(o.item) = "TOO_SMALL"
    /\ \A o \in state[r].escalated : Target(o.item) = "escalate" /\ o.action = "escalation"

(* What a run has not done yet. *)
Unacted(r) ==
    /\ node[r] \in Early =>
          /\ state[r].plan = {} /\ state[r].informational = {}
          /\ \A x \in insurerCalls \cup billingCalls : x.run # r
    /\ node[r] # "complete" => \A f \in persisted : f.run # r

(* What became of a verdict whose policy the run had re-billed, and what   *)
(* the run has claimed.                                                    *)
BilledBy(r, p) == \E b \in billingCalls : b.run = r /\ b.policy = p
Settled(r, v) == IF BilledBy(r, v.policy) THEN [v EXCEPT !.state = "disputed"] ELSE v

LodgedBy(r) == {o \in state[r].remediated : o.action = "claim"}

(* What a run has read is what its books and files say.                    *)
Read(r) ==
    /\ node[r] = "load" =>
          rewrite[r] = [delete |-> feed, insert |-> Loaded(r, situation.lines)]
    /\ node[r] \in AfterLoad => feed = Loaded(r, situation.lines)
    /\ node[r] = "verdicts" =>
          rewrite[r] = [delete |-> results, insert |-> Judged(r, situation)]
    /\ node[r] \in {"detect", "decide"} => results = Judged(r, situation)
    /\ node[r] = "decide" => state[r].findings = Noticed(r, situation)
    /\ node[r] \in Early => claims = {} /\ escalations = {}

(* The plan is what the books and files call for, the tables and the       *)
(* outside systems hold what its outcomes name, and nothing else.          *)
PlanIs(r) ==
    /\ state[r].plan = {i \in Items(r, situation) : ~Informational(i)}
    /\ state[r].informational = {i \in Items(r, situation) : Informational(i)}
ResultsAre(r) == results = {Settled(r, v) : v \in Judged(r, situation)}
ClaimsAre(r) ==
    /\ claims = {Lodged(r, o.item) : o \in LodgedBy(r)}
    /\ {x \in insurerCalls : x.run = r} = claims
HandedOver(r) == \A i \in Escalated(r) : \E e \in escalations : SameLeak(e, i)
Rebilled(r) ==
    /\ \A b \in billingCalls : b.run = r =>
          \E o \in state[r].remediated : o.action = "rebill" /\ o.item.policy = b.policy
    /\ \A o \in state[r].remediated : o.action = "rebill" => BilledBy(r, o.item.policy)

Acted(r) == PlanIs(r) /\ ResultsAre(r) /\ ClaimsAre(r) /\ HandedOver(r) /\ Rebilled(r)

(* A run alone: no other is active, and all of the above holds of it.      *)
Work(r) ==
    /\ \A q \in Runs \ {r} : ~Active(q)
    /\ Read(r)
    /\ node[r] \in Acting => Acted(r)

(* What a run files of the books and files it saw.                         *)
Filed(r) ==
    {[run |-> r, policy |-> i.policy, reason |-> i.reason, from |-> i.from,
      amount |-> i.amount, disposition |-> Fate(i)] : i \in Items(r, state[r].seen)}

(* The inductive invariant, with TypeInv: what holds of every run, what    *)
(* holds of a run that nobody overlaps, and what such a run has filed.     *)
SoleInv ==
    /\ \A r \in Runs : RoutedAsGated(r) /\ Unacted(r)
    /\ \A r \in Runs : /\ state[r].seen \in Situations
                       /\ Active(r) => state[r].seen = situation
    /\ \A r \in Runs : Sole(r) => Work(r)
    /\ \A r \in Runs : node[r] = "complete" /\ state[r].alone =>
          {f \in persisted : f.run = r} = Filed(r)
(* Runs that take turns overlap nobody. *)
OneAtATime == ~Concurrent => \A r \in Runs : Active(r) => state[r].alone

-----------------------------------------------------------------------------
(* What books and files say *)

(* A policy has one verdict. *)
LEMMA OneVerdict ==
    ASSUME NEW r, NEW book, NEW rows,
           NEW u \in Reconcile(r, book, rows), NEW v \in Reconcile(r, book, rows),
           u.policy = v.policy
    PROVE  u = v
<1>1. ASSUME NEW w \in Reconcile(r, book, rows)
      PROVE  \/ w.policy \in DOMAIN book /\ OnRegister(w, r, book, rows)
             \/ w.policy \notin DOMAIN book /\ OffRegister(w, r, book, rows)
  <2>1. ASSUME OnRegister(w, r, book, rows)
        PROVE  w.policy \in DOMAIN book
    <3>1. PICK p \in DOMAIN book :
             w = Verdict(r, p, Classify(book[p].expected, FeedCount(rows, p),
                                        FeedSum(rows, p), book[p].crm),
                         book[p].expected, FeedSum(rows, p))
      BY <2>1 DEF OnRegister
    <3>2. w.policy = p
      BY ONLY <3>1 DEF Verdict
    <3> QED BY <3>2
  <2>2. OffRegister(w, r, book, rows) => w.policy \notin DOMAIN book
    BY DEF OffRegister, Verdict, Orphans
  <2> QED BY <2>1, <2>2, ReconcileIs
<1>2. CASE u.policy \in DOMAIN book
  <2>1. OnRegister(u, r, book, rows) /\ OnRegister(v, r, book, rows)
    BY <1>1, <1>2
  <2>2. PICK p \in DOMAIN book :
           u = Verdict(r, p, Classify(book[p].expected, FeedCount(rows, p), FeedSum(rows, p),
                                      book[p].crm),
                       book[p].expected, FeedSum(rows, p))
    BY <2>1 DEF OnRegister
  <2>3. PICK q \in DOMAIN book :
           v = Verdict(r, q, Classify(book[q].expected, FeedCount(rows, q), FeedSum(rows, q),
                                      book[q].crm),
                       book[q].expected, FeedSum(rows, q))
    BY <2>1 DEF OnRegister
  <2>4. u.policy = p /\ v.policy = q
    BY ONLY <2>2, <2>3 DEF Verdict
  <2> QED BY <2>2, <2>3, <2>4
<1>3. CASE u.policy \notin DOMAIN book
  <2>1. OffRegister(u, r, book, rows) /\ OffRegister(v, r, book, rows)
    BY <1>1, <1>3
  <2>2. PICK p : u = Verdict(r, p, "UNEXPECTED_PAYMENT", 0, FeedSum(rows, p))
    BY <2>1 DEF OffRegister
  <2>3. PICK q : v = Verdict(r, q, "UNEXPECTED_PAYMENT", 0, FeedSum(rows, q))
    BY <2>1 DEF OffRegister
  <2>4. u.policy = p /\ v.policy = q
    BY ONLY <2>2, <2>3 DEF Verdict
  <2> QED BY <2>2, <2>3, <2>4
<1> QED BY <1>2, <1>3

(* A finding of a run: its reason tells which detector made it, and of     *)
(* what.                                                                   *)
Finding(f, r, s) ==
    \/ \E v \in Judged(r, s) :
          /\ f = Detected(v.reason, v)
          /\ v.status \in {"MISSING_COMMISSION", "UNDERPAID", "OVERPAID_DUPLICATE",
                           "UNEXPECTED_PAYMENT"}
    \/ \E p \in DOMAIN s.book :
          /\ s.book[p].renewalOwed
          /\ f = Detected("RENEWAL_1PLUS1_NOT_PROVISIONED", [policy |-> p])
    \/ \E v \in Judged(r, s) : f = Detected("ROUNDING_DELTA", v)
    \/ \E p : f = Detected("ANOMALY_UNCLASSIFIED", [policy |-> p])

(* What a run notices are findings: each tells its detector by its reason. *)
LEMMA NoticedAre ==
    ASSUME NEW r, NEW s, NEW f \in Noticed(r, s)
    PROVE  Finding(f, r, s)
<1> DEFINE J == Judged(r, s)
           rules == RunRules(s.book, J)
           odd == Novel(Loaded(r, s.lines), rules) \cap s.outliers
<1>1. f \in rules \/ f \in Anomalies(odd)
  BY DEF Noticed
<1> HIDE DEF J
<1>2. f \in rules => \/ f \in CarriedThrough(J) \/ f \in RenewalsOwed(s.book)
                     \/ f \in RoundingDeltas(J)
  BY DEF RunRules
<1> HIDE DEF odd
<1>3. f \in Anomalies(odd) => \E p : f = Detected("ANOMALY_UNCLASSIFIED", [policy |-> p])
  BY DEF Anomalies
<1>4. f \in CarriedThrough(J) =>
        \E v \in J : /\ f = Detected(v.reason, v)
                     /\ v.status \in {"MISSING_COMMISSION", "UNDERPAID", "OVERPAID_DUPLICATE",
                                      "UNEXPECTED_PAYMENT"}
  BY DEF CarriedThrough
<1>5. f \in RenewalsOwed(s.book) =>
        \E p \in DOMAIN s.book :
           s.book[p].renewalOwed
           /\ f = Detected("RENEWAL_1PLUS1_NOT_PROVISIONED", [policy |-> p])
  BY DEF RenewalsOwed
<1>6. f \in RoundingDeltas(J) => \E v \in J : f = Detected("ROUNDING_DELTA", v)
  BY DEF RoundingDeltas
<1> QED BY <1>1, <1>2, <1>3, <1>4, <1>5, <1>6 DEF Finding, J

(* A verdict tells its status by its reason. *)
LEMMA JudgedReason ==
    ASSUME NEW r, NEW s, NEW v \in Judged(r, s)
    PROVE  /\ v.status \in ReconciliationClass
           /\ v.reason = StatusToReason[v.status]
           /\ v.state = IF v.status = "MATCHED" THEN "" ELSE "open"
<1> DEFINE rows == Loaded(r, s.lines)
<1>1. OnRegister(v, r, s.book, rows) \/ OffRegister(v, r, s.book, rows)
  BY ReconcileIs DEF Judged
<1> HIDE DEF rows
<1>2. PICK status \in ReconciliationClass : \E p, expected, actual :
         v = Verdict(r, p, status, expected, actual)
  <2>1. "UNEXPECTED_PAYMENT" \in ReconciliationClass
    BY DEF ReconciliationClass
  <2> QED BY <1>1, <2>1, ClassifyIs DEF OnRegister, OffRegister
<1>3. PICK p, expected, actual : v = Verdict(r, p, status, expected, actual)
  BY <1>2
<1>4. /\ v.status = status /\ v.reason = StatusToReason[status]
      /\ v.state = IF status = "MATCHED" THEN "" ELSE "open"
  BY ONLY <1>3 DEF Verdict
<1> QED BY <1>4

OffVerdict == {"RENEWAL_1PLUS1_NOT_PROVISIONED", "ANOMALY_UNCLASSIFIED"}

(* The reasons of the statuses that are carried through. *)
LEMMA ReasonsOfStatus ==
    /\ StatusToReason["MISSING_COMMISSION"] = "MISSING_COMMISSION"
    /\ StatusToReason["UNDERPAID"] = "UNDERPAID_BELOW_RATE"
    /\ StatusToReason["OVERPAID_DUPLICATE"] = "DUPLICATE_PAYMENT"
    /\ StatusToReason["UNEXPECTED_PAYMENT"] = "NO_MATCHING_POLICY"
  BY DEF StatusToReason, ReconciliationClass

(* The finding is the one a rule makes of this verdict. *)
MadeFrom(f, v) ==
    /\ f = Detected(f.reason, v) /\ f.policy = v.policy
    /\ f.reason # "ROUNDING_DELTA" =>
          /\ f.reason = StatusToReason[v.status]
          /\ v.status \in {"MISSING_COMMISSION", "UNDERPAID", "OVERPAID_DUPLICATE",
                           "UNEXPECTED_PAYMENT"}

(* A finding on a verdict names that verdict's policy and reason. *)
LEMMA FindingFrom ==
    ASSUME NEW r, NEW s, NEW f \in Noticed(r, s)
    PROVE  \/ /\ f.reason \in OffVerdict
              /\ f = Detected(f.reason, [policy |-> f.policy])
           \/ /\ f.reason \notin OffVerdict
              /\ \E v \in Judged(r, s) : MadeFrom(f, v)
<1>1. Finding(f, r, s)
  BY NoticedAre
<1>2. ASSUME NEW reason \in OffVerdict, NEW p, f = Detected(reason, [policy |-> p])
      PROVE  /\ f.reason \in OffVerdict
             /\ f = Detected(f.reason, [policy |-> f.policy])
  <2>1. f.reason = reason /\ f.policy = p
    BY ONLY <1>2 DEF Detected
  <2> QED BY <1>2, <2>1
<1>3. CASE \E p : f = Detected("ANOMALY_UNCLASSIFIED", [policy |-> p])
  BY <1>2, <1>3 DEF OffVerdict
<1>4. CASE \E p \in DOMAIN s.book :
              f = Detected("RENEWAL_1PLUS1_NOT_PROVISIONED", [policy |-> p])
  BY <1>2, <1>4 DEF OffVerdict
<1>5. ASSUME NEW v \in Judged(r, s), f = Detected("ROUNDING_DELTA", v)
      PROVE  /\ f.reason = "ROUNDING_DELTA" /\ f.reason \notin OffVerdict
             /\ f = Detected(f.reason, v) /\ f.policy = v.policy
  <2>1. f.reason = "ROUNDING_DELTA" /\ f.policy = v.policy
    BY ONLY <1>5 DEF Detected
  <2> QED BY <1>5, <2>1 DEF OffVerdict
<1>6. ASSUME NEW v \in Judged(r, s), f = Detected(v.reason, v),
             v.status \in {"MISSING_COMMISSION", "UNDERPAID", "OVERPAID_DUPLICATE",
                           "UNEXPECTED_PAYMENT"}
      PROVE  /\ f.reason = StatusToReason[v.status] /\ f.reason \notin OffVerdict
             /\ f = Detected(f.reason, v) /\ f.policy = v.policy
  <2>1. f.reason = v.reason /\ f.policy = v.policy
    BY ONLY <1>6 DEF Detected
  <2>2. v.reason = StatusToReason[v.status]
    BY JudgedReason
  <2> QED BY <1>6, <2>1, <2>2, ReasonsOfStatus DEF OffVerdict
<1> QED BY <1>1, <1>3, <1>4, <1>5, <1>6 DEF Finding, MadeFrom

(* The engine judges a policy once. *)
LEMMA JudgedOnce ==
    ASSUME NEW r, NEW s, NEW u \in Judged(r, s), NEW v \in Judged(r, s), u.policy = v.policy
    PROVE  u = v
<1>1. u \in Reconcile(r, s.book, Loaded(r, s.lines))
      /\ v \in Reconcile(r, s.book, Loaded(r, s.lines))
  BY DEF Judged
<1> QED BY <1>1, OneVerdict

(* A policy and a reason have one finding. *)
LEMMA OneFinding ==
    ASSUME NEW r, NEW s, NEW f \in Noticed(r, s), NEW g \in Noticed(r, s),
           f.policy = g.policy, f.reason = g.reason
    PROVE  f = g
<1>1. CASE f.reason \in OffVerdict
  BY <1>1, FindingFrom
<1>2. CASE f.reason \notin OffVerdict
  <2>1. PICK v \in Judged(r, s) : MadeFrom(f, v)
    BY <1>2, FindingFrom
  <2>2. PICK w \in Judged(r, s) : MadeFrom(g, w)
    BY <1>2, FindingFrom
  <2>3. v = w
    BY <2>1, <2>2, JudgedOnce DEF MadeFrom
  <2> QED BY <2>1, <2>2, <2>3 DEF MadeFrom
<1> QED BY <1>1, <1>2

(* Where an item comes from. *)
LEMMA ItemFrom ==
    ASSUME NEW f, NEW verdicts
    PROVE  /\ Mapped(f, verdicts).policy = f.policy
           /\ Mapped(f, verdicts).reason = f.reason
           /\ Mapped(f, verdicts).from = f.from
<1> DEFINE w == CHOOSE v \in verdicts : v.policy = f.policy
<1>1. Mapped(f, verdicts) = Verified(f, w) \/ Mapped(f, verdicts) = Unverified(f)
  BY DEF Mapped
<1> HIDE DEF w
<1>2. /\ Verified(f, w).policy = f.policy /\ Verified(f, w).reason = f.reason
      /\ Verified(f, w).from = f.from
      /\ Unverified(f).policy = f.policy /\ Unverified(f).reason = f.reason
      /\ Unverified(f).from = f.from
  BY MappedIs
<1> DEFINE m == Mapped(f, verdicts)
           y == Verified(f, w)
           n == Unverified(f)
<1>3. m = y \/ m = n
  BY <1>1
<1>4. /\ y.policy = f.policy /\ y.reason = f.reason /\ y.from = f.from
      /\ n.policy = f.policy /\ n.reason = f.reason /\ n.from = f.from
  BY <1>2
<1> HIDE DEF m, y, n
<1>5. m.policy = f.policy /\ m.reason = f.reason /\ m.from = f.from
  BY <1>3, <1>4
<1> QED BY <1>5 DEF m

(* A policy and a reason have one item. *)
LEMMA OneItem ==
    ASSUME NEW r, NEW s, NEW i \in Items(r, s), NEW j \in Items(r, s),
           i.policy = j.policy, i.reason = j.reason
    PROVE  i = j
<1>1. PICK f \in Noticed(r, s) : i = Mapped(f, Judged(r, s))
  BY DEF Items
<1>2. PICK g \in Noticed(r, s) : j = Mapped(g, Judged(r, s))
  BY DEF Items
<1>3. f.policy = g.policy /\ f.reason = g.reason
  BY <1>1, <1>2, ItemFrom
<1>4. f = g
  BY <1>3, OneFinding
<1> QED BY <1>1, <1>2, <1>4

(* An item on a policy that has a verdict is valued by it. *)
LEMMA ItemOfVerdict ==
    ASSUME NEW r, NEW s, NEW i \in Items(r, s), NEW v \in Judged(r, s),
           v.policy = i.policy
    PROVE  i.amount = AmountAtStake(v) /\ i.status = v.state
<1>1. PICK f \in Noticed(r, s) : i = Mapped(f, Judged(r, s))
  BY DEF Items
<1>2. v.policy = f.policy
  BY <1>1, ItemFrom
<1> DEFINE w == CHOOSE w \in Judged(r, s) : w.policy = f.policy
<1>3. w \in Judged(r, s) /\ w.policy = f.policy /\ i = Verified(f, w)
  BY <1>1, <1>2 DEF Mapped
<1> HIDE DEF w
<1>4. w = v
  BY <1>2, <1>3, JudgedOnce
<1> QED BY <1>3, <1>4, MappedIs

(* An item that is open comes from an open verdict. *)
LEMMA OpenItem ==
    ASSUME NEW r, NEW s, NEW i \in Items(r, s), i.status = "open"
    PROVE  \E v \in Judged(r, s) : v.policy = i.policy /\ v.state = "open"
<1>1. PICK f \in Noticed(r, s) : i = Mapped(f, Judged(r, s))
  BY DEF Items
<1>2. CASE \E v \in Judged(r, s) : v.policy = f.policy
  BY <1>1, <1>2, ItemFrom, ItemOfVerdict
<1>3. CASE ~\E v \in Judged(r, s) : v.policy = f.policy
  <2>1. i = Unverified(f)
    BY <1>1, <1>3 DEF Mapped
  <2>2. i.status = ""
    BY <2>1, MappedIs
  <2> QED BY <2>2
<1> QED BY <1>2, <1>3

-----------------------------------------------------------------------------
(* Amounts: what is judged against what was stated *)

(* As many images as members, if no two members have the same image. *)
LEMMA SameSize ==
    ASSUME NEW S, IsFiniteSet(S), NEW g, g = [x \in S |-> g[x]],
           \A x, y \in S : g[x] = g[y] => x = y
    PROVE  /\ IsFiniteSet({g[x] : x \in S})
           /\ Cardinality({g[x] : x \in S}) = Cardinality(S)
<1> DEFINE T == {g[x] : x \in S}
<1>1. g \in [S -> T]
  OBVIOUS
<1>2. \A t \in T : \E x \in S : g[x] = t
  OBVIOUS
<1> HIDE DEF T
<1>3. g \in Surjection(S, T) /\ g \in Injection(S, T)
  BY <1>1, <1>2 DEF Surjection, Injection, IsInjective
<1>4. IsFiniteSet(T) /\ Cardinality(T) = Cardinality(S)
  BY <1>3, FS_Surjection
<1> QED BY <1>4 DEF T

(* What a loaded row holds. *)
LEMMA RowIs ==
    ASSUME NEW r, NEW l
    PROVE  /\ RowFrom(r, l).insurer = l.insurer /\ RowFrom(r, l).n = l.n
           /\ RowFrom(r, l).policy = ParsePolicyNo(l.insurer, l.form, l.policy)
           /\ RowFrom(r, l).amount = ComputeAmount(l)
  BY DEF RowFrom

(* The rows of a registered policy are the lines whose reference its       *)
(* insurer writes.                                                         *)
LEMMA ParsedIs ==
    ASSUME situation \in Situations, NEW p \in DOMAIN situation.book,
           NEW l \in situation.lines
    PROVE  ParsePolicyNo(l.insurer, l.form, l.policy) = p
              <=> l.policy = p /\ l.form = RefForm[l.insurer]
<1>1. p # NoPolicy /\ p # <<l.form, l.policy>> /\ l.insurer \in Insurers
  BY SituationsAssumption
<1>2. RefForm[l.insurer] \in {"slashed", "wrapped", "plain"}
  BY <1>1 DEF RefForm, Insurers
<1> QED BY <1>1, <1>2 DEF ParsePolicyNo

(* The rows of a policy, line by line. *)
LEMMA RowsOn ==
    ASSUME situation \in Situations, NEW r, NEW p \in DOMAIN situation.book
    PROVE  FeedOf(Loaded(r, situation.lines), p) = {RowFrom(r, l) : l \in LinesOn(p)}
<1>1. Loaded(r, situation.lines) = {RowFrom(r, l) : l \in situation.lines}
  BY LoadedIs
<1>2. \A l \in situation.lines : RowFrom(r, l).policy = p <=> l \in LinesOn(p)
  BY ParsedIs, RowIs DEF LinesOn
<1>3. \A l \in LinesOn(p) : l \in situation.lines
  BY DEF LinesOn
<1> QED BY <1>1, <1>2, <1>3 DEF FeedOf

(* There are as many rows of a policy as payments on it. *)
LEMMA RowsCounted ==
    ASSUME situation \in Situations, NEW r, NEW p \in DOMAIN situation.book
    PROVE  /\ IsFiniteSet(LinesOn(p))
           /\ FeedCount(Loaded(r, situation.lines), p) = Payments(p)
           /\ Payments(p) \in Nat
<1>1. IsFiniteSet(LinesOn(p))
  BY SituationsAssumption, FS_Subset DEF LinesOn
<1> DEFINE g == [l \in LinesOn(p) |-> RowFrom(r, l)]
<1>2. ASSUME NEW k \in LinesOn(p), NEW l \in LinesOn(p), g[k] = g[l]
      PROVE  k = l
  <2>1. k.insurer = l.insurer /\ k.n = l.n
    BY <1>2, RowIs
  <2>2. k \in situation.lines /\ l \in situation.lines
    BY DEF LinesOn
  <2> QED BY <2>1, <2>2, SituationsAssumption
<1>3. Cardinality({g[l] : l \in LinesOn(p)}) = Cardinality(LinesOn(p))
  BY <1>1, <1>2, SameSize
<1>4. FeedOf(Loaded(r, situation.lines), p) = {g[l] : l \in LinesOn(p)}
  BY RowsOn
<1> HIDE DEF g
<1>5. FeedCount(Loaded(r, situation.lines), p) = Payments(p)
  BY <1>3, <1>4 DEF FeedCount, Payments
<1> QED BY <1>1, <1>5, FS_CardinalityType DEF Payments

(* What a line states, and what it is loaded as, are half a unit apart. *)
LEMMA LineAmount ==
    ASSUME NEW s \in Situations, NEW l \in s.lines, NEW r
    PROVE  /\ Stated(l) \in Int /\ PaidIn(RowFrom(r, l)) \in Int
           /\ 100 * PaidIn(RowFrom(r, l)) - Stated(l) <= 50
           /\ Stated(l) - 100 * PaidIn(RowFrom(r, l)) <= 50
<1>1. /\ l.insurer \in Insurers
      /\ l.premium \in Int \cup {NoAmount} /\ l.commission \in Int \cup {NoAmount}
  BY SituationsAssumption
<1>2. CommissionMode[l.insurer] \in {"absolute", "rate_pct"}
  BY <1>1 DEF CommissionMode
<1> DEFINE c == l.commission
           pr == l.premium
           paid == PaidIn(RowFrom(r, l))
           unknown == \/ c = NoAmount
                      \/ CommissionMode[l.insurer] = "rate_pct" /\ pr = NoAmount
           h == IF CommissionMode[l.insurer] = "rate_pct" THEN pr * c ELSE c
<1>3. paid = IF ComputeAmount(l) = NoAmount THEN 0 ELSE ComputeAmount(l)
  BY RowIs DEF PaidIn
<1>4. CASE unknown
  <2>1. Stated(l) = 0
    BY <1>4 DEF Stated
  <2>2. ComputeAmount(l) = NoAmount
    BY <1>2, <1>4 DEF ComputeAmount
  <2> QED BY <1>3, <2>1, <2>2
<1>5. CASE ~unknown
  <2>1. c \in Int /\ (CommissionMode[l.insurer] = "rate_pct" => pr \in Int)
    BY <1>1, <1>5
  <2>2. h \in Int
    BY <2>1
  <2>3. Stated(l) = h
    BY <1>2, <1>5 DEF Stated
  <2>4. ComputeAmount(l) = Money(h)
    BY <1>2, <1>5 DEF ComputeAmount
  <2> HIDE DEF h
  <2>5. /\ Money(h) \in Int /\ 100 * Money(h) - h <= 50 /\ h - 100 * Money(h) <= 50
    BY <2>2, MoneyIsNearest
  <2>6. paid = Money(h)
    BY <1>3, <2>4, <2>5, NullsAssumption
  <2> QED BY <2>2, <2>3, <2>5, <2>6
<1> QED BY <1>4, <1>5

(* A policy that was paid once or not at all. *)
LEMMA PaymentsAndSum ==
    ASSUME situation \in Situations, NEW r \in Runs, NEW p \in DOMAIN situation.book
    PROVE  LET total == FeedSum(Loaded(r, situation.lines), p)
           IN  /\ total \in Int
               /\ Payments(p) = 0 => total = 0 /\ Paid(p) = 0
               /\ Payments(p) = 1 => /\ Paid(p) \in Int
                                     /\ 100 * total - Paid(p) <= 50
                                     /\ Paid(p) - 100 * total <= 50
<1> DEFINE rows == Loaded(r, situation.lines)
           total == FeedSum(rows, p)
<1>1. FeedOK(rows)
  BY LoadedOK
<1>2. /\ total \in Int
      /\ FeedOf(rows, p) = {} => total = 0
      /\ \A row : FeedOf(rows, p) = {row} => total = PaidIn(row)
  BY <1>1, FeedSumIs DEF FeedOK, RowOK
<1>3. FeedOf(rows, p) = {RowFrom(r, l) : l \in LinesOn(p)} /\ IsFiniteSet(LinesOn(p))
  BY RowsOn, RowsCounted
<1>4. IsFiniteSet(situation.lines)
  BY SituationsAssumption
<1> HIDE DEF rows, total
<1>5. ASSUME Payments(p) = 0
      PROVE  total = 0 /\ Paid(p) = 0
  <2>1. LinesOn(p) = {}
    BY <1>3, <1>5, FS_EmptySet DEF Payments
  <2> QED BY <1>2, <1>3, <1>4, <2>1, PaidIs
<1>6. ASSUME Payments(p) = 1
      PROVE  /\ Paid(p) \in Int /\ 100 * total - Paid(p) <= 50 /\ Paid(p) - 100 * total <= 50
  <2>1. PICK l : LinesOn(p) = {l}
    BY <1>3, <1>6, FS_Singleton DEF Payments
  <2>2. l \in situation.lines
    BY <2>1 DEF LinesOn
  <2>3. total = PaidIn(RowFrom(r, l))
    BY <1>2, <1>3, <2>1
  <2>4. Stated(l) \in Int
    BY <2>2, LineAmount
  <2>5. Paid(p) = Stated(l)
    BY <1>4, <2>1, <2>4, PaidIs
  <2> QED BY <2>2, <2>3, <2>5, LineAmount
<1> QED BY <1>2, <1>5, <1>6 DEF total, rows

(* The verdict of a registered policy. *)
LEMMA VerdictOn ==
    ASSUME situation \in Situations, NEW r \in Runs, NEW p \in DOMAIN situation.book
    PROVE  \E v \in Judged(r, situation) :
              LET total == FeedSum(Loaded(r, situation.lines), p)
                  expected == situation.book[p].expected
              IN  /\ v.policy = p
                  /\ v.status = Classify(expected, Payments(p), total, situation.book[p].crm)
                  /\ v.expected = expected /\ v.delta = total - expected
<1> DEFINE rows == Loaded(r, situation.lines)
           total == FeedSum(rows, p)
           expected == situation.book[p].expected
           status == Classify(expected, FeedCount(rows, p), total, situation.book[p].crm)
           v == Verdict(r, p, status, expected, total)
<1>1. OnRegister(v, r, situation.book, rows)
  BY DEF OnRegister
<1>2. v \in Judged(r, situation)
  BY <1>1, ReconcileIs DEF Judged
<1>3. FeedCount(rows, p) = Payments(p)
  BY RowsCounted
<1> HIDE DEF total, expected, status
<1>4. /\ v.policy = p /\ v.status = status /\ v.expected = expected
      /\ v.delta = total - expected
  BY DEF Verdict
<1> HIDE DEF v
<1>5. v.status = Classify(expected, Payments(p), total, situation.book[p].crm)
  BY <1>3, <1>4 DEF status
<1> QED BY <1>2, <1>4, <1>5 DEF expected, total

(* When a payment was missed or falls short, the amount at stake is what   *)
(* is owed, to the nearest unit of each payment.                           *)
Short == {"MISSING_COMMISSION", "UNDERPAID"}

LEMMA ShortIsOwed ==
    ASSUME situation \in Situations, NEW r \in Runs, NEW v \in Judged(r, situation),
           v.status \in Short
    PROVE  /\ v.policy \in DOMAIN situation.book
           /\ IsOwed(AmountAtStake(v), v.policy)
           /\ Owed(v.policy) \in Int /\ Payments(v.policy) \in {0, 1}
<1> DEFINE p == v.policy
           total == FeedSum(Loaded(r, situation.lines), p)
           expected == situation.book[p].expected
           n == Payments(p)
           crm == situation.book[p].crm
           paid == Paid(p)
<1>1. p \in DOMAIN situation.book
  <2>1. OnRegister(v, r, situation.book, Loaded(r, situation.lines))
        \/ OffRegister(v, r, situation.book, Loaded(r, situation.lines))
    BY ReconcileIs DEF Judged
  <2>2. CASE OnRegister(v, r, situation.book, Loaded(r, situation.lines))
    <3> DEFINE rows == Loaded(r, situation.lines)
               book == situation.book
    <3>1. PICK q \in DOMAIN book :
             v = Verdict(r, q, Classify(book[q].expected, FeedCount(rows, q),
                                        FeedSum(rows, q), book[q].crm),
                         book[q].expected, FeedSum(rows, q))
      BY <2>2 DEF OnRegister
    <3>2. v.policy = q
      BY ONLY <3>1 DEF Verdict
    <3> QED BY <3>2
  <2>3. CASE OffRegister(v, r, situation.book, Loaded(r, situation.lines))
    <3>1. PICK q : v = Verdict(r, q, "UNEXPECTED_PAYMENT", 0,
                               FeedSum(Loaded(r, situation.lines), q))
      BY <2>3 DEF OffRegister
    <3>2. v.status = "UNEXPECTED_PAYMENT"
      BY ONLY <3>1 DEF Verdict
    <3> QED BY <3>2 DEF Short
  <2> QED BY <2>1, <2>2, <2>3
<1>2. /\ v.status = Classify(expected, n, total, crm)
      /\ v.expected = expected /\ v.delta = total - expected
  <2>1. PICK w \in Judged(r, situation) :
           /\ w.policy = p /\ w.status = Classify(expected, n, total, crm)
           /\ w.expected = expected /\ w.delta = total - expected
    BY <1>1, VerdictOn
  <2>2. w = v
    BY <2>1, JudgedOnce
  <2> QED BY <2>1, <2>2
<1>3. /\ total \in Int /\ n \in Nat /\ expected \in Nat
      /\ n = 0 => total = 0 /\ paid = 0
      /\ n = 1 => paid \in Int /\ 100 * total - paid <= 50 /\ paid - 100 * total <= 50
  BY <1>1, PaymentsAndSum, RowsCounted, SituationsAssumption DEF BookEntry
<1>4. Owed(p) = 100 * expected - paid
  BY DEF Owed
<1> HIDE DEF p, total, expected, n, crm, paid
<1>5. \/ n = 0
      \/ n = 1 /\ total - expected < -Tolerance
  BY <1>2, <1>3, ReasonsOfStatus DEF Classify, Underpaid, Duplicated, Short
<1>6. CASE n = 0
  <2>1. AmountAtStake(v) = expected
    BY <1>2, <1>3, <1>6 DEF AmountAtStake, Abs
  <2>2. Owed(p) = 100 * expected
    BY <1>3, <1>4, <1>6
  <2> QED BY <1>1, <1>3, <1>6, <2>1, <2>2 DEF IsOwed, Abs, n, p
<1>7. CASE n = 1 /\ total - expected < -Tolerance
  <2>1. AmountAtStake(v) = expected - total
    BY <1>2, <1>3, <1>7, TolerancesAssumption DEF AmountAtStake, Abs
  <2>2. 100 * (expected - total) - Owed(p) = paid - 100 * total /\ Owed(p) \in Int
    BY <1>3, <1>4, <1>7
  <2>3. Abs(100 * (expected - total) - Owed(p)) <= 50 * n
    BY <1>3, <1>7, <2>2 DEF Abs
  <2> QED BY <1>1, <1>7, <2>1, <2>2, <2>3 DEF IsOwed, n, p
<1> QED BY <1>5, <1>6, <1>7

(* A policy that was not paid, or paid once and too little, is judged so. *)
LEMMA OwedIsShort ==
    ASSUME situation \in Situations, NEW r \in Runs, NEW p \in DOMAIN situation.book,
           Payments(p) = 0 \/ (Payments(p) = 1 /\ Owed(p) > 100 * Tolerance + 50)
    PROVE  \E v \in Judged(r, situation) : v.policy = p /\ v.status \in Short
<1> DEFINE total == FeedSum(Loaded(r, situation.lines), p)
           expected == situation.book[p].expected
           n == Payments(p)
           crm == situation.book[p].crm
           paid == Paid(p)
<1>1. PICK v \in Judged(r, situation) :
         v.policy = p /\ v.status = Classify(expected, n, total, crm)
  BY VerdictOn
<1>2. /\ total \in Int /\ expected \in Nat
      /\ n = 1 => paid \in Int /\ 100 * total - paid <= 50 /\ paid - 100 * total <= 50
  BY PaymentsAndSum, SituationsAssumption DEF BookEntry
<1>3. n = 0 \/ (n = 1 /\ 100 * expected - paid > 100 * Tolerance + 50)
  BY DEF Owed
<1> HIDE DEF total, expected, n, crm, paid
<1>4. n = 0 \/ (n = 1 /\ total - expected < -Tolerance)
  BY <1>2, <1>3, TolerancesAssumption
<1>5. Classify(expected, n, total, crm) \in Short
  BY <1>4 DEF Classify, Underpaid, Duplicated, Short
<1> QED BY <1>1, <1>5

(* A policy that was paid once within the tolerance is judged neither. *)
LEMMA PaidIsNeither ==
    ASSUME situation \in Situations, NEW r \in Runs, NEW p \in DOMAIN situation.book,
           Payments(p) = 1, Abs(Owed(p)) <= 100 * Tolerance,
           NEW v \in Judged(r, situation), v.policy = p
    PROVE  v.status \notin Short \cup {"OVERPAID_DUPLICATE"}
<1> DEFINE total == FeedSum(Loaded(r, situation.lines), p)
           expected == situation.book[p].expected
           n == Payments(p)
           crm == situation.book[p].crm
           paid == Paid(p)
<1>1. v.status = Classify(expected, n, total, crm)
  <2>1. PICK w \in Judged(r, situation) :
           w.policy = p /\ w.status = Classify(expected, n, total, crm)
    BY VerdictOn
  <2>2. w = v
    BY <2>1, JudgedOnce
  <2> QED BY <2>1, <2>2
<1>2. /\ total \in Int /\ expected \in Nat /\ n = 1
      /\ paid \in Int /\ 100 * total - paid <= 50 /\ paid - 100 * total <= 50
  BY PaymentsAndSum, SituationsAssumption DEF BookEntry
<1>3. Abs(100 * expected - paid) <= 100 * Tolerance
  BY DEF Owed
<1> HIDE DEF total, expected, n, crm, paid
<1>4. -Tolerance <= total - expected /\ total - expected <= Tolerance
  BY <1>2, <1>3, TolerancesAssumption DEF Abs
<1>5. Classify(expected, n, total, crm) \in {"MATCHED", "CRM_MISMATCH"}
  BY <1>2, <1>4, TolerancesAssumption DEF Classify, Underpaid, Duplicated
<1> QED BY <1>1, <1>5 DEF Short

(* An item about a commission comes from a verdict. *)
LEMMA AboutVerdict ==
    ASSUME NEW r, NEW s, NEW i \in Items(r, s), i.reason \in AboutCommission
    PROVE  \E v \in Judged(r, s) :
              /\ v.policy = i.policy
              /\ v.status \in Short \cup {"OVERPAID_DUPLICATE"}
              /\ i.reason \in Claimable => v.status \in Short
<1>1. PICK f \in Noticed(r, s) : i = Mapped(f, Judged(r, s))
  BY DEF Items
<1>2. i.policy = f.policy /\ i.reason = f.reason
  BY <1>1, ItemFrom
<1>3. f.reason \notin OffVerdict /\ f.reason # "ROUNDING_DELTA"
  BY <1>2 DEF AboutCommission, OffVerdict
<1>4. PICK v \in Judged(r, s) : MadeFrom(f, v)
  BY <1>3, FindingFrom
<1>5. /\ v.policy = f.policy /\ f.reason = StatusToReason[v.status]
      /\ v.status \in {"MISSING_COMMISSION", "UNDERPAID", "OVERPAID_DUPLICATE",
                       "UNEXPECTED_PAYMENT"}
  BY <1>3, <1>4 DEF MadeFrom
<1>6. /\ v.status \in Short \cup {"OVERPAID_DUPLICATE"}
      /\ f.reason \in Claimable => v.status \in Short
  BY <1>2, <1>5, ReasonsOfStatus DEF AboutCommission, Short, Claimable
<1> QED BY <1>2, <1>5, <1>6

(* A leak the engine flags is an item, open and valued by its verdict. *)
Carried == {"MISSING_COMMISSION", "UNDERPAID", "OVERPAID_DUPLICATE", "UNEXPECTED_PAYMENT"}

LEMMA CarriedItem ==
    ASSUME NEW r, NEW s, NEW v \in Judged(r, s), v.status \in Carried
    PROVE  \E i \in Items(r, s) :
              /\ i.policy = v.policy /\ i.reason = StatusToReason[v.status]
              /\ ~Informational(i)
              /\ i.amount = AmountAtStake(v) /\ i.status = "open"
<1> DEFINE f == Detected(v.reason, v)
           i == Mapped(f, Judged(r, s))
<1>1. f \in Noticed(r, s)
  <2>1. f \in CarriedThrough(Judged(r, s))
    BY DEF CarriedThrough, Carried
  <2> QED BY <2>1 DEF Noticed, RunRules
<1>2. f.policy = v.policy /\ f.reason = StatusToReason[v.status]
  BY JudgedReason DEF Detected
<1> HIDE DEF f
<1>3. i \in Items(r, s) /\ i.policy = v.policy /\ i.reason = StatusToReason[v.status]
  BY <1>1, <1>2, ItemFrom DEF Items
<1> HIDE DEF i
<1>4. i.amount = AmountAtStake(v) /\ i.status = v.state
  BY <1>3, ItemOfVerdict
<1>5. v.state = "open"
  BY JudgedReason DEF Carried
<1>6. ~Informational(i)
  BY <1>3, ReasonsOfStatus DEF Informational, Carried
<1> QED BY <1>3, <1>4, <1>5, <1>6

(* A renewal that is owed is an item of its own. *)
LEMMA RenewalItem ==
    ASSUME NEW r, NEW s, NEW p \in DOMAIN s.book, s.book[p].renewalOwed
    PROVE  \E i \in Items(r, s) :
              /\ i.policy = p /\ i.reason = "RENEWAL_1PLUS1_NOT_PROVISIONED"
              /\ ~Informational(i)
<1> DEFINE f == Detected("RENEWAL_1PLUS1_NOT_PROVISIONED", [policy |-> p])
           i == Mapped(f, Judged(r, s))
<1>1. f \in Noticed(r, s)
  <2>1. f \in RenewalsOwed(s.book)
    BY DEF RenewalsOwed
  <2> QED BY <2>1 DEF Noticed, RunRules
<1>2. f.policy = p /\ f.reason = "RENEWAL_1PLUS1_NOT_PROVISIONED"
  BY DEF Detected
<1> HIDE DEF f
<1>3. /\ i \in Items(r, s) /\ i.policy = p
      /\ i.reason = "RENEWAL_1PLUS1_NOT_PROVISIONED"
  BY <1>1, <1>2, ItemFrom DEF Items
<1> QED BY <1>3 DEF Informational

-----------------------------------------------------------------------------
(* What the invariant says of a run through its actions *)

(* A run at an action node, with the parts of the invariant that say so. *)
ActingRun(r) ==
    /\ r \in Runs /\ situation \in Situations
    /\ RoutedAsGated(r) /\ Accounted(r) /\ Acted(r)
    /\ \A i \in state[r].plan : ItemOK(i)

LEMMA SoleActs ==
    ASSUME TypeInv, SoleInv, NEW r \in Runs, Sole(r), node[r] \in Acting
    PROVE  ActingRun(r)
  BY DEF TypeInv, RunsInv, SoleInv, Work, ActingRun

(* Before its action nodes a run has done nothing. *)
LEMMA SoleIdle ==
    ASSUME TypeInv, SoleInv, NEW r \in Runs, Sole(r), node[r] \notin Acting
    PROVE  node[r] \in Early /\ claims = {} /\ state[r].plan = {} /\ Handled(r) = {}
<1>1. node[r] \in Early
  BY DEF Sole, Active, TypeInv, RunsInv, Shape, Nodes, Acting, Early
<1> QED BY <1>1 DEF TypeInv, RunsInv, Accounted, SoleInv, Unacted, Work, Read

(* The fields of a claim. *)
LEMMA ClaimIs ==
    ASSUME NEW r, NEW i
    PROVE  /\ Lodged(r, i).run = r /\ Lodged(r, i).policy = i.policy
           /\ Lodged(r, i).reason = i.reason /\ Lodged(r, i).amount = i.amount
  BY DEF Lodged

(* What is handled is planned, and what is planned is an item. *)
LEMMA HandledAreItems ==
    ASSUME NEW r, ActingRun(r)
    PROVE  /\ \A o \in state[r].remediated \cup state[r].skipped \cup state[r].escalated :
                 o.item \in state[r].plan /\ o.item \in Handled(r)
           /\ \A i \in state[r].plan : i \in Items(r, situation) /\ ~Informational(i)
  BY DEF ActingRun, Accounted, Acted, PlanIs, ResultsAre, ClaimsAre, HandedOver, Rebilled, Handled

(* A settled verdict is a verdict of the engine, disputed or as it was. *)
LEMMA SettledIs ==
    ASSUME situation \in Situations, NEW r \in Runs, NEW v \in Judged(r, situation)
    PROVE  /\ Settled(r, v).policy = v.policy /\ Settled(r, v).status = v.status
           /\ Settled(r, v).actual = v.actual
           /\ ~BilledBy(r, v.policy) => Settled(r, v) = v
           /\ BilledBy(r, v.policy) => Settled(r, v).state = "disputed"
<1>1. VerdictOK(v)
  BY LoadedOK, ReconcileOK DEF Judged
<1> DEFINE u == [v EXCEPT !.state = "disputed"]
<1>2. u.policy = v.policy /\ u.status = v.status /\ u.state = "disputed" /\ u.actual = v.actual
  BY <1>1 DEF VerdictOK
<1> HIDE DEF u
<1>3. Settled(r, v) = IF BilledBy(r, v.policy) THEN u ELSE v
  BY DEF Settled, u
<1> QED BY <1>2, <1>3

(* The invariant gives each property its part. *)
LEMMA Happened ==
    ASSUME NEW r, ActingRun(r)
    PROVE  /\ \A o \in state[r].remediated :
                 IF o.action = "claim"
                 THEN \E c \in claims : \E x \in insurerCalls :
                          /\ x.run = r
                          /\ SameLeak(c, o.item) /\ SameLeak(x, o.item)
                          /\ c.amount = o.item.amount /\ x.amount = o.item.amount
                 ELSE /\ o.action = "rebill"
                      /\ \E b \in billingCalls : b.run = r /\ b.policy = o.item.policy
           /\ \A o \in state[r].escalated :
                 o.action = "escalation" /\ \E e \in escalations : SameLeak(e, o.item)
<1>1. ASSUME NEW o \in state[r].remediated, o.action = "claim"
      PROVE  \E c \in claims : \E x \in insurerCalls :
                /\ x.run = r
                /\ SameLeak(c, o.item) /\ SameLeak(x, o.item)
                /\ c.amount = o.item.amount /\ x.amount = o.item.amount
  <2> DEFINE c == Lodged(r, o.item)
  <2>1. c \in claims /\ c \in insurerCalls
    BY <1>1 DEF ActingRun, Acted, PlanIs, ResultsAre, ClaimsAre, HandedOver, Rebilled, LodgedBy
  <2>2. c.run = r /\ SameLeak(c, o.item) /\ c.amount = o.item.amount
    BY ClaimIs DEF SameLeak
  <2> HIDE DEF c
  <2> QED BY <2>1, <2>2
<1>2. ASSUME NEW o \in state[r].remediated, o.action # "claim"
      PROVE  /\ o.action = "rebill"
             /\ \E b \in billingCalls : b.run = r /\ b.policy = o.item.policy
  <2>1. o.action = "rebill"
    BY <1>2 DEF ActingRun, RoutedAsGated, RouteAction
  <2> QED BY <2>1
          DEF ActingRun, Acted, PlanIs, ResultsAre, ClaimsAre, HandedOver, Rebilled, BilledBy
<1>3. ASSUME NEW o \in state[r].escalated
      PROVE  o.action = "escalation" /\ \E e \in escalations : SameLeak(e, o.item)
  <2>1. o.item \in Escalated(r)
    BY DEF Escalated
  <2> QED BY <2>1 DEF ActingRun, Acted, HandedOver, RoutedAsGated
<1> QED BY <1>1, <1>2, <1>3

LEMMA ClaimOwed ==
    ASSUME NEW r, ActingRun(r), NEW c \in claims
    PROVE  c.policy \in DOMAIN situation.book /\ IsOwed(c.amount, c.policy)
<1>1. PICK o \in state[r].remediated : o.action = "claim" /\ c = Lodged(r, o.item)
  BY DEF ActingRun, Acted, PlanIs, ResultsAre, ClaimsAre, HandedOver, Rebilled, LodgedBy
<1>2. o.item.reason \in Claimable /\ ValidateAction(o.item) = "OK"
  BY <1>1 DEF ActingRun, RoutedAsGated, RouteAction
<1>3. o.item \in Items(r, situation) /\ o.item.reason \in AboutCommission
  BY <1>2, HandledAreItems DEF Claimable, AboutCommission
<1>4. PICK v \in Judged(r, situation) : v.policy = o.item.policy /\ v.status \in Short
  BY <1>2, <1>3, AboutVerdict
<1>5. o.item.amount = AmountAtStake(v)
  BY <1>3, <1>4, ItemOfVerdict
<1>6. v.policy \in DOMAIN situation.book /\ IsOwed(AmountAtStake(v), v.policy)
  BY <1>4, ShortIsOwed DEF ActingRun
<1>7. c.policy = v.policy /\ c.amount = AmountAtStake(v)
  BY <1>1, <1>4, <1>5, ClaimIs
<1> QED BY <1>6, <1>7

LEMMA LeftAlone ==
    ASSUME NEW r, ActingRun(r), NEW p \in DOMAIN situation.book,
           Payments(p) = 1, Abs(Owed(p)) <= 100 * Tolerance,
           NEW i \in state[r].plan, i.policy = p
    PROVE  i.reason \notin AboutCommission
<1> SUFFICES ASSUME i.reason \in AboutCommission PROVE FALSE
  OBVIOUS
<1>1. i \in Items(r, situation)
  BY HandledAreItems
<1>2. PICK v \in Judged(r, situation) :
         v.policy = p /\ v.status \in Short \cup {"OVERPAID_DUPLICATE"}
  BY <1>1, AboutVerdict
<1> QED BY <1>2, PaidIsNeither DEF ActingRun

LEMMA Pursued ==
    ASSUME NEW r, ActingRun(r), node[r] = "finalize", NEW p \in DOMAIN situation.book,
           Payments(p) = 0 \/ (Payments(p) = 1 /\ Owed(p) > 100 * Tolerance + 50)
    PROVE  \/ \E x \in insurerCalls : x.run = r /\ x.policy = p /\ IsOwed(x.amount, p)
           \/ \E i \in Escalated(r) : i.policy = p /\ IsOwed(i.amount, p)
           \/ Owed(p) < 100 * MinClaim + 50
<1>1. PICK v \in Judged(r, situation) : v.policy = p /\ v.status \in Short
  BY OwedIsShort DEF ActingRun
<1>2. PICK i \in Items(r, situation) :
         /\ i.policy = p /\ i.reason = StatusToReason[v.status] /\ ~Informational(i)
         /\ i.amount = AmountAtStake(v) /\ i.status = "open"
  BY <1>1, CarriedItem DEF Short, Carried
<1>3. IsOwed(i.amount, p) /\ Owed(p) \in Int /\ Payments(p) \in {0, 1}
  BY <1>1, <1>2, ShortIsOwed DEF ActingRun
<1>4. i.reason \in Claimable
  BY <1>1, <1>2, ReasonsOfStatus DEF Short, Claimable
<1>5. i \in state[r].plan /\ i \in Handled(r)
  BY <1>2 DEF ActingRun, Acted, PlanIs, ResultsAre, ClaimsAre, HandedOver, Rebilled, Accounted
<1>6. PICK o \in state[r].remediated \cup state[r].skipped \cup state[r].escalated : o.item = i
  BY <1>5 DEF Handled
<1>7. CASE o \in state[r].remediated
  <2>1. o.action = "claim"
    BY <1>4, <1>6, <1>7 DEF ActingRun, RoutedAsGated, RouteAction
  <2> QED BY <1>2, <1>3, <1>6, <1>7, <2>1, Happened DEF SameLeak
<1>8. CASE o \in state[r].skipped
  <2>1. i.amount < MinClaim
    BY <1>6, <1>8 DEF ActingRun, RoutedAsGated, ValidateAction
  <2>2. i.amount \in Nat
    BY <1>5 DEF ActingRun, ItemOK
  <2>3. Abs(100 * i.amount - Owed(p)) <= 50
    BY <1>3, <2>2 DEF IsOwed, Abs
  <2> QED BY <1>3, <2>1, <2>2, <2>3, ThresholdsAssumption DEF Abs
<1>9. CASE o \in state[r].escalated
  BY <1>2, <1>3, <1>6, <1>9 DEF Escalated
<1> QED BY <1>6, <1>7, <1>8, <1>9

LEMMA DealtWith ==
    ASSUME NEW r, ActingRun(r), node[r] = "finalize",
           NEW v \in results, v.state # "", v.status # "CRM_MISMATCH"
    PROVE  \E i \in Handled(r) : i.policy = v.policy
<1>1. PICK u \in Judged(r, situation) : v = Settled(r, u)
  BY DEF ActingRun, Acted, PlanIs, ResultsAre, ClaimsAre, HandedOver, Rebilled
<1>2. /\ v.policy = u.policy /\ v.status = u.status
      /\ ~BilledBy(r, u.policy) => v = u
  BY <1>1, SettledIs DEF ActingRun
<1>3. CASE BilledBy(r, u.policy)
  <2>1. PICK b \in billingCalls : b.run = r /\ b.policy = u.policy
    BY <1>3 DEF BilledBy
  <2>2. PICK o \in state[r].remediated : o.item.policy = b.policy
    BY <2>1 DEF ActingRun, Acted, PlanIs, ResultsAre, ClaimsAre, HandedOver, Rebilled
  <2> QED BY <1>2, <2>1, <2>2, HandledAreItems
<1>4. CASE ~BilledBy(r, u.policy)
  <2>1. u.status \in Carried
    BY <1>2, <1>4, JudgedReason DEF Carried, ReconciliationClass
  <2>2. PICK i \in Items(r, situation) : i.policy = u.policy /\ ~Informational(i)
    BY <2>1, CarriedItem
  <2>3. i \in state[r].plan
    BY <2>2 DEF ActingRun, Acted, PlanIs, ResultsAre, ClaimsAre, HandedOver, Rebilled
  <2>4. i \in Handled(r)
    BY <2>3 DEF ActingRun, Accounted
  <2> QED BY <1>2, <2>2, <2>4
<1> QED BY <1>3, <1>4

LEMMA RenewalHandled ==
    ASSUME NEW r, ActingRun(r), node[r] = "finalize", NEW p \in DOMAIN situation.book,
           situation.book[p].renewalOwed,
           \A v \in results : v.policy = p => v.status = "MATCHED"
    PROVE  /\ \E i \in Escalated(r) :
                 i.policy = p /\ i.reason = "RENEWAL_1PLUS1_NOT_PROVISIONED"
           /\ \A b \in billingCalls : b.run = r => b.policy # p
<1>1. ASSUME NEW u \in Judged(r, situation), u.policy = p
      PROVE  u.state = ""
  <2>1. Settled(r, u) \in results
    BY DEF ActingRun, Acted, PlanIs, ResultsAre, ClaimsAre, HandedOver, Rebilled
  <2>2. u.status = "MATCHED"
    BY <1>1, <2>1, SettledIs DEF ActingRun
  <2> QED BY <2>2, JudgedReason
<1>2. ASSUME NEW i \in Items(r, situation), i.policy = p
      PROVE  i.status # "open"
  BY <1>1, <1>2, OpenItem
<1>3. PICK i \in Items(r, situation) :
         /\ i.policy = p /\ i.reason = "RENEWAL_1PLUS1_NOT_PROVISIONED" /\ ~Informational(i)
  BY RenewalItem
<1>4. Target(i) = "escalate"
  BY <1>2, <1>3 DEF Target, ShouldEscalate, ValidateAction
<1>5. i \in Handled(r)
  BY <1>3 DEF ActingRun, Acted, PlanIs, ResultsAre, ClaimsAre, HandedOver, Rebilled, Accounted
<1>6. i \in Escalated(r)
  <2>1. PICK o \in state[r].remediated \cup state[r].skipped \cup state[r].escalated :
           o.item = i
    BY <1>5 DEF Handled
  <2>2. o \in state[r].escalated
    BY <1>4, <2>1 DEF ActingRun, RoutedAsGated
  <2> QED BY <2>1, <2>2 DEF Escalated
<1>7. ASSUME NEW b \in billingCalls, b.run = r, b.policy = p
      PROVE  FALSE
  <2>1. PICK o \in state[r].remediated : o.item.policy = p
    BY <1>7 DEF ActingRun, Acted, PlanIs, ResultsAre, ClaimsAre, HandedOver, Rebilled
  <2>2. o.item.status = "open" /\ o.item \in Items(r, situation)
    BY <2>1, HandledAreItems DEF ActingRun, RoutedAsGated, ValidateAction
  <2> QED BY <1>2, <2>1, <2>2
<1> QED BY <1>3, <1>6, <1>7

-----------------------------------------------------------------------------
(* What a step of r leaves alone *)

(* The other runs stay as they are, and so do their calls. *)
Frame(r) ==
    /\ situation' = situation
    /\ \A q \in Runs \ {r} : /\ node'[q] = node[q] /\ SameLists(q)
                             /\ state'[q].seen = state[q].seen
                             /\ state'[q].alone => state[q].alone
    /\ \A x \in insurerCalls' : x \in insurerCalls \/ x.run = r
    /\ \A b \in billingCalls' : b \in billingCalls \/ b.run = r
    /\ \A f \in persisted' : f \in persisted \/ f.run = r
    /\ persisted \subseteq persisted'

SameMarks(q) == state'[q].seen = state[q].seen /\ state'[q].alone = state[q].alone

(* A step other than the first one of a run marks nothing. *)
LEMMA MarksStay ==
    ASSUME Shape, NEW r \in Runs, Step(r) \/ Fail(r), ~ResetActionTables(r)
    PROVE  \A q \in Runs : SameMarks(q) /\ (q # r => SameLists(q) /\ node'[q] = node[q])
<1>1. CASE UNCHANGED state
  <2>1. \A q \in Runs \ {r} : node'[q] = node[q]
    BY <1>1 DEF Shape, Step, Fail, BeginLoad, CommitLoad, BeginReconcile, CommitReconcile, Goto,
       Detect, Decide, Remediate, Escalate, Proceed, Stamp, Finalize
  <2> QED BY <1>1, <2>1 DEF SameMarks, SameLists
<1>2. CASE Detect(r)
  <2> DEFINE found == RunRules(situation.book, results)
             odd   == Novel(feed, found) \cap situation.outliers
             all   == found \cup Anomalies(odd)
  <2>1. state' = [state EXCEPT ![r].findings = all] /\ Goto(r, "decide")
    BY <1>2 DEF Detect
  <2> HIDE DEF all
  <2> QED BY <2>1 DEF Shape, SameMarks, SameLists, Fields, Goto
<1>3. CASE Decide(r)
  <2>1. PICK items :
           /\ state' = [state EXCEPT
                           ![r].plan = {i \in items : ~Informational(i)},
                           ![r].informational = items \ {i \in items : ~Informational(i)}]
           /\ \A q \in Runs \ {r} : node'[q] = node[q]
    BY <1>3 DEF Decide, Goto, Shape
  <2> DEFINE plan == {i \in items : ~Informational(i)}
             others == items \ plan
  <2>2. state' = [state EXCEPT ![r].plan = plan, ![r].informational = others]
    BY <2>1
  <2> HIDE DEF plan, others
  <2> QED BY <2>1, <2>2 DEF Shape, SameMarks, SameLists, Fields
<1>4. CASE Remediate(r) \/ Escalate(r)
  <2>1. PICK list \in {"remediated", "skipped", "escalated"} : \E item, action :
           Outcome(r, list, item, action)
    BY <1>4 DEF Remediate, Escalate
  <2>2. PICK new : state' = [state EXCEPT ![r][list] = @ \cup {new}]
    BY <2>1 DEF Outcome
  <2>3. UNCHANGED node
    BY <1>4 DEF Remediate, Escalate
  <2> QED BY <2>2, <2>3 DEF Shape, SameMarks, SameLists, Fields
<1>5. Detect(r) \/ Decide(r) \/ Remediate(r) \/ Escalate(r) \/ UNCHANGED state
  BY DEF Step, Fail, BeginLoad, CommitLoad, BeginReconcile, CommitReconcile, Proceed,
     Stamp, Finalize
<1> QED BY <1>1, <1>2, <1>3, <1>4, <1>5

(* The marks a run begins with. *)
LEMMA StartMarks ==
    ASSUME Shape, NEW r \in Runs, Starts(r)
    PROVE  /\ state'[r].seen = situation /\ state'[r].alone = (Others(r) = {})
           /\ \A q \in Runs \ {r} : /\ state'[q].seen = state[q].seen
                                    /\ state'[q].alone = (state[q].alone /\ q \notin Others(r))
  BY DEF Shape, Starts, Fields

(* A step adds calls of its own run only. *)
LEMMA CallsFrame ==
    ASSUME NEW r \in Runs, Step(r) \/ Fail(r)
    PROVE  /\ situation' = situation
           /\ \A x \in insurerCalls' : x \in insurerCalls \/ x.run = r
           /\ \A b \in billingCalls' : b \in billingCalls \/ b.run = r
           /\ \A f \in persisted' : f \in persisted \/ f.run = r
           /\ persisted \subseteq persisted'
<1>1. CASE Remediate(r)
  BY <1>1, RemediatePlan DEF RemediateAsPlanned, Blocks, Lodges, Asks, RouteToClaim,
     RouteToRebilling, Lodged, Asked, external
<1>2. CASE Fail(r)
  BY <1>2 DEF Fail, Lodged, Asked, tables, external
<1>3. CASE Finalize(r)
  BY <1>3 DEF Finalize, PersistedFindings, external
<1>4. CASE ~(Remediate(r) \/ Fail(r) \/ Finalize(r))
  BY <1>4, EscalatePlan DEF Step, ResetActionTables, BeginLoad, CommitLoad, BeginReconcile,
     CommitReconcile, Detect, Decide, EscalateAsPlanned, Proceed, Stamp, tables, external
<1> QED BY <1>1, <1>2, <1>3, <1>4

LEMMA StepFrame ==
    ASSUME Shape, NEW r \in Runs, Step(r) \/ Fail(r)
    PROVE  Frame(r)
<1>1. CASE ResetActionTables(r)
  <2>1. Starts(r)
    BY <1>1 DEF ResetActionTables
  <2> QED BY <2>1, StartMarks, StartPasses, CallsFrame DEF Frame, Passes
<1>2. CASE ~ResetActionTables(r)
  <2> QED BY <1>2, MarksStay, CallsFrame DEF Frame, SameMarks
<1> QED BY <1>1, <1>2

-----------------------------------------------------------------------------
(* The parts of the invariant that hold of every run *)

(* What a run has done stays what it was. *)
SameOutcomes(q) ==
    /\ state'[q].remediated = state[q].remediated
    /\ state'[q].skipped = state[q].skipped
    /\ state'[q].escalated = state[q].escalated

LEMMA RoutedSame ==
    ASSUME NEW q \in Runs, RoutedAsGated(q), SameOutcomes(q)
    PROVE  RoutedAsGated(q)'
  BY DEF RoutedAsGated, SameOutcomes, Target, Informational, ShouldEscalate, HighValue,
     ValidateAction, RouteAction

(* The lists of r after its own step. *)
LEMMA OwnLists ==
    ASSUME TypeInv, NEW r \in Runs, Step(r) \/ Fail(r),
           ~Decide(r), ~Remediate(r), ~Escalate(r)
    PROVE  SameLists(r)
<1>1. CASE Proceed(r)
  BY <1>1 DEF Proceed, SameLists
<1>2. CASE ~Proceed(r)
  BY <1>2, PassingSteps DEF Step, TypeInv, Passes
<1> QED BY <1>1, <1>2

LEMMA OutcomeIs ==
    ASSUME Shape, NEW r \in Runs, NEW list \in {"remediated", "skipped", "escalated"},
           NEW item, NEW action, Outcome(r, list, item, action)
    PROVE  /\ state'[r].plan = state[r].plan
           /\ state'[r].informational = state[r].informational
           /\ state'[r][list] = state[r][list] \cup {[item |-> item, action |-> action]}
           /\ \A other \in {"remediated", "skipped", "escalated"} \ {list} :
                 state'[r][other] = state[r][other]
<1> DEFINE new == [item |-> item, action |-> action]
<1>1. state' = [state EXCEPT ![r][list] = @ \cup {new}]
  BY DEF Outcome
<1> HIDE DEF new
<1>2. /\ state'[r].plan = state[r].plan
      /\ state'[r].informational = state[r].informational
      /\ state'[r][list] = state[r][list] \cup {new}
      /\ \A other \in {"remediated", "skipped", "escalated"} \ {list} :
                 state'[r][other] = state[r][other]
  BY <1>1 DEF Shape, Fields
<1> QED BY <1>2 DEF new

(* The outcomes of r after its step. *)
Lists(r, remediated, skipped, escalated) ==
    /\ state'[r].plan = state[r].plan /\ state'[r].informational = state[r].informational
    /\ state'[r].remediated = remediated /\ state'[r].skipped = skipped
    /\ state'[r].escalated = escalated

(* What the action nodes do with an item. *)
Skips(r, item) ==
    /\ Target(item) = "remediate" /\ ValidateAction(item) = "TOO_SMALL"
    /\ Lists(r, state[r].remediated,
             state[r].skipped \cup {[item |-> item, action |-> "blocked"]},
             state[r].escalated)
    /\ UNCHANGED <<results, claims, external, escalations>>
Claims(r, item) ==
    /\ Target(item) = "remediate" /\ ValidateAction(item) = "OK"
    /\ RouteAction(item) = "claim" /\ RouteToClaim(r, item)
    /\ Lists(r, state[r].remediated \cup {[item |-> item, action |-> "claim"]},
             state[r].skipped, state[r].escalated)
    /\ UNCHANGED <<results, billingCalls, escalations>>
Rebills(r, item) ==
    /\ Target(item) = "remediate" /\ ValidateAction(item) = "OK"
    /\ RouteAction(item) = "rebill" /\ RouteToRebilling(r, item)
    /\ Lists(r, state[r].remediated \cup {[item |-> item, action |-> "rebill"]},
             state[r].skipped, state[r].escalated)
    /\ UNCHANGED <<claims, insurerCalls, escalations>>
HandsOver(r, item) ==
    /\ Target(item) = "escalate" /\ RouteToHuman(r, item)
    /\ Lists(r, state[r].remediated, state[r].skipped,
             state[r].escalated \cup {[item |-> item, action |-> "escalation"]})
    /\ UNCHANGED <<results, claims, external>>

(* A call of route does one of the four. *)
LEMMA RouteCall ==
    ASSUME Shape, NEW r \in Runs, Remediate(r) \/ Escalate(r)
    PROVE  /\ UNCHANGED <<situation, feed, persisted, node, rewrite>>
           /\ node[r] \in {"remediate", "escalate"}
           /\ \E item \in state[r].plan \ Handled(r) :
                 Skips(r, item) \/ Claims(r, item) \/ Rebills(r, item) \/ HandsOver(r, item)
<1>1. CASE Remediate(r)
  <2>1. RemediateAsPlanned(r)
    BY <1>1, RemediatePlan
  <2>2. PICK item \in NextItems(r, "remediate") :
           Blocks(r, item) \/ Lodges(r, item) \/ Asks(r, item)
    BY <2>1 DEF RemediateAsPlanned
  <2>3. item \in state[r].plan \ Handled(r) /\ Target(item) = "remediate"
    BY DEF NextItems, Pending
  <2>4. UNCHANGED escalations
    BY <2>1 DEF RemediateAsPlanned
  <2>5. Outcome(r, "skipped", item, "blocked") =>
           Lists(r, state[r].remediated,
                 state[r].skipped \cup {[item |-> item, action |-> "blocked"]},
                 state[r].escalated)
    BY OutcomeIs DEF Lists
  <2>6. \A action : Outcome(r, "remediated", item, action) =>
           Lists(r, state[r].remediated \cup {[item |-> item, action |-> action]},
                 state[r].skipped, state[r].escalated)
    BY OutcomeIs DEF Lists
  <2>7. Skips(r, item) \/ Claims(r, item) \/ Rebills(r, item)
    BY <2>2, <2>3, <2>4, <2>5, <2>6 DEF Skips, Claims, Rebills, Blocks, Lodges, Asks
  <2> QED BY <2>1, <2>3, <2>7 DEF RemediateAsPlanned
<1>2. CASE Escalate(r)
  <2>1. EscalateAsPlanned(r)
    BY <1>2, EscalatePlan
  <2>2. PICK item \in NextItems(r, "escalate") :
           RouteToHuman(r, item) /\ Outcome(r, "escalated", item, "escalation")
    BY <2>1 DEF EscalateAsPlanned
  <2>3. item \in state[r].plan \ Handled(r) /\ Target(item) = "escalate"
    BY DEF NextItems, Pending
  <2>4. Lists(r, state[r].remediated, state[r].skipped,
              state[r].escalated \cup {[item |-> item, action |-> "escalation"]})
    BY <2>2, OutcomeIs DEF Lists
  <2>5. HandsOver(r, item)
    BY <2>1, <2>2, <2>3, <2>4 DEF HandsOver, EscalateAsPlanned
  <2> QED BY <2>1, <2>3, <2>5 DEF EscalateAsPlanned
<1> QED BY <1>1, <1>2

LEMMA RoutedNext ==
    ASSUME TypeInv, SoleInv, NEW r \in Runs, Step(r) \/ Fail(r)
    PROVE  \A q \in Runs : RoutedAsGated(q)'
<1>1. \A q \in Runs : RoutedAsGated(q)
  BY DEF SoleInv
<1>2. \A q \in Runs \ {r} : RoutedAsGated(q)'
  BY <1>1, StepFrame, RoutedSame DEF TypeInv, RunsInv, Frame, SameLists, SameOutcomes
<1>3. CASE Decide(r)
  <2>1. SameOutcomes(r)
    <3>1. PICK items :
             state' = [state EXCEPT
                           ![r].plan = {i \in items : ~Informational(i)},
                           ![r].informational = items \ {i \in items : ~Informational(i)}]
      BY <1>3 DEF Decide
    <3> DEFINE plan == {i \in items : ~Informational(i)}
               others == items \ plan
    <3>2. state' = [state EXCEPT ![r].plan = plan, ![r].informational = others]
      BY <3>1
    <3> HIDE DEF plan, others
    <3> QED BY <3>2 DEF TypeInv, RunsInv, Shape, SameOutcomes, Fields
  <2> QED BY <1>1, <1>2, <2>1, RoutedSame
<1>4. CASE Remediate(r) \/ Escalate(r)
  <2>1. PICK item :
           Skips(r, item) \/ Claims(r, item) \/ Rebills(r, item) \/ HandsOver(r, item)
    BY <1>4, RouteCall DEF TypeInv, RunsInv
  <2> DEFINE T(i) == Target(i)
             V(i) == ValidateAction(i)
             A(i) == RouteAction(i)
  <2>2. /\ \A o \in state'[r].remediated :
              o \in state[r].remediated
              \/ /\ T(o.item) = "remediate" /\ V(o.item) = "OK" /\ o.action = A(o.item)
        /\ \A o \in state'[r].skipped :
              o \in state[r].skipped \/ (T(o.item) = "remediate" /\ V(o.item) = "TOO_SMALL")
        /\ \A o \in state'[r].escalated :
              o \in state[r].escalated \/ (T(o.item) = "escalate" /\ o.action = "escalation")
    <3> HIDE DEF T, V, A
    <3>1. CASE Skips(r, item)
      BY <3>1 DEF Skips, Lists, T, V, A
    <3>2. CASE Claims(r, item)
      BY <3>2 DEF Claims, Lists, T, V, A
    <3>3. CASE Rebills(r, item)
      BY <3>3 DEF Rebills, Lists, T, V, A
    <3>4. CASE HandsOver(r, item)
      BY <3>4 DEF HandsOver, Lists, T, V, A
    <3> QED BY <2>1, <3>1, <3>2, <3>3, <3>4
  <2>3. RoutedAsGated(r)'
    BY <1>1, <2>2 DEF RoutedAsGated, Target, Informational, ShouldEscalate, HighValue,
       ValidateAction, RouteAction
  <2> QED BY <1>2, <2>3
<1>5. CASE ~(Decide(r) \/ Remediate(r) \/ Escalate(r))
  <2>1. SameLists(r)
    BY <1>5, OwnLists
  <2> QED BY <1>1, <1>2, <2>1, RoutedSame DEF SameLists, SameOutcomes
<1> QED BY <1>3, <1>4, <1>5

(* The nodes a step leads from and to. *)
LEMMA EarlySteps ==
    ASSUME Shape, NEW r \in Runs, Step(r) \/ Fail(r), node'[r] \in Early
    PROVE  /\ node[r] \in Early /\ UNCHANGED external
           /\ ~Decide(r) /\ ~Remediate(r) /\ ~Escalate(r) /\ ~Finalize(r)
<1>1. CASE ResetActionTables(r)
  <2>1. node[r] = "new" /\ UNCHANGED external
    BY <1>1 DEF ResetActionTables, MayBegin
  <2> QED BY <2>1 DEF Early, Decide, Remediate, Escalate, Finalize
<1>2. CASE BeginLoad(r) \/ CommitLoad(r) \/ BeginReconcile(r) \/ CommitReconcile(r) \/ Detect(r)
  <2>1. node[r] \in {"intake", "load", "reconcile", "verdicts", "detect"} /\ UNCHANGED external
    BY <1>2 DEF BeginLoad, CommitLoad, BeginReconcile, CommitReconcile, Detect
  <2> QED BY <2>1 DEF Early, Decide, Remediate, Escalate, Finalize
<1>3. CASE Decide(r)
  <2>1. node'[r] \in {"finalize", "remediate"}
    BY <1>3 DEF Decide, Goto, Shape
  <2> QED BY <2>1 DEF Early
<1>4. CASE Remediate(r) \/ Escalate(r)
  <2>1. node'[r] = node[r] /\ node[r] \in {"remediate", "escalate"}
    BY <1>4 DEF Remediate, Escalate
  <2> QED BY <2>1 DEF Early
<1>5. CASE Proceed(r) \/ Stamp(r) \/ Finalize(r) \/ Fail(r)
  <2>1. node'[r] \in {"escalate", "finalize", "complete", "failed"}
    BY <1>5 DEF Proceed, Stamp, Finalize, Fail, Goto, Shape
  <2> QED BY <2>1 DEF Early
<1> QED BY <1>1, <1>2, <1>3, <1>4, <1>5 DEF Step

(* What a run has not done yet, it has not done after a step either. *)
LEMMA UnactedNext ==
    ASSUME TypeInv, SoleInv, NEW r \in Runs, Step(r) \/ Fail(r)
    PROVE  \A q \in Runs : Unacted(q)'
<1>1. Shape /\ Frame(r) /\ \A q \in Runs : Unacted(q)
  BY StepFrame DEF TypeInv, RunsInv, SoleInv
<1>2. \A q \in Runs \ {r} : Unacted(q)'
  BY <1>1 DEF Unacted, Frame, SameLists
<1>3. ASSUME node'[r] \in Early
      PROVE  /\ state'[r].plan = {} /\ state'[r].informational = {}
             /\ \A x \in insurerCalls' \cup billingCalls' : x.run # r
  <2>1. /\ node[r] \in Early /\ UNCHANGED external
        /\ ~Decide(r) /\ ~Remediate(r) /\ ~Escalate(r)
    BY <1>1, <1>3, EarlySteps
  <2>2. SameLists(r)
    BY <2>1, OwnLists
  <2> QED BY <1>1, <2>1, <2>2 DEF Unacted, SameLists, external
<1>4. ASSUME node'[r] # "complete"
      PROVE  \A f \in persisted' : f.run # r
  <2>1. node[r] # "complete"
    BY <1>1 DEF Step, Fail, ResetActionTables, MayBegin, BeginLoad, CommitLoad, BeginReconcile,
       CommitReconcile, Detect, Decide, Remediate, Escalate, Proceed, Stamp, Finalize, Active
  <2>2. ~Finalize(r)
    BY <1>1, <1>4 DEF Finalize, Goto, Shape
  <2>3. UNCHANGED persisted
    BY <2>2 DEF Step, Fail, ResetActionTables, BeginLoad, CommitLoad,
         BeginReconcile, CommitReconcile, Detect, Decide, Remediate, Escalate, Proceed, Stamp,
         tables
  <2> QED BY <1>1, <2>1, <2>3 DEF Unacted
<1> QED BY <1>2, <1>3, <1>4 DEF Unacted

(* What a run saw is what there is while it is active. *)
LEMMA SeenNext ==
    ASSUME TypeInv, SoleInv, NEW r \in Runs, Step(r) \/ Fail(r)
    PROVE  \A q \in Runs : /\ state'[q].seen \in Situations
                           /\ Active(q)' => state'[q].seen = situation'
<1>1. /\ Shape /\ Frame(r) /\ situation \in Situations
      /\ \A q \in Runs : /\ state[q].seen \in Situations
                         /\ Active(q) => state[q].seen = situation
  BY StepFrame DEF TypeInv, RunsInv, SoleInv
<1>2. \A q \in Runs \ {r} : /\ state'[q].seen \in Situations
                             /\ Active(q)' => state'[q].seen = situation'
  BY <1>1 DEF Frame, Active
<1>3. CASE ResetActionTables(r)
  <2>1. state'[r].seen = situation
    BY <1>1, <1>3, StartMarks DEF ResetActionTables
  <2> QED BY <1>1, <1>2, <2>1 DEF Frame
<1>4. CASE ~ResetActionTables(r)
  <2>1. state'[r].seen = state[r].seen
    BY <1>1, <1>4, MarksStay DEF SameMarks
  <2>2. Active(r)
    BY <1>4 DEF Step, Fail, BeginLoad, CommitLoad, BeginReconcile,
       CommitReconcile, Detect, Decide, Remediate, Escalate, Proceed, Stamp, Finalize, Active
  <2> QED BY <1>1, <1>2, <2>1, <2>2 DEF Frame
<1> QED BY <1>3, <1>4

(* A step of another run ends being alone. *)
LEMMA OnlyItself ==
    ASSUME TypeInv, SoleInv, NEW r \in Runs, Step(r) \/ Fail(r), NEW q \in Runs \ {r}
    PROVE  ~Sole(q)'
<1>1. Shape /\ Frame(r)
  BY StepFrame DEF TypeInv, RunsInv
<1> SUFFICES ASSUME Sole(q)' PROVE FALSE
  OBVIOUS
<1>2. Active(q) /\ state[q].alone /\ state'[q].alone
  BY <1>1 DEF Frame, Sole, Active
<1>3. CASE ResetActionTables(r)
  <2>1. state'[q].alone = (state[q].alone /\ q \notin Others(r))
    BY <1>1, <1>3, StartMarks DEF ResetActionTables
  <2>2. q \in Others(r)
    BY <1>2 DEF Others
  <2> QED BY <1>2, <2>1, <2>2
<1>4. CASE ~ResetActionTables(r)
  <2>1. Active(r)
    BY <1>4 DEF Step, Fail, BeginLoad, CommitLoad, BeginReconcile,
       CommitReconcile, Detect, Decide, Remediate, Escalate, Proceed, Stamp, Finalize, Active
  <2>2. Work(q)
    BY <1>2 DEF SoleInv, Sole
  <2> QED BY <2>1, <2>2 DEF Work
<1> QED BY <1>3, <1>4

(* Before a run's own step it is alone if it is so afterwards, unless the  *)
(* step is its first.                                                      *)
LEMMA SoleBefore ==
    ASSUME TypeInv, SoleInv, NEW r \in Runs, Step(r) \/ Fail(r), ~ResetActionTables(r),
           state'[r].alone
    PROVE  Sole(r) /\ Work(r)
<1>1. state[r].alone
  BY MarksStay DEF TypeInv, RunsInv, SameMarks
<1>2. Active(r)
  BY DEF Step, Fail, BeginLoad, CommitLoad, BeginReconcile,
     CommitReconcile, Detect, Decide, Remediate, Escalate, Proceed, Stamp, Finalize, Active
<1> QED BY <1>1, <1>2 DEF Sole, SoleInv

(* A step of r makes no other run active. *)
LEMMA OthersIdle ==
    ASSUME TypeInv, NEW r \in Runs, Step(r) \/ Fail(r), \A q \in Runs \ {r} : ~Active(q)
    PROVE  \A q \in Runs \ {r} : ~Active(q)'
  BY StepFrame DEF TypeInv, RunsInv, Frame, Active

-----------------------------------------------------------------------------
(* What a run that nobody overlaps reads *)

(* Each node before the action nodes reads what the node before it left. *)
LEMMA ReadEarly ==
    ASSUME TypeInv, SoleInv, NEW r \in Runs, Work(r),
           BeginLoad(r) \/ CommitLoad(r) \/ BeginReconcile(r) \/ CommitReconcile(r) \/ Detect(r)
    PROVE  Read(r)'
<1> DEFINE L == Loaded(r, situation.lines)
           J == Judged(r, situation)
<1>1. Read(r) /\ Shape /\ DOMAIN rewrite = Runs
  BY DEF Work, TypeInv, RunsInv
<1>2. claims' = {} /\ escalations' = {} /\ situation' = situation
  <2>1. node[r] \in Early
    BY DEF BeginLoad, CommitLoad, BeginReconcile, CommitReconcile, Detect, Early
  <2>2. UNCHANGED <<claims, escalations, situation>>
    BY DEF BeginLoad, CommitLoad, BeginReconcile, CommitReconcile, Detect, tables
  <2> QED BY <1>1, <2>1, <2>2 DEF Read
<1>3. L' = L /\ J' = J
  BY <1>2
<1>4. CASE BeginLoad(r)
  <2>1. /\ node'[r] = "load" /\ feed' = feed
        /\ rewrite'[r] = [delete |-> feed, insert |-> L]
    BY <1>1, <1>4 DEF BeginLoad, Goto, Shape, tables
  <2> QED BY <1>2, <1>3, <2>1 DEF Read, AfterLoad
<1>5. CASE CommitLoad(r)
  <2>1. rewrite[r] = [delete |-> feed, insert |-> L]
    BY <1>1, <1>5 DEF CommitLoad, Read
  <2>2. node'[r] = "reconcile" /\ feed' = L
    <3> HIDE DEF L
    <3> QED BY <1>1, <1>5, <2>1 DEF CommitLoad, Goto, Shape
  <2> QED BY <1>2, <1>3, <2>2 DEF Read
<1>6. CASE BeginReconcile(r)
  <2>1. feed = L /\ node[r] = "reconcile"
    BY <1>1, <1>6 DEF BeginReconcile, Read, AfterLoad
  <2>2. J = Reconcile(r, situation.book, feed)
    BY <2>1 DEF Judged
  <2>3. /\ node'[r] = "verdicts" /\ feed' = feed /\ results' = results
        /\ rewrite'[r] = [delete |-> results, insert |-> J]
    BY <1>1, <1>6, <2>2 DEF BeginReconcile, Goto, Shape, tables
  <2> QED BY <1>2, <1>3, <2>1, <2>3 DEF Read
<1>7. CASE CommitReconcile(r)
  <2>1. rewrite[r] = [delete |-> results, insert |-> J] /\ feed = L
    BY <1>1, <1>7 DEF CommitReconcile, Read, AfterLoad
  <2>2. node'[r] = "detect" /\ feed' = feed /\ results' = J
    <3> HIDE DEF J, L
    <3>1. {v \in results : \A d \in results : ~SameVerdict(v, d)} = {}
      BY DEF SameVerdict
    <3>2. results' = {v \in results : \A d \in rewrite[r].delete : ~SameVerdict(v, d)}
                        \cup rewrite[r].insert
      BY <1>7 DEF CommitReconcile
    <3>3. rewrite[r].delete = results /\ rewrite[r].insert = J
      BY <2>1
    <3>4. results' = J
      BY <3>1, <3>2, <3>3
    <3> QED BY <1>1, <1>7, <3>4 DEF CommitReconcile, Goto, Shape
  <2> QED BY <1>2, <1>3, <2>1, <2>2 DEF Read
<1>8. CASE Detect(r)
  <2>1. feed = L /\ results = J
    BY <1>1, <1>8 DEF Detect, Read, AfterLoad
  <2> DEFINE found == RunRules(situation.book, results)
             odd   == Novel(feed, found) \cap situation.outliers
             all   == found \cup Anomalies(odd)
  <2>2. all = Noticed(r, situation)
    BY <2>1 DEF Noticed
  <2>3. /\ state' = [state EXCEPT ![r].findings = all] /\ Goto(r, "decide")
        /\ UNCHANGED <<feed, results>>
    BY <1>8 DEF Detect, tables
  <2> HIDE DEF all, J, L
  <2>4. /\ state'[r].findings = all /\ node'[r] = "decide"
        /\ feed' = feed /\ results' = results
    BY <1>1, <2>3 DEF Shape, Fields, Goto
  <2>5. state'[r].findings = Noticed(r, situation')
    BY <1>2, <2>2, <2>4
  <2>6. feed' = L' /\ results' = J'
    BY <1>3, <2>1, <2>4
  <2> QED BY <1>2, <2>4, <2>5, <2>6 DEF Read, L, J
<1> QED BY <1>4, <1>5, <1>6, <1>7, <1>8

LEMMA ReadStart ==
    ASSUME TypeInv, NEW r \in Runs, ResetActionTables(r)
    PROVE  Read(r)' /\ node'[r] = "intake"
<1>1. node'[r] = "intake" /\ claims' = {} /\ escalations' = {}
  BY StartPasses DEF ResetActionTables, TypeInv, RunsInv
<1> QED BY <1>1 DEF Read, AfterLoad

LEMMA ReadLate ==
    ASSUME TypeInv, NEW r \in Runs, Read(r), UNCHANGED <<situation, feed>>,
           node[r] \in Acting \cup {"decide"}, node'[r] \in Acting
    PROVE  Read(r)'
  BY DEF Read, Acting, Early, AfterLoad

-----------------------------------------------------------------------------
(* What it decides and does *)

(* The verdict an item is mapped with does not depend on the choice of one. *)
LEMMA MappedEither ==
    ASSUME NEW r, NEW s, NEW f,
           NEW g \in [{v.policy : v \in Judged(r, s)} -> Judged(r, s)],
           \A p \in {v.policy : v \in Judged(r, s)} : g[p].policy = p
    PROVE  Mapped(f, Judged(r, s)) =
              IF f.policy \in {v.policy : v \in Judged(r, s)} THEN Verified(f, g[f.policy])
                                                              ELSE Unverified(f)
<1> DEFINE J == Judged(r, s)
           judged == {v.policy : v \in J}
<1>1. CASE f.policy \in judged
  <2> DEFINE w == CHOOSE v \in J : v.policy = f.policy
  <2>1. w \in J /\ w.policy = f.policy
    BY <1>1
  <2>2. Mapped(f, J) = Verified(f, w)
    BY <1>1 DEF Mapped
  <2> HIDE DEF w
  <2>3. g[f.policy] \in J /\ g[f.policy].policy = f.policy
    BY <1>1
  <2>4. w = g[f.policy]
    BY <2>1, <2>3, JudgedOnce
  <2> QED BY <1>1, <2>2, <2>4
<1>2. CASE f.policy \notin judged
  BY <1>2 DEF Mapped
<1> QED BY <1>1, <1>2

(* decide plans what the books and files call for, and no account is open. *)
LEMMA DecideActs ==
    ASSUME TypeInv, SoleInv, NEW r \in Runs, Work(r), Decide(r)
    PROVE  Read(r)' /\ Acted(r)' /\ node'[r] \in Acting
<1> DEFINE J == Judged(r, situation)
           I == Items(r, situation)
           judged == {v.policy : v \in results}
<1>1. /\ results = J /\ state[r].findings = Noticed(r, situation)
      /\ claims = {} /\ Read(r) /\ node[r] \in Early
  BY DEF Decide, Work, Read, Early
<1>2. PICK g \in {f \in [judged -> results] : \A p \in judged : f[p].policy = p} :
         LET items == {IF f.policy \in judged THEN Verified(f, g[f.policy])
                                              ELSE Unverified(f) : f \in state[r].findings}
             plan  == {i \in items : ~Informational(i)}
         IN  /\ state' = [state EXCEPT ![r].plan = plan,
                                       ![r].informational = items \ plan]
             /\ Goto(r, IF plan = {} THEN "finalize" ELSE "remediate")
  BY DEF Decide
<1> DEFINE items == {IF f.policy \in judged THEN Verified(f, g[f.policy])
                                            ELSE Unverified(f) : f \in state[r].findings}
           plan  == {i \in items : ~Informational(i)}
           rest  == items \ plan
<1>3. items = I
  <2>1. \A f : Mapped(f, J) = IF f.policy \in judged THEN Verified(f, g[f.policy])
                                                     ELSE Unverified(f)
    BY <1>1, MappedEither
  <2> QED BY <1>1, <2>1 DEF Items
<1>4. /\ state' = [state EXCEPT ![r].plan = plan, ![r].informational = rest]
      /\ Goto(r, IF plan = {} THEN "finalize" ELSE "remediate")
      /\ UNCHANGED <<situation, tables, external, rewrite>>
  BY <1>2 DEF Decide
<1>5. plan = {i \in I : ~Informational(i)} /\ rest = {i \in I : Informational(i)}
  BY <1>3
<1> HIDE DEF plan, rest, items, I, J
<1>6. /\ state'[r].plan = plan /\ state'[r].informational = rest
      /\ state'[r].remediated = state[r].remediated /\ state'[r].skipped = state[r].skipped
      /\ state'[r].escalated = state[r].escalated
      /\ node'[r] \in {"finalize", "remediate"}
  BY <1>4 DEF TypeInv, RunsInv, Shape, Fields, Goto
<1>7. state[r].remediated = {} /\ state[r].escalated = {}
  <2>1. Handled(r) = {}
    BY <1>1 DEF TypeInv, RunsInv, Accounted
  <2>2. \A o \in state[r].remediated \cup state[r].escalated : o.item \in Handled(r)
    BY DEF Handled
  <2> QED BY <2>1, <2>2
<1>8. /\ \A x \in insurerCalls : x.run # r
      /\ \A b \in billingCalls : b.run # r
  BY <1>1 DEF SoleInv, Unacted
<1>9. UNCHANGED <<situation, feed, results, claims, insurerCalls, billingCalls>>
  BY <1>4 DEF tables, external
<1>10. I' = I /\ J' = J
  BY <1>9 DEF I, J
<1>11. state'[r].plan = {i \in I' : ~Informational(i)}
       /\ state'[r].informational = {i \in I' : Informational(i)}
  BY <1>5, <1>6, <1>10
<1>12. results' = {Settled(r, v)' : v \in J'}
  <2>1. \A v : Settled(r, v)' = v
    BY <1>8, <1>9 DEF Settled, BilledBy
  <2> QED BY <1>1, <1>9, <1>10, <2>1
<1>13. /\ claims' = {} /\ LodgedBy(r)' = {} /\ {x \in insurerCalls' : x.run = r} = {}
  BY <1>1, <1>6, <1>7, <1>8, <1>9 DEF LodgedBy
<1>14. /\ Escalated(r)' = {} /\ state'[r].remediated = {}
       /\ \A b \in billingCalls' : b.run # r
  BY <1>6, <1>7, <1>8, <1>9 DEF Escalated
<1>15. Acted(r)'
  BY <1>11, <1>12, <1>13, <1>14 DEF Acted, PlanIs, ResultsAre, ClaimsAre,
     HandedOver, Rebilled, I, J, Informational
<1>16. Read(r)'
  BY <1>1, <1>6, <1>9, ReadLate DEF Acting, Decide
<1> QED BY <1>6, <1>15, <1>16 DEF Acting

(* The steps of the action nodes keep the accounts of the run. *)
LEMMA PlanStays ==
    ASSUME NEW r, PlanIs(r), situation' = situation,
           state'[r].plan = state[r].plan, state'[r].informational = state[r].informational
    PROVE  PlanIs(r)'
  BY DEF PlanIs, Informational

LEMMA ResultsStay ==
    ASSUME NEW r, ResultsAre(r), UNCHANGED <<situation, results, billingCalls>>
    PROVE  ResultsAre(r)'
<1>1. \A v : Settled(r, v)' = Settled(r, v)
  BY DEF Settled, BilledBy
<1> QED BY <1>1 DEF ResultsAre

LEMMA ClaimsStay ==
    ASSUME NEW r, ClaimsAre(r), UNCHANGED <<claims, insurerCalls>>, LodgedBy(r)' = LodgedBy(r)
    PROVE  ClaimsAre(r)'
<1>1. \A i : Lodged(r, i)' = Lodged(r, i)
  BY DEF Lodged
<1> QED BY <1>1 DEF ClaimsAre

LEMMA HandedOverStays ==
    ASSUME NEW r, HandedOver(r), UNCHANGED escalations,
           state'[r].escalated = state[r].escalated
    PROVE  HandedOver(r)'
<1>1. Escalated(r)' = Escalated(r)
  BY DEF Escalated
<1> QED BY <1>1 DEF HandedOver, SameLeak

LEMMA RebilledStays ==
    ASSUME NEW r, Rebilled(r), UNCHANGED billingCalls,
           state[r].remediated \subseteq state'[r].remediated,
           \A o \in state'[r].remediated : o \in state[r].remediated \/ o.action # "rebill"
    PROVE  Rebilled(r)'
  BY DEF Rebilled, BilledBy

LEMMA SkipActs ==
    ASSUME NEW r, Acted(r), NEW item, Skips(r, item), situation' = situation
    PROVE  Acted(r)'
<1>1. /\ state'[r].remediated = state[r].remediated
      /\ state'[r].escalated = state[r].escalated
      /\ state'[r].plan = state[r].plan /\ state'[r].informational = state[r].informational
      /\ UNCHANGED <<results, claims, insurerCalls, billingCalls, escalations>>
  BY DEF Skips, Lists, external
<1>2. LodgedBy(r)' = LodgedBy(r)
  BY <1>1 DEF LodgedBy
<1>3. PlanIs(r)' /\ ResultsAre(r)'
  BY <1>1, PlanStays, ResultsStay DEF Acted
<1>4. ClaimsAre(r)' /\ HandedOver(r)' /\ Rebilled(r)'
  BY <1>1, <1>2, ClaimsStay, HandedOverStays, RebilledStays DEF Acted
<1> QED BY <1>3, <1>4 DEF Acted

LEMMA HandOverActs ==
    ASSUME NEW r, Acted(r), NEW item, HandsOver(r, item), situation' = situation
    PROVE  Acted(r)'
<1> DEFINE o == [item |-> item, action |-> "escalation"]
           e == [run |-> r, policy |-> item.policy, reason |-> item.reason,
                 from |-> item.from, why |-> RouteEscalationReason(item)]
<1>1. /\ state'[r].remediated = state[r].remediated
      /\ state'[r].escalated = state[r].escalated \cup {o}
      /\ state'[r].plan = state[r].plan /\ state'[r].informational = state[r].informational
      /\ UNCHANGED <<results, claims, insurerCalls, billingCalls>>
      /\ escalations' = escalations \cup {e}
  BY DEF HandsOver, Lists, external, RouteToHuman
<1>2. SameLeak(e, item) /\ o.item = item
  BY DEF SameLeak
<1> HIDE DEF o, e
<1>3. LodgedBy(r)' = LodgedBy(r)
  BY <1>1 DEF LodgedBy
<1>4. \A i \in Escalated(r)' : i \in Escalated(r) \/ i = item
  BY <1>1, <1>2 DEF Escalated
<1>5. HandedOver(r)'
  BY <1>1, <1>2, <1>4 DEF Acted, HandedOver, SameLeak
<1>6. PlanIs(r)' /\ ResultsAre(r)'
  BY <1>1, PlanStays, ResultsStay DEF Acted
<1>7. ClaimsAre(r)' /\ Rebilled(r)'
  BY <1>1, <1>3, ClaimsStay, RebilledStays DEF Acted
<1> QED BY <1>5, <1>6, <1>7 DEF Acted

LEMMA ClaimActs ==
    ASSUME NEW r \in Runs, ActingRun(r), NEW item \in state[r].plan \ Handled(r),
           Claims(r, item), situation' = situation
    PROVE  Acted(r)'
<1> DEFINE o == [item |-> item, action |-> "claim"]
           new == Lodged(r, item)
<1>1. /\ state'[r].remediated = state[r].remediated \cup {o}
      /\ state'[r].escalated = state[r].escalated
      /\ state'[r].plan = state[r].plan /\ state'[r].informational = state[r].informational
      /\ UNCHANGED <<results, billingCalls, escalations>>
  BY DEF Claims, Lists
<1>2. o.item = item /\ o.action = "claim"
  OBVIOUS
<1>3. ASSUME NEW c \in claims, SameLeak(c, item)
      PROVE  FALSE
  <2>1. PICK p \in state[r].remediated : c = Lodged(r, p.item)
    BY <1>3 DEF ActingRun, Acted, ClaimsAre, LodgedBy
  <2>2. p.item.policy = item.policy /\ p.item.reason = item.reason
    BY <1>3, <2>1, ClaimIs DEF SameLeak
  <2>3. p.item \in Items(r, situation) /\ item \in Items(r, situation) /\ p.item \in Handled(r)
    BY <2>1, HandledAreItems
  <2> QED BY <2>2, <2>3, OneItem
<1>4. claims' = claims \cup {new} /\ insurerCalls' = insurerCalls \cup {new}
  BY <1>3 DEF Claims, RouteToClaim, Lodged
<1>5. new.run = r
  BY ClaimIs
<1> HIDE DEF o
<1>6. LodgedBy(r)' = LodgedBy(r) \cup {o}
  BY <1>1, <1>2 DEF LodgedBy
<1>7. claims' = {Lodged(r, o1.item) : o1 \in LodgedBy(r)'}
  BY <1>2, <1>4, <1>6 DEF ActingRun, Acted, ClaimsAre
<1> HIDE DEF new
<1>8. {x \in insurerCalls' : x.run = r} = claims'
  BY <1>4, <1>5 DEF ActingRun, Acted, ClaimsAre
<1>9. ClaimsAre(r)'
  BY <1>7, <1>8 DEF ClaimsAre, Lodged
<1>10. PlanIs(r)' /\ ResultsAre(r)' /\ HandedOver(r)' /\ Rebilled(r)'
  BY <1>1, <1>2, PlanStays, ResultsStay, HandedOverStays, RebilledStays DEF ActingRun, Acted
<1> QED BY <1>9, <1>10 DEF Acted

(* A verdict that is flipped again is as disputed as before. *)
LEMMA FlippedSettled ==
    ASSUME NEW r, NEW v, VerdictOK(v), NEW p,
           NEW u, u = IF BilledBy(r, v.policy) \/ v.policy = p
                      THEN [v EXCEPT !.state = "disputed"] ELSE v
    PROVE  Flipped(Settled(r, v), p) = u
<1> DEFINE d == [v EXCEPT !.state = "disputed"]
<1>1. d.policy = v.policy /\ [d EXCEPT !.state = "disputed"] = d
  BY DEF VerdictOK
<1> HIDE DEF d
<1>2. Settled(r, v) = IF BilledBy(r, v.policy) THEN d ELSE v
  BY DEF Settled, d
<1>3. u = IF BilledBy(r, v.policy) \/ v.policy = p THEN d ELSE v
  BY DEF d
<1>4. CASE BilledBy(r, v.policy)
  BY <1>1, <1>2, <1>3, <1>4 DEF Flipped
<1>5. CASE ~BilledBy(r, v.policy)
  BY <1>1, <1>2, <1>3, <1>5 DEF Flipped, d
<1> QED BY <1>4, <1>5

LEMMA RebillActs ==
    ASSUME NEW r \in Runs, ActingRun(r), NEW item \in state[r].plan,
           Rebills(r, item), situation' = situation
    PROVE  Acted(r)'
<1> DEFINE o == [item |-> item, action |-> "rebill"]
           b == [run |-> r, policy |-> item.policy, reason |-> item.reason]
           p == item.policy
<1>1. /\ state'[r].remediated = state[r].remediated \cup {o}
      /\ state'[r].escalated = state[r].escalated
      /\ state'[r].plan = state[r].plan /\ state'[r].informational = state[r].informational
      /\ UNCHANGED <<claims, insurerCalls, escalations>>
  BY DEF Rebills, Lists
<1>2. o.item = item /\ o.action = "rebill" /\ b.run = r /\ b.policy = p
  OBVIOUS
<1>3. \A v \in Judged(r, situation) : VerdictOK(v)
  BY LoadedOK, ReconcileOK DEF ActingRun, Judged
<1>4. \/ /\ billingCalls' = billingCalls \cup {b}
         /\ results' = {Flipped(v, p) : v \in results}
      \/ Disputed(p) /\ UNCHANGED <<results, billingCalls>>
  BY DEF Rebills, RouteToRebilling, Flipped, Asked
<1> HIDE DEF o, b
<1>5. Disputed(p) => BilledBy(r, p)
  <2>1. SUFFICES ASSUME Disputed(p) PROVE BilledBy(r, p)
    OBVIOUS
  <2>2. PICK v \in results : v.policy = p /\ v.state = "disputed"
    BY <2>1 DEF Disputed
  <2>3. PICK u \in Judged(r, situation) : v = Settled(r, u)
    BY DEF ActingRun, Acted, ResultsAre
  <2>4. u.state # "disputed"
    BY JudgedReason
  <2> QED BY <2>2, <2>3, <2>4, SettledIs DEF ActingRun
<1>6. BilledBy(r, p)'
  BY <1>2, <1>4, <1>5 DEF BilledBy
<1>7. \A q : BilledBy(r, q)' <=> BilledBy(r, q) \/ q = p
  BY <1>2, <1>4, <1>5, <1>6 DEF BilledBy
<1>8. ResultsAre(r)'
  <2>1. CASE Disputed(p) /\ UNCHANGED <<results, billingCalls>>
    BY <2>1, ResultsStay DEF ActingRun, Acted
  <2>2. CASE results' = {Flipped(v, p) : v \in results}
    <3>1. ASSUME NEW v \in Judged(r, situation)
          PROVE  Flipped(Settled(r, v), p) = Settled(r, v)'
      <4>1. Settled(r, v)' = IF BilledBy(r, v.policy) \/ v.policy = p
                             THEN [v EXCEPT !.state = "disputed"] ELSE v
        BY <1>7 DEF Settled
      <4> QED BY <1>3, <4>1, FlippedSettled
    <3>2. results = {Settled(r, v) : v \in Judged(r, situation)}
      BY DEF ActingRun, Acted, ResultsAre
    <3>3. results' = {Flipped(Settled(r, v), p) : v \in Judged(r, situation)}
      BY <2>2, <3>2
    <3> QED BY <3>1, <3>3 DEF ResultsAre
  <2> QED BY <1>4, <2>1, <2>2
<1>9. Rebilled(r)'
  <2>1. ASSUME NEW x \in billingCalls', x.run = r
        PROVE  \E o1 \in state'[r].remediated : o1.action = "rebill" /\ o1.item.policy = x.policy
    <3>1. x \in billingCalls \/ x = b
      BY <1>4
    <3>2. CASE x \in billingCalls
      BY <1>1, <2>1, <3>2 DEF ActingRun, Acted, Rebilled
    <3>3. CASE x = b
      BY <1>1, <1>2, <3>3
    <3> QED BY <3>1, <3>2, <3>3
  <2>2. \A o1 \in state'[r].remediated : o1.action = "rebill" => BilledBy(r, o1.item.policy)'
    BY <1>1, <1>2, <1>7 DEF ActingRun, Acted, Rebilled
  <2> QED BY <2>1, <2>2 DEF Rebilled
<1>10. LodgedBy(r)' = LodgedBy(r)
  BY <1>1, <1>2 DEF LodgedBy
<1>11. PlanIs(r)' /\ ClaimsAre(r)' /\ HandedOver(r)'
  BY <1>1, <1>10, PlanStays, ClaimsStay, HandedOverStays DEF ActingRun, Acted
<1> QED BY <1>8, <1>9, <1>11 DEF Acted

-----------------------------------------------------------------------------
(* What it files *)

(* At the end an item is filed as what the gate and the threshold call for. *)
LEMMA FateIs ==
    ASSUME NEW r, ActingRun(r), node[r] = "finalize", NEW i \in Items(r, situation)
    PROVE  Disposition(r, i) = Fate(i)
<1> DEFINE all == state[r].remediated \cup state[r].skipped \cup state[r].escalated
<1>1. \A o \in all : /\ o.item \in Items(r, situation) /\ o.item \in state[r].plan
                     /\ SameKey(o, i) => o.item = i
  BY HandledAreItems, OneItem DEF SameKey
<1>2. CASE Informational(i)
  <2>1. \A o \in all : ~SameKey(o, i)
    BY <1>1, <1>2, HandledAreItems
  <2>2. Disposition(r, i) = "informational"
    BY <2>1 DEF Disposition
  <2>3. Fate(i) = "informational"
    BY <1>2 DEF Fate, Target
  <2> QED BY <2>2, <2>3
<1>3. CASE ~Informational(i)
  <2>1. i \in Handled(r)
    <3>1. i \in state[r].plan
      BY <1>3 DEF ActingRun, Acted, PlanIs
    <3> QED BY <3>1 DEF ActingRun, Accounted
  <2>2. PICK o \in all : o.item = i
    BY <2>1 DEF Handled
  <2>3. SameKey(o, i)
    BY <2>2 DEF SameKey
  <2>4. /\ \A x \in state[r].remediated : SameKey(x, i) =>
              /\ Target(i) = "remediate" /\ ValidateAction(i) = "OK"
              /\ x.action # "escalation"
        /\ \A x \in state[r].skipped : SameKey(x, i) =>
              Target(i) = "remediate" /\ ValidateAction(i) = "TOO_SMALL"
        /\ \A x \in state[r].escalated : SameKey(x, i) => Target(i) = "escalate"
    BY <1>1 DEF ActingRun, RoutedAsGated, RouteAction
  <2>5. CASE o \in state[r].escalated
    BY <2>3, <2>4, <2>5 DEF Disposition, Fate
  <2>6. CASE o \in state[r].skipped
    BY <2>3, <2>4, <2>6 DEF Disposition, Fate
  <2>7. CASE o \in state[r].remediated
    BY <2>3, <2>4, <2>7 DEF Disposition, Fate
  <2> QED BY <2>5, <2>6, <2>7
<1> QED BY <1>2, <1>3

FiledAs(r, i) ==
    [run |-> r, policy |-> i.policy, reason |-> i.reason, from |-> i.from,
     amount |-> i.amount, disposition |-> Fate(i)]

(* finalize files every item of the run, and nothing else. *)
LEMMA FinalizeFiles ==
    ASSUME TypeInv, SoleInv, NEW r \in Runs, Finalize(r), state'[r].alone
    PROVE  {f \in persisted' : f.run = r} = Filed(r)'
<1>1. /\ node[r] = "finalize" /\ persisted' = persisted \cup PersistedFindings(r)
      /\ state' = state
  BY DEF Finalize
<1>2. Sole(r)
  BY <1>1 DEF Sole, Active
<1>3. ActingRun(r)
  BY <1>1, <1>2, SoleActs DEF Acting
<1>4. state[r].seen = situation /\ \A f \in persisted : f.run # r
  BY <1>1, <1>2 DEF SoleInv, Sole, Unacted
<1>5. state[r].plan \cup state[r].informational = Items(r, situation)
  BY <1>3 DEF ActingRun, Acted, PlanIs
<1>6. PersistedFindings(r) = {FiledAs(r, i) : i \in Items(r, situation)}
  <2>1. \A i \in Items(r, situation) : Disposition(r, i) = Fate(i)
    BY <1>1, <1>3, FateIs
  <2> QED BY <1>5, <2>1 DEF PersistedFindings, FiledAs
<1>7. \A f \in PersistedFindings(r) : f.run = r
  BY DEF PersistedFindings
<1>8. {f \in persisted' : f.run = r} = {FiledAs(r, i) : i \in Items(r, situation)}
  BY <1>1, <1>4, <1>6, <1>7
<1>9. Filed(r)' = {FiledAs(r, i) : i \in Items(r, situation)}
  <2>1. state'[r].seen = situation
    BY <1>1, <1>4
  <2> QED BY <2>1 DEF Filed, FiledAs, Fate, Target, Informational, ShouldEscalate, HighValue,
             ValidateAction
<1> QED BY <1>8, <1>9

(* What is filed stays. *)
LEMMA FiledNext ==
    ASSUME TypeInv, SoleInv, NEW r \in Runs, Step(r) \/ Fail(r)
    PROVE  \A q \in Runs : node'[q] = "complete" /\ state'[q].alone =>
              {f \in persisted' : f.run = q} = Filed(q)'
<1>1. Shape /\ Frame(r)
  BY StepFrame DEF TypeInv, RunsInv
<1>2. ASSUME NEW q \in Runs \ {r}, node'[q] = "complete", state'[q].alone
      PROVE  {f \in persisted' : f.run = q} = Filed(q)'
  <2>1. {f \in persisted : f.run = q} = Filed(q)
    BY <1>1, <1>2 DEF SoleInv, Frame
  <2>2. {f \in persisted' : f.run = q} = {f \in persisted : f.run = q}
    BY <1>1, <1>2 DEF Frame
  <2>3. state'[q].seen = state[q].seen
    BY <1>1 DEF Frame
  <2>4. Filed(q)' = Filed(q)
    BY <2>3 DEF Filed, Fate, Target, Informational, ShouldEscalate, HighValue, ValidateAction
  <2> QED BY <2>1, <2>2, <2>4
<1>3. ASSUME node'[r] = "complete", state'[r].alone
      PROVE  {f \in persisted' : f.run = r} = Filed(r)'
  <2>1. Finalize(r)
    BY <1>1, <1>3 DEF Step, Fail, ResetActionTables, MayBegin, Starts, BeginLoad, CommitLoad,
       BeginReconcile, CommitReconcile, Detect, Decide, Remediate, Escalate, Proceed, Stamp,
       Goto, Shape
  <2> QED BY <1>3, <2>1, FinalizeFiles
<1> QED BY <1>2, <1>3

-----------------------------------------------------------------------------
(* The invariant *)

LEMMA ActedStays ==
    ASSUME NEW r \in Runs, Acted(r), UNCHANGED <<situation, tables, external, state>>
    PROVE  Acted(r)'
<1>1. UNCHANGED <<situation, results, claims, escalations, insurerCalls, billingCalls, state>>
  BY DEF tables, external
<1>2. LodgedBy(r)' = LodgedBy(r)
  BY <1>1 DEF LodgedBy
<1>3. PlanIs(r)' /\ ResultsAre(r)'
  BY <1>1, PlanStays, ResultsStay DEF Acted
<1>4. ClaimsAre(r)' /\ HandedOver(r)' /\ Rebilled(r)'
  BY <1>1, <1>2, ClaimsStay, HandedOverStays, RebilledStays DEF Acted
<1> QED BY <1>3, <1>4 DEF Acted

(* A step keeps the accounts of a run that is alone after it. *)
LEMMA WorkNext ==
    ASSUME TypeInv, SoleInv, NEW r \in Runs, Step(r) \/ Fail(r)
    PROVE  \A q \in Runs : Sole(q)' => Work(q)'
<1>1. Shape /\ Frame(r)
  BY StepFrame DEF TypeInv, RunsInv
<1> SUFFICES ASSUME Sole(r)' PROVE Work(r)'
  BY OnlyItself
<1>2. state'[r].alone /\ node'[r] \notin {"complete", "failed"}
  BY DEF Sole, Active
<1>3. CASE ResetActionTables(r)
  <2>1. Others(r) = {}
    BY <1>1, <1>2, <1>3, StartMarks DEF ResetActionTables
  <2>2. \A q \in Runs \ {r} : ~Active(q)'
    BY <2>1, OthersIdle DEF Others
  <2> QED BY <1>3, <2>2, ReadStart DEF Work, Acting
<1>4. CASE ~ResetActionTables(r)
  <2>1. Sole(r) /\ Work(r)
    BY <1>2, <1>4, SoleBefore
  <2>2. \A q \in Runs \ {r} : ~Active(q)'
    BY <2>1, OthersIdle DEF Work
  <2>3. CASE BeginLoad(r) \/ CommitLoad(r) \/ BeginReconcile(r) \/ CommitReconcile(r)
             \/ Detect(r)
    <3>1. node'[r] \in {"load", "reconcile", "verdicts", "detect", "decide"}
      BY <1>1, <2>3 DEF BeginLoad, CommitLoad, BeginReconcile, CommitReconcile, Detect, Goto,
         Shape
    <3> QED BY <2>1, <2>2, <2>3, <3>1, ReadEarly DEF Work, Acting
  <2>4. CASE Decide(r)
    BY <2>1, <2>2, <2>4, DecideActs DEF Work
  <2>5. CASE Remediate(r) \/ Escalate(r)
    <3>1. /\ UNCHANGED <<situation, feed, persisted, node, rewrite>>
          /\ node[r] \in {"remediate", "escalate"}
          /\ \E item \in state[r].plan \ Handled(r) :
                Skips(r, item) \/ Claims(r, item) \/ Rebills(r, item) \/ HandsOver(r, item)
      BY <1>1, <2>5, RouteCall
    <3>2. ActingRun(r) /\ Acted(r)
      BY <2>1, <3>1, SoleActs DEF Acting, ActingRun
    <3>3. Acted(r)'
      BY <3>1, <3>2, SkipActs, ClaimActs, RebillActs, HandOverActs
    <3>4. Read(r)'
      BY <2>1, <3>1, ReadLate DEF Work, Acting
    <3> QED BY <2>2, <3>3, <3>4 DEF Work
  <2>6. CASE Proceed(r)
    <3>1. /\ UNCHANGED <<situation, tables, external, state>>
          /\ node[r] \in Acting /\ node'[r] \in Acting
      BY <1>1, <2>6 DEF Proceed, Goto, Shape, Acting
    <3>2. Acted(r)' /\ Read(r)'
      BY <2>1, <3>1, ActedStays, ReadLate DEF Work, tables
    <3> QED BY <2>2, <3>2 DEF Work
  <2>7. CASE Stamp(r)
    <3>1. /\ UNCHANGED <<situation, tables, external, state>>
          /\ node[r] \in Acting /\ node'[r] \in Acting
      BY <2>7 DEF Stamp, Acting
    <3>2. Acted(r)' /\ Read(r)'
      BY <2>1, <3>1, ActedStays, ReadLate DEF Work, tables
    <3> QED BY <2>2, <3>2 DEF Work
  <2>8. CASE Finalize(r) \/ Fail(r)
    BY <1>1, <1>2, <2>8 DEF Finalize, Fail, Goto, Shape
  <2> QED BY <1>4, <2>3, <2>4, <2>5, <2>6, <2>7, <2>8 DEF Step
<1> QED BY <1>3, <1>4

(* What no run does, or nothing at all, changes nothing a run accounts for. *)
LEMMA IdleKeeps ==
    ASSUME TypeInv, SoleInv, OneAtATime, Change \/ UNCHANGED vars
    PROVE  SoleInv' /\ OneAtATime'
<1>1. /\ UNCHANGED <<tables, external, node, rewrite, state>>
      /\ UNCHANGED situation \/ \A r \in Runs : ~Active(r)
  BY DEF Change, vars
<1>2. \A r \in Runs : RoutedAsGated(r)'
  BY <1>1, RoutedSame DEF SoleInv, SameOutcomes
<1>3. \A r \in Runs : Unacted(r)'
  BY <1>1 DEF SoleInv, Unacted, external, tables
<1>4. \A r \in Runs : /\ state'[r].seen \in Situations
                      /\ Active(r)' => state'[r].seen = situation'
  BY <1>1 DEF SoleInv, Active
<1>5. ASSUME NEW r \in Runs, Sole(r)'
      PROVE  Work(r)'
  <2>1. Sole(r) /\ UNCHANGED situation /\ Work(r)
    BY <1>1, <1>5 DEF Sole, Active, SoleInv
  <2>2. UNCHANGED <<feed, results, claims, escalations>>
    BY <1>1 DEF tables
  <2>3. Read(r)'
    BY <1>1, <2>1, <2>2 DEF Work, Read
  <2>4. node'[r] \in Acting => Acted(r)'
    BY <1>1, <2>1, ActedStays DEF Work
  <2> QED BY <1>1, <2>1, <2>3, <2>4 DEF Work, Active
<1>6. ASSUME NEW r \in Runs, node'[r] = "complete", state'[r].alone
      PROVE  {f \in persisted' : f.run = r} = Filed(r)'
  <2>1. {f \in persisted : f.run = r} = Filed(r) /\ persisted' = persisted
    BY <1>1, <1>6 DEF SoleInv, tables
  <2>2. Filed(r)' = Filed(r)
    BY <1>1 DEF Filed, Fate, Target, Informational, ShouldEscalate, HighValue, ValidateAction
  <2> QED BY <2>1, <2>2
<1>7. OneAtATime'
  BY <1>1 DEF OneAtATime, Active
<1> QED BY <1>2, <1>3, <1>4, <1>5, <1>6, <1>7 DEF SoleInv

(* If runs take turns, every active run is alone. *)
LEMMA TurnsNext ==
    ASSUME TypeInv, SoleInv, OneAtATime, NEW r \in Runs, Step(r) \/ Fail(r)
    PROVE  OneAtATime'
<1> SUFFICES ASSUME ~Concurrent PROVE \A q \in Runs : Active(q)' => state'[q].alone
  BY DEF OneAtATime
<1>1. Shape /\ Frame(r)
  BY StepFrame DEF TypeInv, RunsInv
<1>2. CASE ResetActionTables(r)
  <2>1. Others(r) = {} /\ Starts(r)
    BY <1>2 DEF ResetActionTables, MayBegin
  <2>2. state'[r].alone
    BY <1>1, <2>1, StartMarks
  <2>3. \A q \in Runs \ {r} : ~Active(q)'
    BY <2>1, OthersIdle DEF Others
  <2> QED BY <2>2, <2>3
<1>3. CASE ~ResetActionTables(r)
  <2>1. Active(r)
    BY <1>3 DEF Step, Fail, BeginLoad, CommitLoad, BeginReconcile,
       CommitReconcile, Detect, Decide, Remediate, Escalate, Proceed, Stamp, Finalize, Active
  <2>2. state[r].alone /\ Work(r)
    BY <2>1 DEF OneAtATime, SoleInv, Sole
  <2>3. state'[r].alone
    BY <1>1, <1>3, <2>2, MarksStay DEF SameMarks
  <2>4. \A q \in Runs \ {r} : ~Active(q)'
    BY <2>2, OthersIdle DEF Work
  <2> QED BY <2>3, <2>4
<1> QED BY <1>2, <1>3

(* Inductive, and initially true. *)
AloneInv == TypeInv /\ SoleInv /\ OneAtATime

LEMMA AloneNext == AloneInv /\ [Next]_vars => AloneInv'
<1> SUFFICES ASSUME AloneInv, [Next]_vars PROVE AloneInv'
  OBVIOUS
<1> USE DEF AloneInv
<1>1. TypeInv'
  BY TypeNext
<1>2. CASE \E r \in Runs : Step(r) \/ Fail(r)
  <2>1. PICK r \in Runs : Step(r) \/ Fail(r)
    BY <1>2
  <2>2. \A q \in Runs : RoutedAsGated(q)' /\ Unacted(q)'
    BY <2>1, RoutedNext, UnactedNext
  <2>3. SoleInv'
    BY <2>1, <2>2, SeenNext, WorkNext, FiledNext DEF SoleInv
  <2> QED BY <1>1, <2>1, <2>3, TurnsNext
<1>3. CASE Change \/ UNCHANGED vars
  BY <1>1, <1>3, IdleKeeps
<1> QED BY <1>2, <1>3 DEF Next, Done

LEMMA AloneInit == Init => AloneInv
<1> SUFFICES ASSUME Init PROVE AloneInv
  OBVIOUS
<1>1. TypeInv
  BY TypeInit
<1>2. \A r \in Runs : /\ node[r] = "new" /\ state[r].seen = situation
                      /\ state[r].plan = {} /\ state[r].informational = {}
                      /\ state[r].remediated = {} /\ state[r].skipped = {}
                      /\ state[r].escalated = {}
  BY DEF Init, EmptyState
<1>3. \A r \in Runs : ~Active(r)
  BY <1>2 DEF Active
<1>4. \A r \in Runs : RoutedAsGated(r) /\ Unacted(r)
  BY <1>2 DEF RoutedAsGated, Unacted, Init
<1>5. SoleInv
  BY <1>2, <1>3, <1>4 DEF SoleInv, Sole, Init
<1> QED BY <1>1, <1>3, <1>5 DEF AloneInv, OneAtATime

LEMMA AloneInvariance == Spec => []AloneInv
  BY AloneInit, AloneNext, PTL DEF Spec

-----------------------------------------------------------------------------
(* Theorems *)

(* When runs take turns the invariant holds of every active run. *)
LEMMA InTurn ==
    ASSUME ~Concurrent, AloneInv, NEW r \in Runs, Active(r)
    PROVE  /\ Sole(r)
           /\ node[r] \in Acting => ActingRun(r)
           /\ node[r] \notin Acting =>
                 claims = {} /\ state[r].plan = {} /\ state[r].remediated = {}
                             /\ Escalated(r) = {}
<1>1. Sole(r)
  BY DEF AloneInv, OneAtATime, Sole
<1>2. node[r] \notin Acting => claims = {} /\ state[r].plan = {} /\ Handled(r) = {}
  BY <1>1, SoleIdle DEF AloneInv
<1>3. Handled(r) = {} => state[r].remediated = {} /\ Escalated(r) = {}
  <2>1. \A o \in state[r].remediated \cup state[r].escalated : o.item \in Handled(r)
    BY DEF Handled
  <2> QED BY <2>1 DEF Escalated
<1> QED BY <1>1, <1>2, <1>3, SoleActs DEF AloneInv

LEMMA Finalizing ==
    ASSUME ~Concurrent, AloneInv, NEW r \in Runs, ThroughActions(r)
    PROVE  ActingRun(r) /\ node[r] = "finalize"
  BY InTurn DEF ThroughActions, Active, Acting

(* When runs take turns, an outcome the state of a run names has happened: *)
(* the claim is in the table and with the insurer, for the same amount,    *)
(* the re-billing was asked for, the handover is in the queue.             *)
THEOREM OutcomesAlwaysHappened == ~Concurrent /\ Spec => []OutcomesHappened
<1> SUFFICES ASSUME ~Concurrent PROVE Spec => []OutcomesHappened
  OBVIOUS
<1>1. AloneInv => OutcomesHappened
  <2> SUFFICES ASSUME AloneInv, NEW r \in Runs, Active(r)
               PROVE  /\ \A o \in state[r].remediated :
                            IF o.action = "claim"
                            THEN \E c \in claims : \E x \in insurerCalls :
                                     /\ SameLeak(c, o.item) /\ SameLeak(x, o.item)
                                     /\ c.amount = o.item.amount /\ x.amount = o.item.amount
                            ELSE /\ o.action = "rebill"
                                 /\ \E b \in billingCalls : b.policy = o.item.policy
                      /\ \A o \in state[r].escalated :
                            /\ o.action = "escalation"
                            /\ \E e \in escalations : SameLeak(e, o.item)
    BY DEF OutcomesHappened
  <2>1. CASE node[r] \in Acting
    <3>1. ActingRun(r)
      BY <2>1, InTurn
    <3> QED BY <3>1, Happened
  <2>2. CASE node[r] \notin Acting
    <3>1. state[r].remediated = {} /\ Escalated(r) = {}
      BY <2>2, InTurn
    <3>2. state[r].escalated = {}
      BY <3>1 DEF Escalated
    <3> QED BY <3>1, <3>2
  <2> QED BY <2>1, <2>2
<1> QED BY <1>1, AloneInvariance, PTL

(* When runs take turns, no claim is for more or less than what the        *)
(* statements leave open on its policy, each payment to the nearest unit.  *)
THEOREM ClaimsAreAlwaysOwed == ~Concurrent /\ Spec => []ClaimsAreOwed
<1> SUFFICES ASSUME ~Concurrent PROVE Spec => []ClaimsAreOwed
  OBVIOUS
<1>1. AloneInv => ClaimsAreOwed
  BY InTurn, ClaimOwed DEF ClaimsAreOwed
<1> QED BY <1>1, AloneInvariance, PTL

(* When runs take turns, a policy that one payment settled within the      *)
(* tolerance has no commission item in any plan, however its insurer       *)
(* states amounts.                                                         *)
THEOREM PaidIsAlwaysLeftAlone == ~Concurrent /\ Spec => []PaidIsLeftAlone
<1> SUFFICES ASSUME ~Concurrent PROVE Spec => []PaidIsLeftAlone
  OBVIOUS
<1>1. AloneInv => PaidIsLeftAlone
  <2> SUFFICES ASSUME AloneInv, NEW r \in Runs, Active(r), NEW p \in DOMAIN situation.book,
                      Payments(p) = 1, Abs(Owed(p)) <= 100 * Tolerance,
                      NEW i \in state[r].plan, i.policy = p
               PROVE  i.reason \notin AboutCommission
    BY DEF PaidIsLeftAlone
  <2>1. ActingRun(r)
    BY InTurn
  <2> QED BY <2>1, LeftAlone
<1> QED BY <1>1, AloneInvariance, PTL

(* When runs take turns, an unpaid policy, or one single payment short by  *)
(* more than the tolerance, is claimed for what is owed, handed to a human *)
(* or too small to claim once a run is through its actions.                *)
THEOREM UnderpaymentIsPursued == ~Concurrent /\ Spec => []UnderpaymentPursued
<1> SUFFICES ASSUME ~Concurrent PROVE Spec => []UnderpaymentPursued
  OBVIOUS
<1>1. AloneInv => UnderpaymentPursued
  BY Finalizing, Pursued DEF UnderpaymentPursued
<1> QED BY <1>1, AloneInvariance, PTL

(* When runs take turns, every open or disputed verdict, CRM mismatches    *)
(* apart, has a plan item that was dealt with.                             *)
THEOREM NothingEverFallsThrough == ~Concurrent /\ Spec => []NothingFallsThrough
<1> SUFFICES ASSUME ~Concurrent PROVE Spec => []NothingFallsThrough
  OBVIOUS
<1>1. AloneInv => NothingFallsThrough
  BY Finalizing, DealtWith DEF NothingFallsThrough
<1> QED BY <1>1, AloneInvariance, PTL

(* When runs take turns, a renewal owed on a policy that is matched        *)
(* otherwise is escalated, and that policy is not re-billed.               *)
THEOREM RenewalsAlwaysReachHuman == ~Concurrent /\ Spec => []RenewalsReachHuman
<1> SUFFICES ASSUME ~Concurrent PROVE Spec => []RenewalsReachHuman
  OBVIOUS
<1>1. AloneInv => RenewalsReachHuman
  BY Finalizing, RenewalHandled DEF RenewalsReachHuman
<1> QED BY <1>1, AloneInvariance, PTL

-----------------------------------------------------------------------------
(* Reproducibility: a finding is filed once *)

LEMMA FiniteImage ==
    ASSUME NEW S, IsFiniteSet(S), NEW g, g = [x \in S |-> g[x]]
    PROVE  IsFiniteSet({g[x] : x \in S})
<1> DEFINE T == {g[x] : x \in S}
<1>1. g \in [S -> T] /\ \A t \in T : \E x \in S : g[x] = t
  OBVIOUS
<1> HIDE DEF T
<1>2. g \in Surjection(S, T)
  BY <1>1 DEF Surjection
<1>3. IsFiniteSet(T)
  BY <1>2, FS_Surjection
<1> QED BY <1>3 DEF T

(* Finite books and files call for finitely many items. *)
LEMMA ItemsFinite ==
    ASSUME NEW s \in Situations, NEW r \in Runs
    PROVE  IsFiniteSet(Items(r, s))
<1> DEFINE rows == Loaded(r, s.lines)
           book == s.book
           J == Judged(r, s)
           rules == RunRules(book, J)
           N == Noticed(r, s)
<1>1. IsFiniteSet(rows) /\ IsFiniteSet(DOMAIN book)
  BY LoadedOK, SituationsAssumption DEF FeedOK
<1>2. IsFiniteSet({row.policy : row \in rows})
  <2> DEFINE g == [row \in rows |-> row.policy]
  <2>1. {row.policy : row \in rows} = {g[row] : row \in rows}
    OBVIOUS
  <2>2. IsFiniteSet({g[row] : row \in rows})
    <3> HIDE DEF rows
    <3> QED BY <1>1, FiniteImage
  <2> QED BY <2>1, <2>2
<1>3. IsFiniteSet(J)
  <2> DEFINE P == DOMAIN book
             O == Orphans(book, rows)
             g == [p \in P |-> Verdict(r, p, Classify(book[p].expected, FeedCount(rows, p),
                                                      FeedSum(rows, p), book[p].crm),
                                       book[p].expected, FeedSum(rows, p))]
             h == [p \in O |-> Verdict(r, p, "UNEXPECTED_PAYMENT", 0, FeedSum(rows, p))]
  <2>1. IsFiniteSet(O)
    BY <1>2, FS_Subset DEF Orphans
  <2>2. J = {g[p] : p \in P} \cup {h[p] : p \in O}
    BY DEF Judged, Reconcile
  <2>3. IsFiniteSet({g[p] : p \in P})
    <3>1. g = [p \in P |-> g[p]]
      OBVIOUS
    <3> HIDE DEF g
    <3> QED BY <1>1, <3>1, FiniteImage
  <2>4. IsFiniteSet({h[p] : p \in O})
    <3>1. h = [p \in O |-> h[p]]
      OBVIOUS
    <3> HIDE DEF h, O
    <3> QED BY <2>1, <3>1, FiniteImage
  <2> HIDE DEF g, h, O, J
  <2> QED BY <2>2, <2>3, <2>4, FS_Union
<1>4. IsFiniteSet(N)
  <2> DEFINE D == DOMAIN book
             R == {row.policy : row \in rows}
             f1 == [v \in J |-> Detected(v.reason, v)]
             f2 == [p \in D |-> Detected("RENEWAL_1PLUS1_NOT_PROVISIONED", [policy |-> p])]
             f3 == [v \in J |-> Detected("ROUNDING_DELTA", v)]
             f4 == [p \in R |-> Detected("ANOMALY_UNCLASSIFIED", [policy |-> p])]
             U == {f1[v] : v \in J} \cup {f2[p] : p \in D} \cup {f3[v] : v \in J}
                     \cup {f4[p] : p \in R}
  <2>1. N \subseteq U
    <3>1. CarriedThrough(J) \subseteq {f1[v] : v \in J}
      BY DEF CarriedThrough
    <3>2. RenewalsOwed(book) \subseteq {f2[p] : p \in D}
      BY DEF RenewalsOwed
    <3>3. RoundingDeltas(J) \subseteq {f3[v] : v \in J}
      BY DEF RoundingDeltas
    <3>4. Anomalies(Novel(rows, rules) \cap s.outliers) \subseteq {f4[p] : p \in R}
      <4>1. Novel(rows, rules) \subseteq R
        BY DEF Novel
      <4> HIDE DEF R, rows, rules
      <4> QED BY <4>1 DEF Anomalies
    <3>5. N = CarriedThrough(J) \cup RenewalsOwed(book) \cup RoundingDeltas(J)
                \cup Anomalies(Novel(rows, rules) \cap s.outliers)
      BY DEF Noticed, RunRules
    <3> HIDE DEF f1, f2, f3, f4, N, J, rules, rows
    <3> QED BY <3>1, <3>2, <3>3, <3>4, <3>5
  <2>2. IsFiniteSet(D) /\ IsFiniteSet(R)
    BY <1>1, <1>2
  <2>3. IsFiniteSet(U)
    <3>1. f1 = [v \in J |-> f1[v]] /\ f3 = [v \in J |-> f3[v]]
      OBVIOUS
    <3>2. f2 = [p \in D |-> f2[p]] /\ f4 = [p \in R |-> f4[p]]
      OBVIOUS
    <3> HIDE DEF f1, f2, f3, f4, J, D, R
    <3>3. IsFiniteSet({f1[v] : v \in J})
      BY <1>3, <3>1, FiniteImage
    <3>4. IsFiniteSet({f2[p] : p \in D})
      BY <2>2, <3>2, FiniteImage
    <3>5. IsFiniteSet({f3[v] : v \in J})
      BY <1>3, <3>1, FiniteImage
    <3>6. IsFiniteSet({f4[p] : p \in R})
      BY <2>2, <3>2, FiniteImage
    <3> QED BY <3>3, <3>4, <3>5, <3>6, FS_Union
  <2> QED BY <2>1, <2>3, FS_Subset
<1>5. IsFiniteSet(Items(r, s))
  <2> DEFINE g == [f \in N |-> Mapped(f, J)]
  <2>1. Items(r, s) = {g[f] : f \in N}
    BY DEF Items
  <2>2. g = [f \in N |-> g[f]]
    OBVIOUS
  <2> HIDE DEF g, N
  <2> QED BY <1>4, <2>1, <2>2, FiniteImage
<1> QED BY <1>5

LEMMA FiledIs ==
    ASSUME NEW r, NEW i
    PROVE  /\ FiledAs(r, i).policy = i.policy /\ FiledAs(r, i).reason = i.reason
           /\ FiledAs(r, i).amount = i.amount /\ FiledAs(r, i).disposition = Fate(i)
  BY DEF FiledAs

LEMMA ShownIs ==
    ASSUME NEW p, NEW reason, NEW amount, NEW d
    PROVE  Shown(p, reason, amount, d).policy = p /\ Shown(p, reason, amount, d).reason = reason
  BY DEF Shown

(* A complete run that nobody overlapped has filed what its books and      *)
(* files call for, once each, whatever the tables held when it began, and  *)
(* whether or not other runs overlap one another.                          *)
THEOREM AlwaysReproducible == Spec => []Reproducible
<1>1. AloneInv => Reproducible
  <2> SUFFICES ASSUME AloneInv, NEW r \in Runs, node[r] = "complete", state[r].alone
               PROVE  LET mine == {f \in persisted : f.run = r}
                      IN  /\ {Shown(f.policy, f.reason, f.amount, f.disposition) : f \in mine}
                                = Called(r, state[r].seen)
                          /\ Cardinality(mine) = Cardinality(Called(r, state[r].seen))
    BY DEF Reproducible
  <2> DEFINE I == Items(r, state[r].seen)
             mine == {f \in persisted : f.run = r}
             g == [i \in I |-> FiledAs(r, i)]
             h == [i \in I |-> Shown(i.policy, i.reason, i.amount, Fate(i))]
             called == Called(r, state[r].seen)
  <2>1. mine = {FiledAs(r, i) : i \in I}
    BY DEF AloneInv, SoleInv, Filed, FiledAs
  <2>2. called = {Shown(i.policy, i.reason, i.amount, Fate(i)) : i \in I}
    BY DEF Called
  <2>3. {Shown(f.policy, f.reason, f.amount, f.disposition) : f \in mine} = called
    <3> HIDE DEF I, mine, called
    <3> QED BY <2>1, <2>2, FiledIs
  <2>4. IsFiniteSet(I)
    BY ItemsFinite DEF AloneInv, SoleInv
  <2>5. ASSUME NEW i \in I, NEW j \in I, i.policy = j.policy, i.reason = j.reason
        PROVE  i = j
    BY <2>5, OneItem
  <2>6. mine = {g[i] : i \in I} /\ called = {h[i] : i \in I}
    BY <2>1, <2>2
  <2>7. /\ \A i, j \in I : g[i] = g[j] => i = j
        /\ \A i, j \in I : h[i] = h[j] => i = j
    <3>1. \A i \in I : /\ g[i].policy = i.policy /\ g[i].reason = i.reason
                       /\ h[i].policy = i.policy /\ h[i].reason = i.reason
      BY FiledIs, ShownIs
    <3> HIDE DEF I, g, h
    <3> QED BY <2>5, <3>1
  <2>8. g = [i \in I |-> g[i]] /\ h = [i \in I |-> h[i]]
    OBVIOUS
  <2> HIDE DEF I, g, h, mine, called
  <2>9. Cardinality(mine) = Cardinality(I) /\ Cardinality(called) = Cardinality(I)
    BY <2>4, <2>6, <2>7, <2>8, SameSize
  <2> QED BY <2>3, <2>9 DEF mine, called
<1> QED BY <1>1, AloneInvariance, PTL

-----------------------------------------------------------------------------
(* The order of a sum does not matter *)

(* Sums of integers are integers. *)
AllInts(S, g) == \A x \in S : g[x] \in Int

LEMMA SumType ==
    ASSUME NEW S, IsFiniteSet(S), NEW g, AllInts(S, g),
           NEW h, SumEqn(h, S, g), NEW X \in SUBSET S
    PROVE  h[X] \in Int
<1> DEFINE k == [s \in SUBSET X |-> h[s]]
<1>1. SumEqn(k, X, g)
  BY SumRestrict
<1>2. k[X] = h[X]
  OBVIOUS
<1>3. IsFiniteSet(X) /\ \A x \in X : g[x] \in Int
  BY FS_Subset DEF AllInts
<1> HIDE DEF k
<1>4. k[X] \in Int
  BY <1>1, <1>3, SumOfIntegers
<1> QED BY <1>2, <1>4

(* Any member may be taken out first. *)
LEMMA SumAnyFirst ==
    ASSUME NEW S, IsFiniteSet(S), NEW g, AllInts(S, g),
           NEW h, SumEqn(h, S, g)
    PROVE  \A X \in SUBSET S : \A x \in X : h[X] = g[x] + h[X \ {x}]
<1> DEFINE T == {X \in SUBSET S : \E x \in X : h[X] # g[x] + h[X \ {x}]}
<1>1. SUFFICES ASSUME T # {} PROVE FALSE
  OBVIOUS
<1>2. PICK X \in T : \A Y \in SUBSET X : Y # X => Y \notin T
  <2>1. T \in SUBSET (SUBSET S)
    OBVIOUS
  <2> HIDE DEF T
  <2> QED BY <1>1, <2>1, Smallest
<1> X \in SUBSET S
  BY <1>2
<1>3. PICK x \in X : h[X] # g[x] + h[X \ {x}]
  BY <1>2
<1>4. ASSUME NEW Y \in SUBSET X, Y # X, NEW y \in Y PROVE h[Y] = g[y] + h[Y \ {y}]
  BY <1>2, <1>4
<1> HIDE DEF T
<1> DEFINE p == Pick(X)
<1>5. p \in X
  BY Picked
<1>6. h[X] = g[p] + h[X \ {p}]
  <2>1. X # {} /\ X \in SUBSET S
    BY <1>3
  <2>2. h[X] = g[Pick(X)] + h[X \ {Pick(X)}]
    BY <2>1 DEF SumEqn
  <2> QED BY <2>2
<1>7. p # x
  BY <1>3, <1>6
<1> DEFINE Z == (X \ {p}) \ {x}
<1> HIDE DEF p
<1>8. h[X \ {p}] = g[x] + h[Z]
  <2>1. X \ {p} \in SUBSET X /\ X \ {p} # X /\ x \in X \ {p}
    BY <1>5, <1>7
  <2> QED BY <1>4, <2>1
<1>9. h[X \ {x}] = g[p] + h[Z]
  <2>1. X \ {x} \in SUBSET X /\ X \ {x} # X /\ p \in X \ {x}
    BY <1>5, <1>7
  <2>2. (X \ {x}) \ {p} = Z
    OBVIOUS
  <2> QED BY <1>4, <2>1, <2>2
<1>10. g[p] \in Int /\ g[x] \in Int /\ h[Z] \in Int
  <2>1. Z \in SUBSET S
    OBVIOUS
  <2> HIDE DEF Z
  <2> QED BY <1>5, <2>1, SumType DEF AllInts
<1> HIDE DEF Z
<1> QED BY <1>3, <1>6, <1>8, <1>9, <1>10

(* Summing over the images of a set is summing over the set. *)
Images(S, g) == {g[x] : x \in S}
OneToOne(S, g) == \A x, y \in S : g[x] = g[y] => x = y
Weighs(S, w, g, v) == \A x \in S : v[g[x]] = w[x]

LEMMA SumOfImages ==
    ASSUME NEW S, IsFiniteSet(S), NEW w, AllInts(S, w), NEW h, SumEqn(h, S, w),
           NEW g, g = [x \in S |-> g[x]], OneToOne(S, g),
           NEW v, Weighs(S, w, g, v), NEW k, SumEqn(k, Images(S, g), v)
    PROVE  k[Images(S, g)] = h[S]
<1> DEFINE Im(X) == {g[x] : x \in X}
<1>0. SumEqn(k, Im(S), v)
  BY DEF Images
<1> DEFINE T == {X \in SUBSET S : k[Im(X)] # h[X]}
<1>1. SUFFICES ASSUME T # {} PROVE FALSE
  <2>1. S \notin T
    BY <1>1
  <2> QED BY <2>1 DEF Images
<1>2. PICK X \in T : \A Y \in SUBSET X : Y # X => Y \notin T
  <2>1. T \in SUBSET (SUBSET S)
    OBVIOUS
  <2> HIDE DEF T
  <2> QED BY <1>1, <2>1, Smallest
<1>3. X \in SUBSET S /\ k[Im(X)] # h[X]
  BY <1>2
<1>4. ASSUME NEW Y \in SUBSET X, Y # X PROVE k[Im(Y)] = h[Y]
  BY <1>2, <1>3, <1>4
<1> HIDE DEF T
<1>5. X # {}
  <2>1. Im({}) = {}
    OBVIOUS
  <2> HIDE DEF Im
  <2>2. h[{}] = 0
    BY SumOfNone
  <2>3. k[{}] = 0
    BY <1>0, SumOfNone
  <2> QED BY <1>3, <2>1, <2>2, <2>3
<1> DEFINE p == Pick(X)
<1>6. p \in X /\ h[X] = w[p] + h[X \ {p}]
  BY <1>3, <1>5, Picked, SumStep
<1> HIDE DEF p
<1>7. IsFiniteSet(Im(S)) /\ \A y \in Im(S) : v[y] \in Int
  BY SameSize DEF OneToOne, Weighs, AllInts
<1>8. Im(X) \in SUBSET Im(S) /\ g[p] \in Im(X) /\ Im(X) \ {g[p]} = Im(X \ {p})
  BY <1>3, <1>6 DEF OneToOne
<1> HIDE DEF Im
<1>9. k[Im(X)] = v[g[p]] + k[Im(X) \ {g[p]}]
  <2> DEFINE U == Im(S)
             Y == Im(X)
             y == g[p]
  <2>1. IsFiniteSet(U) /\ AllInts(U, v) /\ SumEqn(k, U, v)
    BY <1>0, <1>7 DEF AllInts
  <2>2. Y \in SUBSET U /\ y \in Y
    BY <1>8
  <2> HIDE DEF U, Y, y
  <2>3. k[Y] = v[y] + k[Y \ {y}]
    BY ONLY <2>1, <2>2, SumAnyFirst
  <2> QED BY <2>3 DEF Y, y
<1>10. k[Im(X \ {p})] = h[X \ {p}]
  BY <1>4, <1>6
<1> QED BY <1>3, <1>6, <1>8, <1>9, <1>10 DEF Weighs

(* The amounts of the images of a set are those of the set. *)
LEMMA SameAmounts ==
    ASSUME NEW S, IsFiniteSet(S), \A x \in S : x.amount \in Int,
           NEW g, g = [x \in S |-> g[x]], OneToOne(S, g),
           \A x \in S : g[x].amount = x.amount
    PROVE  MapThenSumSet(LAMBDA row : row.amount, Images(S, g))
              = MapThenSumSet(LAMBDA row : row.amount, S)
<1> DEFINE w == [x \in S |-> x.amount]
           U == Images(S, g)
           v == [x \in U |-> x.amount]
<1>1. IsFiniteSet(U)
  BY SameSize DEF OneToOne, Images
<1>2. PICK h : SumEqn(h, S, w) /\ MapThenSumSet(LAMBDA row : row.amount, S) = h[S]
  BY AmountsAreSummed
<1>3. AllInts(S, w) /\ Weighs(S, w, g, v)
  BY DEF AllInts, Weighs, Images
<1>4. PICK k : SumEqn(k, U, v) /\ MapThenSumSet(LAMBDA row : row.amount, U) = k[U]
  <2> HIDE DEF U
  <2> QED BY <1>1, AmountsAreSummed
<1>5. SumEqn(k, Images(S, g), v)
  BY <1>4
<1> HIDE DEF w, v
<1>6. k[Images(S, g)] = h[S]
  BY <1>2, <1>3, <1>5, SumOfImages
<1> QED BY <1>2, <1>4, <1>6

LEMMA ItemAmountsAreSummed ==
    ASSUME NEW S, IsFiniteSet(S)
    PROVE  \E h : /\ SumEqn(h, S, [x \in S |-> x.item.amount])
                  /\ MapThenSumSet(LAMBDA o : o.item.amount, S) = h[S]
<1> DEFINE g == [x \in S |-> x.item.amount]
           eqn(h) == [s \in SUBSET S |->
                        IF s = {} THEN 0
                        ELSE (CHOOSE x \in s : TRUE).item.amount
                                + h[s \ {CHOOSE x \in s : TRUE}]]
<1>1. MapThenSumSet(LAMBDA o : o.item.amount, S) = (CHOOSE h : h = eqn(h))[S]
  BY DEF MapThenSumSet, MapThenFoldSet
<1>2. ASSUME NEW h
      PROVE  h = eqn(h) <=> SumEqn(h, S, g)
  <2>1. \A s \in SUBSET S : s # {} => g[Pick(s)] = Pick(s).item.amount
    BY DEF Pick
  <2>2. eqn(h) = [s \in SUBSET S |-> IF s = {} THEN 0 ELSE g[Pick(s)] + h[s \ {Pick(s)}]]
    BY <2>1 DEF Pick
  <2> QED BY <2>2 DEF SumEqn
<1> HIDE DEF eqn
<1>3. \E h : h = eqn(h)
  BY <1>2, SumExists
<1> DEFINE sum == CHOOSE h : h = eqn(h)
<1>4. sum = eqn(sum)
  BY <1>3
<1> QED BY <1>1, <1>2, <1>4

(* The amounts of the rows made of outcomes are those of their items. *)
LEMMA SameItemAmounts ==
    ASSUME NEW S, IsFiniteSet(S), \A x \in S : x.item.amount \in Int,
           NEW g, g = [x \in S |-> g[x]], OneToOne(S, g),
           \A x \in S : g[x].amount = x.item.amount
    PROVE  MapThenSumSet(LAMBDA row : row.amount, Images(S, g))
              = MapThenSumSet(LAMBDA o : o.item.amount, S)
<1> DEFINE w == [x \in S |-> x.item.amount]
           U == Images(S, g)
           v == [x \in U |-> x.amount]
<1>1. IsFiniteSet(U)
  BY SameSize DEF OneToOne, Images
<1>2. PICK h : SumEqn(h, S, w) /\ MapThenSumSet(LAMBDA o : o.item.amount, S) = h[S]
  BY ItemAmountsAreSummed
<1>3. AllInts(S, w) /\ Weighs(S, w, g, v)
  BY DEF AllInts, Weighs, Images
<1>4. PICK k : SumEqn(k, U, v) /\ MapThenSumSet(LAMBDA row : row.amount, U) = k[U]
  <2> HIDE DEF U
  <2> QED BY <1>1, AmountsAreSummed
<1>5. SumEqn(k, Images(S, g), v)
  BY <1>4
<1> HIDE DEF w, v
<1>6. k[Images(S, g)] = h[S]
  BY <1>2, <1>3, <1>5, SumOfImages
<1> QED BY <1>2, <1>4, <1>6

-----------------------------------------------------------------------------
(* Every payment is judged once *)

(* The sum over two sets without a common member.                          *)
Apart(A, B) == A \cap B = {}

LEMMA SumDisjoint ==
    ASSUME NEW S, IsFiniteSet(S), NEW g, AllInts(S, g), NEW h, SumEqn(h, S, g),
           NEW A \in SUBSET S, NEW B \in SUBSET S, Apart(A, B)
    PROVE  h[A \cup B] = h[A] + h[B]
<1> DEFINE T == {X \in SUBSET A : h[X \cup B] # h[X] + h[B]}
<1>1. SUFFICES ASSUME T # {} PROVE FALSE
  <2>1. A \notin T
    BY <1>1
  <2> QED BY <2>1
<1>2. PICK X \in T : \A Y \in SUBSET X : Y # X => Y \notin T
  <2>1. T \in SUBSET (SUBSET A) /\ IsFiniteSet(A)
    BY FS_Subset
  <2> HIDE DEF T
  <2> QED BY <1>1, <2>1, Smallest
<1>3. X \in SUBSET A /\ h[X \cup B] # h[X] + h[B]
  BY <1>2
<1>4. ASSUME NEW Y \in SUBSET X, Y # X PROVE h[Y \cup B] = h[Y] + h[B]
  BY <1>2, <1>3, <1>4
<1> HIDE DEF T
<1>5. \A Y \in SUBSET S : h[Y] \in Int
  BY SumType
<1>6. X # {}
  <2>1. h[{}] = 0 /\ {} \cup B = B /\ h[B] \in Int
    BY <1>5, SumOfNone
  <2>2. X = {} => h[X \cup B] = h[B] /\ h[X] = 0
    BY <2>1, Zenon
  <2>3. 0 + h[B] = h[B]
    BY <2>1
  <2> QED BY <1>3, <2>2, <2>3, Zenon
<1>7. PICK x : x \in X
  BY <1>6
<1> DEFINE Y == X \ {x}
<1>8. /\ X \in SUBSET S /\ X \cup B \in SUBSET S /\ x \in X \cup B
      /\ (X \cup B) \ {x} = Y \cup B /\ Y \in SUBSET X /\ Y # X /\ Y \in SUBSET S
      /\ x \in S
  BY <1>3, <1>7 DEF Apart
<1> HIDE DEF Y
<1>9. h[X] = g[x] + h[Y]
  BY <1>7, <1>8, SumAnyFirst DEF Y
<1>10. h[X \cup B] = g[x] + h[Y \cup B]
  <2>1. h[X \cup B] = g[x] + h[(X \cup B) \ {x}]
    BY <1>8, SumAnyFirst
  <2> QED BY <1>8, <2>1
<1>11. h[Y \cup B] = h[Y] + h[B]
  BY <1>4, <1>8
<1>12. g[x] \in Int /\ h[Y] \in Int /\ h[B] \in Int
  BY <1>5, <1>8 DEF AllInts
<1> QED BY <1>3, <1>9, <1>10, <1>11, <1>12

(* Nothings add up to nothing.                                             *)
LEMMA SumOfNothings ==
    ASSUME NEW S, IsFiniteSet(S), NEW g, NEW h, SumEqn(h, S, g),
           NEW A \in SUBSET S, \A x \in A : g[x] = 0
    PROVE  h[A] = 0
<1> DEFINE T == {X \in SUBSET A : h[X] # 0}
<1>1. SUFFICES ASSUME T # {} PROVE FALSE
  <2>1. A \notin T
    BY <1>1
  <2> QED BY <2>1
<1>2. PICK X \in T : \A Y \in SUBSET X : Y # X => Y \notin T
  <2>1. T \in SUBSET (SUBSET A) /\ IsFiniteSet(A)
    BY FS_Subset
  <2> HIDE DEF T
  <2> QED BY <1>1, <2>1, Smallest
<1>3. X \in SUBSET A /\ X \in SUBSET S /\ h[X] # 0
  BY <1>2
<1>4. ASSUME NEW Y \in SUBSET X, Y # X PROVE h[Y] = 0
  BY <1>2, <1>3, <1>4
<1> HIDE DEF T
<1>5. X # {}
  BY <1>3, SumOfNone
<1>6. Pick(X) \in X /\ h[X] = g[Pick(X)] + h[X \ {Pick(X)}]
  BY <1>3, <1>5, Picked, SumStep
<1>7. h[X \ {Pick(X)}] = 0 /\ g[Pick(X)] = 0
  BY <1>3, <1>4, <1>6
<1>8. h[X] = 0 + 0
  BY <1>6, <1>7
<1> QED BY <1>3, <1>8

(* Sums that are taken key by key add up to the sum of all.                *)
Keyed(S, key, X) == {x \in S : key[x] \in X}
HaveKeys(S, key, P) == \A x \in S : key[x] \in P
KeySums(P, w, S, key, h) == \A p \in P : w[p] = h[Keyed(S, key, {p})]

LEMMA SumByKey ==
    ASSUME NEW S, IsFiniteSet(S), NEW g, AllInts(S, g), NEW h, SumEqn(h, S, g),
           NEW P, IsFiniteSet(P), NEW key, HaveKeys(S, key, P),
           NEW w, KeySums(P, w, S, key, h), NEW j, SumEqn(j, P, w)
    PROVE  j[P] = h[S]
<1> DEFINE T == {X \in SUBSET P : j[X] # h[Keyed(S, key, X)]}
<1>1. SUFFICES ASSUME T # {} PROVE FALSE
  <2>1. P \notin T
    BY <1>1
  <2>2. Keyed(S, key, P) = S
    BY DEF Keyed, HaveKeys
  <2>3. j[P] = h[Keyed(S, key, P)]
    BY <2>1
  <2> QED BY <2>2, <2>3
<1>2. PICK X \in T : \A Y \in SUBSET X : Y # X => Y \notin T
  <2>1. T \in SUBSET (SUBSET P)
    OBVIOUS
  <2> HIDE DEF T
  <2> QED BY <1>1, <2>1, Smallest
<1>3. X \in SUBSET P /\ j[X] # h[Keyed(S, key, X)]
  BY <1>2
<1>4. ASSUME NEW Y \in SUBSET X, Y # X PROVE j[Y] = h[Keyed(S, key, Y)]
  BY <1>2, <1>3, <1>4
<1> HIDE DEF T
<1>5. X # {}
  <2>1. Keyed(S, key, {}) = {}
    BY DEF Keyed
  <2>2. j[{}] = 0 /\ h[{}] = 0
    BY SumOfNone
  <2> QED BY <1>3, <2>1, <2>2
<1> DEFINE p == Pick(X)
           Y == X \ {p}
<1>6. p \in X /\ j[X] = w[p] + j[Y]
  BY <1>3, <1>5, Picked, SumStep
<1> HIDE DEF p
<1>7. /\ Keyed(S, key, X) = Keyed(S, key, {p}) \cup Keyed(S, key, Y)
      /\ Keyed(S, key, {p}) \cap Keyed(S, key, Y) = {}
      /\ Keyed(S, key, {p}) \in SUBSET S /\ Keyed(S, key, Y) \in SUBSET S
  BY <1>6 DEF Keyed
<1>8. j[Y] = h[Keyed(S, key, Y)] /\ w[p] = h[Keyed(S, key, {p})]
  <2>1. p \in P /\ Y \in SUBSET X /\ Y # X
    BY <1>3, <1>6
  <2> HIDE DEF Y
  <2> QED BY <1>4, <2>1 DEF KeySums
<1>9. h[Keyed(S, key, X)] = h[Keyed(S, key, {p})] + h[Keyed(S, key, Y)]
  <2> DEFINE A == Keyed(S, key, {p})
             B == Keyed(S, key, Y)
  <2>1. A \in SUBSET S /\ B \in SUBSET S /\ Apart(A, B)
    BY <1>7 DEF Apart
  <2> HIDE DEF A, B
  <2>2. h[A \cup B] = h[A] + h[B]
    BY <2>1, SumDisjoint
  <2> QED BY <1>7, <2>2 DEF A, B
<1> QED BY <1>3, <1>6, <1>8, <1>9

(* Two sums differ by no more than their members do together.              *)
Near(a, b, n) == 100 * a - b <= n /\ b - 100 * a <= n

LEMMA SumNear ==
    ASSUME NEW S, IsFiniteSet(S), NEW f, AllInts(S, f), NEW h, SumEqn(h, S, f),
           NEW g, AllInts(S, g), NEW k, SumEqn(k, S, g),
           \A x \in S : Near(f[x], g[x], 50)
    PROVE  Near(h[S], k[S], 50 * Cardinality(S))
<1> DEFINE T == {X \in SUBSET S : ~Near(h[X], k[X], 50 * Cardinality(X))}
<1>1. SUFFICES ASSUME T # {} PROVE FALSE
  <2>1. S \notin T
    BY <1>1
  <2> QED BY <2>1
<1>2. PICK X \in T : \A Y \in SUBSET X : Y # X => Y \notin T
  <2>1. T \in SUBSET (SUBSET S)
    OBVIOUS
  <2> HIDE DEF T
  <2> QED BY <1>1, <2>1, Smallest
<1>3. X \in SUBSET S /\ ~Near(h[X], k[X], 50 * Cardinality(X))
  BY <1>2
<1>4. ASSUME NEW Y \in SUBSET X, Y # X PROVE Near(h[Y], k[Y], 50 * Cardinality(Y))
  BY <1>2, <1>3, <1>4
<1> HIDE DEF T
<1>5. X # {}
  <2>1. h[{}] = 0 /\ k[{}] = 0 /\ Cardinality({}) = 0
    BY SumOfNone, FS_EmptySet
  <2>2. Near(0, 0, 50 * 0)
    BY DEF Near
  <2>3. X = {} => Near(h[X], k[X], 50 * Cardinality(X))
    BY <2>1, <2>2, Zenon
  <2> QED BY <1>3, <2>3
<1> DEFINE p == Pick(X)
           Y == X \ {p}
<1>6. p \in X
  BY <1>5, Picked
<1> HIDE DEF p
<1>7. /\ h[X] = f[p] + h[Y] /\ k[X] = g[p] + k[Y]
  BY <1>3, <1>6, SumAnyFirst
<1>8. Near(h[Y], k[Y], 50 * Cardinality(Y)) /\ Near(f[p], g[p], 50)
  BY <1>3, <1>4, <1>6
<1>9. /\ f[p] \in Int /\ g[p] \in Int /\ h[Y] \in Int /\ k[Y] \in Int
  BY <1>3, <1>6, SumType DEF AllInts
<1>10. Cardinality(X) = Cardinality(Y) + 1 /\ Cardinality(Y) \in Nat
  <2>1. IsFiniteSet(X)
    BY <1>3, FS_Subset
  <2>2. IsFiniteSet(Y) /\ Cardinality(Y) = Cardinality(X) - 1
    BY <1>6, <2>1, FS_RemoveElement
  <2> QED BY <2>1, <2>2, FS_CardinalityType
<1> HIDE DEF Y
<1> QED BY <1>3, <1>7, <1>8, <1>9, <1>10 DEF Near

(* The sum of what verdicts say was paid is such a sum.                    *)
LEMMA ActualsAreSummed ==
    ASSUME NEW S, IsFiniteSet(S)
    PROVE  \E h : /\ SumEqn(h, S, [x \in S |-> x.actual])
                  /\ MapThenSumSet(LAMBDA v : v.actual, S) = h[S]
<1> DEFINE g == [x \in S |-> x.actual]
           eqn(h) == [s \in SUBSET S |->
                        IF s = {} THEN 0
                        ELSE (CHOOSE x \in s : TRUE).actual + h[s \ {CHOOSE x \in s : TRUE}]]
<1>1. MapThenSumSet(LAMBDA v : v.actual, S) = (CHOOSE h : h = eqn(h))[S]
  BY DEF MapThenSumSet, MapThenFoldSet
<1>2. ASSUME NEW h
      PROVE  h = eqn(h) <=> SumEqn(h, S, g)
  <2>1. \A s \in SUBSET S : s # {} => g[Pick(s)] = Pick(s).actual
    BY DEF Pick
  <2>2. eqn(h) = [s \in SUBSET S |-> IF s = {} THEN 0 ELSE g[Pick(s)] + h[s \ {Pick(s)}]]
    BY <2>1 DEF Pick
  <2> QED BY <2>2 DEF SumEqn
<1> HIDE DEF eqn
<1>3. \E h : h = eqn(h)
  BY <1>2, SumExists
<1> DEFINE sum == CHOOSE h : h = eqn(h)
<1>4. sum = eqn(sum)
  BY <1>3
<1> QED BY <1>1, <1>2, <1>4

(* The lines that name a policy: which, what they are loaded as paying,    *)
(* and what they state.                                                    *)
PolicyNamed == [l \in Attributed |-> ParsePolicyNo(l.insurer, l.form, l.policy)]
LoadedAs(r) == [l \in Attributed |-> PaidIn(RowFrom(r, l))]
StatedAs == [l \in Attributed |-> Stated(l)]

LEMMA LinesAreNear ==
    ASSUME situation \in Situations, NEW r
    PROVE  /\ IsFiniteSet(Attributed)
           /\ AllInts(Attributed, LoadedAs(r)) /\ AllInts(Attributed, StatedAs)
           /\ \A l \in Attributed : Near(LoadedAs(r)[l], StatedAs[l], 50)
<1>1. IsFiniteSet(situation.lines) /\ Attributed \in SUBSET situation.lines
  BY SituationsAssumption DEF Attributed
<1>2. \A l \in Attributed : /\ Stated(l) \in Int /\ PaidIn(RowFrom(r, l)) \in Int
                            /\ Near(PaidIn(RowFrom(r, l)), Stated(l), 50)
  BY <1>1, LineAmount DEF Near
<1> QED BY <1>1, <1>2, FS_Subset DEF AllInts, LoadedAs, StatedAs

(* What the engine adds up for a policy is what its lines are loaded as.   *)
LEMMA FeedSumByLine ==
    ASSUME situation \in Situations, NEW r \in Runs, NEW p, p # NoPolicy,
           NEW h, SumEqn(h, Attributed, LoadedAs(r))
    PROVE  FeedSum(Loaded(r, situation.lines), p) = h[Keyed(Attributed, PolicyNamed, {p})]
<1> DEFINE S == Attributed
           g == LoadedAs(r)
           A == Keyed(S, PolicyNamed, {p})
           paid == {l \in A : ComputeAmount(l) # NoAmount}
           blank == A \ paid
           f == [l \in paid |-> RowFrom(r, l)]
           rows == {row \in FeedOf(Loaded(r, situation.lines), p) : row.amount # NoAmount}
           v == [x \in rows |-> x.amount]
<1>1. A = {l \in situation.lines : ParsePolicyNo(l.insurer, l.form, l.policy) = p}
  BY DEF Keyed, PolicyNamed, Attributed
<1>2. Loaded(r, situation.lines) = {RowFrom(r, l) : l \in situation.lines}
  BY LoadedIs
<1>3. rows = Images(paid, f)
  <2>1. \A l \in situation.lines : /\ RowFrom(r, l).policy = p <=> l \in A
                                   /\ RowFrom(r, l).amount = ComputeAmount(l)
    BY <1>1, RowIs
  <2>2. FeedOf(Loaded(r, situation.lines), p) = {RowFrom(r, l) : l \in A}
    BY <1>1, <1>2, <2>1 DEF FeedOf
  <2>3. \A l \in A : l \in situation.lines
    BY <1>1
  <2> HIDE DEF A
  <2>4. rows = {RowFrom(r, l) : l \in paid}
    BY <2>1, <2>2, <2>3
  <2>5. {RowFrom(r, l) : l \in paid} = Images(paid, f)
    BY DEF Images
  <2> QED BY <2>4, <2>5
<1>4. /\ IsFiniteSet(S) /\ AllInts(S, g)
      /\ A \in SUBSET S /\ paid \in SUBSET S /\ blank \in SUBSET S
      /\ A = paid \cup blank /\ paid \cap blank = {}
  BY LinesAreNear DEF Keyed
<1>5. /\ \A l \in blank : g[l] = 0
      /\ \A l \in paid : f[l] \in rows /\ v[f[l]] = g[l]
  <2>1. \A l : PaidIn(RowFrom(r, l)) = IF ComputeAmount(l) = NoAmount THEN 0 ELSE ComputeAmount(l)
    BY RowIs DEF PaidIn
  <2>2. \A l \in A : g[l] = PaidIn(RowFrom(r, l))
    BY <1>4 DEF LoadedAs
  <2>3. \A l \in paid : f[l] \in rows /\ v[f[l]] = ComputeAmount(l)
    <3>1. \A l \in paid : f[l] \in rows /\ f[l].amount = ComputeAmount(l)
      BY <1>3, RowIs DEF Images
    <3> HIDE DEF f, rows
    <3> QED BY <3>1
  <2> QED BY <2>1, <2>2, <2>3
<1>6. OneToOne(paid, f)
  <2>1. \A l \in paid : l \in situation.lines /\ f[l].insurer = l.insurer /\ f[l].n = l.n
    BY <1>1, RowIs
  <2> HIDE DEF f, paid
  <2> QED BY <2>1, SituationsAssumption DEF OneToOne
<1>7. f = [l \in paid |-> f[l]]
  OBVIOUS
<1> HIDE DEF S, g, A, paid, blank, f, rows, v
<1>8. h[A] = h[paid]
  <2>1. SumEqn(h, S, g)
    BY DEF S, g
  <2>2. h[A] = h[paid] + h[blank]
    BY <1>4, <2>1, SumDisjoint DEF Apart
  <2>3. h[blank] = 0
    BY <1>4, <1>5, <2>1, SumOfNothings
  <2>4. h[paid] \in Int
    BY <1>4, <2>1, SumType
  <2> QED BY <2>2, <2>3, <2>4
<1> DEFINE hp == [s \in SUBSET paid |-> h[s]]
           gp == [l \in paid |-> g[l]]
<1>9. /\ IsFiniteSet(paid) /\ AllInts(paid, g)
      /\ SumEqn(hp, paid, g) /\ hp[paid] = h[paid]
  <2>1. SumEqn(h, S, g)
    BY DEF S, g
  <2>2. IsFiniteSet(paid) /\ AllInts(paid, g)
    BY <1>4, FS_Subset DEF AllInts
  <2> QED BY <1>4, <2>1, <2>2, SumRestrict
<1> HIDE DEF hp
<1>10. IsFiniteSet(rows)
  BY <1>3, <1>7, <1>9, FiniteImage DEF Images
<1>11. PICK k : SumEqn(k, rows, v) /\ MapThenSumSet(LAMBDA row : row.amount, rows) = k[rows]
  BY <1>10, AmountsAreSummed DEF v
<1>12. k[rows] = hp[paid]
  <2>1. Weighs(paid, g, f, v) /\ SumEqn(k, Images(paid, f), v)
    BY <1>3, <1>5, <1>11 DEF Weighs
  <2>2. k[Images(paid, f)] = hp[paid]
    BY <1>6, <1>7, <1>9, <2>1, SumOfImages
  <2> QED BY <1>3, <2>2
<1>13. FeedSum(Loaded(r, situation.lines), p)
          = MapThenSumSet(LAMBDA row : row.amount, rows)
  BY DEF FeedSum, rows
<1> QED BY <1>8, <1>9, <1>11, <1>12, <1>13 DEF A, S

(* The policies a run judges, each with its verdict.                       *)
PoliciesJudged(r) ==
    DOMAIN situation.book \cup Orphans(situation.book, Loaded(r, situation.lines))
VerdictFor(r, p) == CHOOSE v \in Judged(r, situation) : v.policy = p

LEMMA ActualIs ==
    ASSUME NEW r, NEW p, NEW status, NEW expected, NEW actual, NEW v,
           v = Verdict(r, p, status, expected, actual)
    PROVE  v.policy = p /\ v.actual = actual
  BY DEF Verdict

LEMMA EveryPolicyJudged ==
    ASSUME situation \in Situations, NEW r \in Runs
    PROVE  /\ IsFiniteSet(PoliciesJudged(r)) /\ NoPolicy \notin PoliciesJudged(r)
           /\ \A l \in Attributed : PolicyNamed[l] \in PoliciesJudged(r)
           /\ \A p \in PoliciesJudged(r) :
                 /\ VerdictFor(r, p) \in Judged(r, situation)
                 /\ VerdictFor(r, p).policy = p
                 /\ VerdictFor(r, p).actual = FeedSum(Loaded(r, situation.lines), p)
           /\ \A v \in Judged(r, situation) :
                 v.policy \in PoliciesJudged(r) /\ v = VerdictFor(r, v.policy)
<1> DEFINE book == situation.book
           rows == Loaded(r, situation.lines)
           P == PoliciesJudged(r)
<1>1. IsFiniteSet(DOMAIN book) /\ NoPolicy \notin DOMAIN book /\ IsFiniteSet(rows)
  BY SituationsAssumption, LoadedOK DEF FeedOK
<1>2. IsFiniteSet(P) /\ NoPolicy \notin P
  <2> DEFINE named == [row \in rows |-> row.policy]
             paid == {named[row] : row \in rows}
  <2>1. IsFiniteSet(paid)
    <3> HIDE DEF rows
    <3> QED BY <1>1, FiniteImage
  <2>2. P = DOMAIN book \cup (paid \ (DOMAIN book \cup {NoPolicy}))
    BY DEF PoliciesJudged, Orphans
  <2> HIDE DEF paid, P
  <2>3. IsFiniteSet(paid \ (DOMAIN book \cup {NoPolicy}))
    BY <2>1, FS_Subset
  <2> QED BY <1>1, <2>2, <2>3, FS_Union
<1>3. \A l \in Attributed : PolicyNamed[l] \in P
  <2> TAKE l \in Attributed
  <2>1. PolicyNamed[l] # NoPolicy /\ l \in situation.lines
    BY DEF PolicyNamed, Attributed
  <2>2. RowFrom(r, l) \in rows /\ RowFrom(r, l).policy = PolicyNamed[l]
    BY <2>1, LoadedIs, RowIs DEF PolicyNamed
  <2> HIDE DEF rows
  <2> QED BY <2>1, <2>2 DEF PoliciesJudged, Orphans, rows
<1>4. ASSUME NEW v \in Judged(r, situation)
      PROVE  v.policy \in P /\ v.actual = FeedSum(rows, v.policy)
  <2>1. OnRegister(v, r, book, rows) \/ OffRegister(v, r, book, rows)
    BY <1>4, ReconcileIs DEF Judged
  <2> HIDE DEF rows, book
  <2>2. \E p \in DOMAIN book \cup Orphans(book, rows) : \E status, expected :
           v = Verdict(r, p, status, expected, FeedSum(rows, p))
    BY <2>1 DEF OnRegister, OffRegister
  <2>3. PICK p \in DOMAIN book \cup Orphans(book, rows) : \E status, expected :
           v = Verdict(r, p, status, expected, FeedSum(rows, p))
    BY <2>2
  <2>4. PICK status, expected : v = Verdict(r, p, status, expected, FeedSum(rows, p))
    BY <2>3
  <2>5. v.policy = p /\ v.actual = FeedSum(rows, p)
    BY ONLY <2>4, ActualIs
  <2> QED BY <2>3, <2>5 DEF PoliciesJudged, rows, book
<1>5. ASSUME NEW p \in P
      PROVE  \E v \in Judged(r, situation) : v.policy = p
  <2>1. CASE p \in DOMAIN book
    BY <2>1, VerdictOn
  <2>2. CASE p \in Orphans(book, rows)
    <3> DEFINE v == Verdict(r, p, "UNEXPECTED_PAYMENT", 0, FeedSum(rows, p))
    <3>1. OffRegister(v, r, book, rows)
      BY <2>2 DEF OffRegister
    <3>2. v \in Judged(r, situation) /\ v.policy = p
      BY <3>1, ReconcileIs DEF Judged, Verdict
    <3> QED BY <3>2
  <2> QED BY <2>1, <2>2 DEF PoliciesJudged
<1>6. \A p \in P : VerdictFor(r, p) \in Judged(r, situation) /\ VerdictFor(r, p).policy = p
  BY <1>5 DEF VerdictFor
<1>7. ASSUME NEW v \in Judged(r, situation)
      PROVE  v = VerdictFor(r, v.policy)
  <2>1. VerdictFor(r, v.policy) \in Judged(r, situation)
        /\ VerdictFor(r, v.policy).policy = v.policy
    BY <1>4, <1>6
  <2> QED BY <2>1, OneVerdict DEF Judged
<1> HIDE DEF rows, P
<1>8. \A p \in P : VerdictFor(r, p).actual = FeedSum(rows, p)
  BY <1>4, <1>6
<1> QED BY <1>2, <1>3, <1>4, <1>6, <1>7, <1>8 DEF P, rows

(* Rows that say of each policy what the engine added up for it add up to  *)
(* what the lines that name a policy are loaded as.                        *)
LEMMA ActualsByLine ==
    ASSUME situation \in Situations, NEW r \in Runs,
           NEW h, SumEqn(h, Attributed, LoadedAs(r)),
           NEW g, g = [p \in PoliciesJudged(r) |-> g[p]],
           \A p \in PoliciesJudged(r) :
              /\ g[p].policy = p
              /\ g[p].actual = FeedSum(Loaded(r, situation.lines), p)
    PROVE  MapThenSumSet(LAMBDA v : v.actual, Images(PoliciesJudged(r), g)) = h[Attributed]
<1> DEFINE S == Attributed
           P == PoliciesJudged(r)
           w == [p \in P |-> FeedSum(Loaded(r, situation.lines), p)]
           U == Images(P, g)
           v == [x \in U |-> x.actual]
<1>1. /\ IsFiniteSet(P) /\ NoPolicy \notin P
      /\ \A l \in S : PolicyNamed[l] \in P
      /\ IsFiniteSet(S) /\ AllInts(S, LoadedAs(r))
  BY EveryPolicyJudged, LinesAreNear
<1>2. AllInts(P, w)
  BY LoadedOK, FeedSumIs DEF FeedOK, RowOK, AllInts
<1>3. \A p \in P : w[p] = h[Keyed(S, PolicyNamed, {p})]
  BY <1>1, FeedSumByLine
<1>4. OneToOne(P, g) /\ Weighs(P, w, g, v)
  BY DEF OneToOne, Weighs, Images
<1>5. PICK j : SumEqn(j, P, w)
  <2> HIDE DEF P, w
  <2> QED BY <1>1, SumExists
<1>6. IsFiniteSet(U)
  BY <1>1, FiniteImage DEF Images
<1>7. PICK k : SumEqn(k, U, v) /\ MapThenSumSet(LAMBDA x : x.actual, U) = k[U]
  <2> HIDE DEF U
  <2> QED BY <1>6, ActualsAreSummed
<1>8. SumEqn(k, Images(P, g), v) /\ g = [p \in P |-> g[p]] /\ SumEqn(h, S, LoadedAs(r))
  BY <1>7
<1> HIDE DEF S, P, w, v
<1>9. k[Images(P, g)] = j[P]
  BY <1>1, <1>2, <1>4, <1>5, <1>8, SumOfImages
<1>10. j[P] = h[S]
  <2> DEFINE key == PolicyNamed
             a == LoadedAs(r)
  <2>1. /\ IsFiniteSet(S) /\ AllInts(S, a) /\ SumEqn(h, S, a)
        /\ IsFiniteSet(P) /\ HaveKeys(S, key, P)
        /\ KeySums(P, w, S, key, h) /\ SumEqn(j, P, w)
    BY <1>1, <1>3, <1>5, <1>8 DEF HaveKeys, KeySums
  <2> HIDE DEF key, a
  <2> QED BY ONLY <2>1, SumByKey
<1> QED BY <1>7, <1>9, <1>10 DEF P, S

(* What a run has judged adds up, before it acts and after.                *)
LEMMA ResultsAddUp ==
    ASSUME situation \in Situations, NEW r \in Runs,
           results = Judged(r, situation) \/ ResultsAre(r)
    PROVE  LET total  == MapThenSumSet(LAMBDA v : v.actual, results)
               stated == MapThenSumSet(Stated, Attributed)
               bound  == 50 * Cardinality(Attributed)
           IN  /\ total \in Int /\ stated \in Int /\ bound \in Int
               /\ Near(total, stated, bound)
<1> DEFINE P == PoliciesJudged(r)
           total == MapThenSumSet(LAMBDA v : v.actual, results)
<1>1. /\ \A p \in P : /\ VerdictFor(r, p) \in Judged(r, situation)
                      /\ VerdictFor(r, p).policy = p
                      /\ VerdictFor(r, p).actual = FeedSum(Loaded(r, situation.lines), p)
      /\ \A v \in Judged(r, situation) : v.policy \in P /\ v = VerdictFor(r, v.policy)
  BY EveryPolicyJudged
<1>2. /\ IsFiniteSet(Attributed)
      /\ AllInts(Attributed, LoadedAs(r)) /\ AllInts(Attributed, StatedAs)
      /\ \A l \in Attributed : Near(LoadedAs(r)[l], StatedAs[l], 50)
  BY LinesAreNear
<1>3. PICK h : SumEqn(h, Attributed, LoadedAs(r))
  BY <1>2, SumExists
<1>4. PICK k : SumEqn(k, Attributed, StatedAs)
               /\ MapThenSumSet(Stated, Attributed) = k[Attributed]
  BY <1>2, StatedIsSummed DEF StatedAs
<1> HIDE DEF P
<1>5. total = h[Attributed]
  <2>1. CASE results = Judged(r, situation)
    <3> DEFINE g == [p \in P |-> VerdictFor(r, p)]
    <3>1. results = Images(P, g)
      BY <1>1, <2>1 DEF Images
    <3>2. /\ g = [p \in P |-> g[p]]
          /\ \A p \in P : /\ g[p].policy = p
                          /\ g[p].actual = FeedSum(Loaded(r, situation.lines), p)
      BY <1>1
    <3> HIDE DEF g
    <3> QED BY <1>3, <3>1, <3>2, ActualsByLine DEF P
  <2>2. CASE ResultsAre(r)
    <3> DEFINE g == [p \in P |-> Settled(r, VerdictFor(r, p))]
    <3>1. results = Images(P, g)
      BY <1>1, <2>2 DEF Images, ResultsAre
    <3>2. /\ g = [p \in P |-> g[p]]
          /\ \A p \in P : /\ g[p].policy = p
                          /\ g[p].actual = FeedSum(Loaded(r, situation.lines), p)
      BY <1>1, SettledIs
    <3> HIDE DEF g
    <3> QED BY <1>3, <3>1, <3>2, ActualsByLine DEF P
  <2> QED BY <2>1, <2>2
<1>6. Near(h[Attributed], k[Attributed], 50 * Cardinality(Attributed))
  <2> DEFINE f == LoadedAs(r)
             g == StatedAs
  <2>1. /\ AllInts(Attributed, f) /\ AllInts(Attributed, g)
        /\ SumEqn(h, Attributed, f) /\ SumEqn(k, Attributed, g)
        /\ \A l \in Attributed : Near(f[l], g[l], 50)
    BY <1>2, <1>3, <1>4
  <2> HIDE DEF f, g
  <2> QED BY <1>2, <2>1, SumNear
<1>7. h[Attributed] \in Int /\ k[Attributed] \in Int /\ Cardinality(Attributed) \in Nat
  BY <1>2, <1>3, <1>4, SumType, FS_CardinalityType
<1> HIDE DEF total
<1>8. /\ total \in Int /\ MapThenSumSet(Stated, Attributed) \in Int
      /\ 50 * Cardinality(Attributed) \in Int
      /\ Near(total, MapThenSumSet(Stated, Attributed), 50 * Cardinality(Attributed))
  BY <1>4, <1>5, <1>6, <1>7
<1> QED BY <1>8 DEF total

(* No payment is lost between the statements and the verdicts, and none    *)
(* counts twice, for any books, files and formats and however many runs    *)
(* overlap or fail, as far as they leave this one alone: what its verdicts *)
(* say was paid adds up to what the lines that name a policy state, but    *)
(* for half a unit for each line.                                          *)
THEOREM EveryPaymentIsJudged == Spec => []PaymentsJudged
<1>1. AloneInv => PaymentsJudged
  <2> DEFINE total == MapThenSumSet(LAMBDA v : v.actual, results)
             stated == MapThenSumSet(Stated, Attributed)
             bound == 50 * Cardinality(Attributed)
  <2> SUFFICES ASSUME AloneInv, NEW r \in Runs, state[r].alone,
                      node[r] \in {"detect", "decide", "remediate", "escalate", "finalize"}
               PROVE  Abs(100 * total - stated) <= bound
    BY DEF PaymentsJudged
  <2>1. Sole(r) /\ situation \in Situations /\ Work(r)
    BY DEF Sole, Active, AloneInv, TypeInv, SoleInv
  <2>2. results = Judged(r, situation) \/ ResultsAre(r)
    BY <2>1 DEF Work, Read, Acting, Acted
  <2>3. /\ total \in Int /\ stated \in Int /\ bound \in Int
        /\ Near(total, stated, bound)
    BY <2>1, <2>2, ResultsAddUp
  <2> HIDE DEF total, stated, bound
  <2> QED BY <2>3 DEF Near, Abs
<1> QED BY <1>1, AloneInvariance, PTL

-----------------------------------------------------------------------------
(* What the dashboard shows *)

(* The items of a run are records, and those of a policy were mapped with  *)
(* one verdict, even if overlapping runs left several.                     *)
ItemRecord(i) ==
    i = [policy |-> i.policy, reason |-> i.reason, from |-> i.from,
         amount |-> i.amount, status |-> i.status]
Mapping(items) ==
    /\ \A i \in items : ItemRecord(i)
    /\ \A i, j \in items : i.policy = j.policy => i.status = j.status
KeyedInv == \A r \in Runs : Mapping(state[r].plan \cup state[r].informational)

(* What the status of a mapped finding is. *)
LEMMA VerifiedItem ==
    ASSUME NEW f, NEW w, NEW i, i = Verified(f, w)
    PROVE  i.policy = f.policy /\ i.status = w.state
<1>1. Verified(f, w).policy = f.policy /\ Verified(f, w).status = w.state
  BY MappedIs
<1> QED BY <1>1

(* A mapped finding is a record of five fields. *)
LEMMA MappedRecord ==
    ASSUME NEW f
    PROVE  /\ ItemRecord(Unverified(f))
           /\ \A v : ItemRecord(Verified(f, v))
<1> DEFINE u == Unverified(f)
<1>1. u = [policy |-> f.policy, reason |-> f.reason, from |-> f.from,
           amount |-> 0, status |-> ""]
  BY DEF Unverified
<1>2. ItemRecord(u)
  <2> HIDE DEF u
  <2> QED BY <1>1 DEF ItemRecord
<1>3. ASSUME NEW v PROVE ItemRecord(Verified(f, v))
  <2> DEFINE y == Verified(f, v)
  <2>1. y = [u EXCEPT !.amount = AmountAtStake(v), !.status = v.state]
    BY DEF Verified
  <2> HIDE DEF y, u
  <2>2. y = [policy |-> f.policy, reason |-> f.reason, from |-> f.from,
             amount |-> AmountAtStake(v), status |-> v.state]
    BY <1>1, <2>1
  <2>3. ItemRecord(y)
    BY ONLY <2>2 DEF ItemRecord
  <2> QED BY <2>3 DEF y
<1> QED BY <1>2, <1>3

(* decide maps all findings of a policy with one verdict. *)
LEMMA DecideKeyed ==
    ASSUME TypeInv, KeyedInv, NEW r \in Runs, Decide(r)
    PROVE  KeyedInv'
<1> DEFINE judged == {v.policy : v \in results}
           itemsBy(verdict) ==
              {IF f.policy \in judged THEN Verified(f, verdict[f.policy]) ELSE Unverified(f) :
                  f \in state[r].findings}
           planBy(verdict) == {i \in itemsBy(verdict) : ~Informational(i)}
<1>1. PICK verdict \in [judged -> results] :
         state' = [state EXCEPT ![r].plan = planBy(verdict),
                                ![r].informational = itemsBy(verdict) \ planBy(verdict)]
  BY Zenon DEF Decide
<1> DEFINE items == itemsBy(verdict)
           plan == planBy(verdict)
           others == itemsBy(verdict) \ planBy(verdict)
<1>2. Mapping(items)
  <2>1. ASSUME NEW i \in items
        PROVE  /\ ItemRecord(i)
               /\ i.status = IF i.policy \in judged THEN verdict[i.policy].state ELSE ""
    <3>1. PICK f \in state[r].findings :
             i = IF f.policy \in judged THEN Verified(f, verdict[f.policy]) ELSE Unverified(f)
      OBVIOUS
    <3> HIDE DEF judged, itemsBy, planBy, items, plan, others
    <3>2. CASE f.policy \in judged
      <4>1. i = Verified(f, verdict[f.policy])
        BY <3>1, <3>2
      <4>2. i.policy = f.policy /\ i.status = verdict[f.policy].state
        BY <4>1, VerifiedItem, Zenon
      <4> QED BY <3>2, <4>1, <4>2, MappedRecord
    <3>3. CASE f.policy \notin judged
      <4>1. i = Unverified(f)
        BY <3>1, <3>3
      <4>2. i.policy = f.policy /\ i.status = ""
        BY <4>1, MappedIs
      <4> QED BY <3>3, <4>1, <4>2, MappedRecord
    <3> QED BY <3>2, <3>3
  <2> HIDE DEF items
  <2> QED BY <2>1 DEF Mapping
<1>3. plan \cup others = items
  OBVIOUS
<1>4. state' = [state EXCEPT ![r].plan = plan, ![r].informational = others]
  BY <1>1
<1> HIDE DEF plan, others, items
<1>5. \A q \in Runs : state'[q].plan \cup state'[q].informational
                         = IF q = r THEN items ELSE state[q].plan \cup state[q].informational
  BY <1>3, <1>4 DEF TypeInv, RunsInv, Shape, Fields
<1> QED BY <1>2, <1>5 DEF KeyedInv, Mapping, ItemRecord

LEMMA KeyedNext == TypeInv /\ KeyedInv /\ [Next]_vars => KeyedInv'
<1> SUFFICES ASSUME TypeInv, KeyedInv, [Next]_vars PROVE KeyedInv'
  OBVIOUS
<1>1. CASE \E r \in Runs : Decide(r)
  BY <1>1, DecideKeyed
<1>2. ASSUME \A q \in Runs : /\ state'[q].plan = state[q].plan
                             /\ state'[q].informational = state[q].informational
      PROVE  KeyedInv'
  BY <1>2 DEF KeyedInv, Mapping, ItemRecord
<1>3. CASE \E r \in Runs : Remediate(r) \/ Escalate(r)
  <2>1. PICK r \in Runs : Remediate(r) \/ Escalate(r)
    BY <1>3
  <2>2. PICK list \in {"remediated", "skipped", "escalated"} : \E item, action :
           Outcome(r, list, item, action)
    BY <2>1 DEF Remediate, Escalate
  <2>3. PICK new : state' = [state EXCEPT ![r][list] = @ \cup {new}]
    BY <2>2 DEF Outcome
  <2>4. \A q \in Runs : /\ state'[q].plan = state[q].plan
                        /\ state'[q].informational = state[q].informational
    BY <2>3 DEF TypeInv, RunsInv, Shape, Fields
  <2> QED BY <1>2, <2>4
<1>4. CASE UNCHANGED state
  BY <1>2, <1>4
<1>5. CASE \E r \in Runs : (Step(r) \/ Fail(r)) /\ ~Decide(r) /\ ~Remediate(r) /\ ~Escalate(r)
  <2>1. PICK r \in Runs : (Step(r) \/ Fail(r)) /\ ~Decide(r) /\ ~Remediate(r) /\ ~Escalate(r)
    BY <1>5
  <2>2. CASE Proceed(r)
    BY <1>4, <2>2 DEF Proceed
  <2>3. CASE ~Proceed(r)
    <3>1. Passes(r)
      BY <2>1, <2>3, PassingSteps DEF Step, TypeInv
    <3> QED BY <1>2, <3>1 DEF Passes, SameLists
  <2> QED BY <2>2, <2>3
<1> QED BY <1>1, <1>3, <1>4, <1>5 DEF Next, Change, Done, vars

LEMMA KeyedInvariance == Spec => []KeyedInv
<1>1. Init => KeyedInv
  <2> SUFFICES ASSUME Init PROVE KeyedInv
    OBVIOUS
  <2>1. \A r \in Runs : state[r].plan = {} /\ state[r].informational = {}
    BY DEF Init, EmptyState
  <2> QED BY <2>1 DEF KeyedInv, Mapping
<1> QED BY <1>1, KeyedNext, TypeInvariance, PTL DEF Spec

-----------------------------------------------------------------------------
(* What the API shows *)

(* The finding row of an item. *)
RowOf(r, i) ==
    [run |-> r, policy |-> i.policy, reason |-> i.reason, from |-> i.from,
     amount |-> i.amount, disposition |-> Disposition(r, i)]

LEMMA RowOfIs ==
    ASSUME NEW r, NEW i
    PROVE  /\ RowOf(r, i).run = r /\ RowOf(r, i).policy = i.policy
           /\ RowOf(r, i).reason = i.reason /\ RowOf(r, i).from = i.from
           /\ RowOf(r, i).amount = i.amount
           /\ RowOf(r, i).disposition = Disposition(r, i)
  BY DEF RowOf

(* The rows of a run, and those of them that called for an action.         *)
RowsBy(r) == {f \in persisted : f.run = r}
ActionableBy(r) == {f \in RowsBy(r) : f.disposition # "informational"}

(* Runs are stamped one after another, and before they commit; a run that  *)
(* nobody overlaps is stamped when every other has ended.                  *)
Stamped ==
    /\ clock \in Nat /\ finishedAt \in [Runs -> Nat]
    /\ \A r \in Runs : finishedAt[r] <= clock
    /\ \A r \in Runs : finishedAt[r] # 0 => node[r] \in {"finalize", "complete", "failed"}
    /\ \A r \in Runs : Sole(r) /\ finishedAt[r] # 0 =>
          \A q \in Runs \ {r} : finishedAt[q] < finishedAt[r]

(* A summary is the one of a complete run, with the exposures of its rows, *)
(* and one of them was stamped last.                                       *)
SummaryOK(s) ==
    /\ s.run \in Runs /\ node[s.run] = "complete"
    /\ s.finishedAt = finishedAt[s.run]
    /\ s.underpaymentExposure = Exposure(ActionableBy(s.run), UnderpaymentReasons)
    /\ s.clawbackExposure = Exposure(ActionableBy(s.run), ClawbackReasons)
Filled ==
    /\ \A s \in summaries : SummaryOK(s)
    /\ summaries # {} =>
          \E s \in summaries : \A t \in summaries : t.finishedAt <= s.finishedAt

(* What the dashboard theorem rests on. *)
ShownInv == AloneInv /\ KeyedInv /\ Stamped
DashInv == ShownInv /\ Filled

(* What r files when it finishes are its own rows. *)
LEMMA OwnRows ==
    ASSUME ShownInv, NEW r \in Runs, Finalize(r)
    PROVE  RowsBy(r)' = {RowOf(r, i) : i \in state[r].plan \cup state[r].informational}
<1>1. \A f \in persisted : f.run # r
  BY DEF ShownInv, AloneInv, SoleInv, Unacted, Finalize
<1>2. persisted' = persisted \cup {RowOf(r, i) : i \in state[r].plan \cup state[r].informational}
  BY DEF Finalize, PersistedFindings, RowOf
<1> HIDE DEF ShownInv
<1> QED BY <1>1, <1>2, RowOfIs DEF RowsBy

(* Two items of a run have two rows. *)
LEMMA RowsDiffer ==
    ASSUME KeyedInv, NEW r \in Runs,
           NEW i \in state[r].plan \cup state[r].informational,
           NEW j \in state[r].plan \cup state[r].informational, RowOf(r, i) = RowOf(r, j)
    PROVE  i = j
<1>1. /\ i.policy = j.policy /\ i.reason = j.reason /\ i.from = j.from
      /\ i.amount = j.amount
  BY RowOfIs
<1>2. i.status = j.status /\ ItemRecord(i) /\ ItemRecord(j)
  BY <1>1 DEF KeyedInv, Mapping
<1> QED BY <1>1, <1>2 DEF ItemRecord

(* The actionable ones are those of the plan. *)
LEMMA OwnActionable ==
    ASSUME ShownInv, NEW r \in Runs, Finalize(r)
    PROVE  ActionableBy(r)' = {RowOf(r, i) : i \in state[r].plan}
<1>1. ASSUME NEW i \in state[r].plan \cup state[r].informational
      PROVE  RowOf(r, i).disposition = "informational" <=> i \in state[r].informational
  <2>1. RowOf(r, i) \in persisted'
    BY DEF Finalize, PersistedFindings, RowOf
  <2>2. DispositionsHonest'
    BY FinalizeHonest DEF ShownInv, AloneInv, TypeInv
  <2>3. RowOf(r, i).disposition = "informational" <=> Informational(RowOf(r, i))
    BY <2>1, <2>2 DEF DispositionsHonest, Informational
  <2>4. Informational(RowOf(r, i)) <=> Informational(i)
    BY RowOfIs DEF Informational
  <2>5. Informational(i) <=> i \in state[r].informational
    BY DEF ShownInv, AloneInv, TypeInv, RunsInv, Accounted
  <2> QED BY <2>3, <2>4, <2>5
<1>2. state[r].plan \cap state[r].informational = {}
  BY DEF ShownInv, AloneInv, TypeInv, RunsInv, Accounted
<1>3. ActionableBy(r)' = {f \in RowsBy(r)' : f.disposition # "informational"}
  BY DEF ActionableBy
<1>4. RowsBy(r)' = {RowOf(r, i) : i \in state[r].plan \cup state[r].informational}
  BY OwnRows
<1> HIDE DEF ShownInv
<1> QED BY <1>1, <1>2, <1>3, <1>4

(* Their exposures are those of the run. *)
LEMMA OwnExposure ==
    ASSUME ShownInv, NEW r \in Runs, Finalize(r), NEW reasons
    PROVE  Exposure(ActionableBy(r)', reasons) = Exposure(state[r].plan, reasons)
<1> DEFINE S == {i \in state[r].plan : i.reason \in reasons}
           g == [i \in S |-> RowOf(r, i)]
<1>1. {f \in ActionableBy(r)' : f.reason \in reasons} = Images(S, g)
  <2>1. ActionableBy(r)' = {RowOf(r, i) : i \in state[r].plan}
    BY OwnActionable
  <2>2. Images(S, g) = {RowOf(r, i) : i \in S}
    BY DEF Images
  <2>3. \A i : RowOf(r, i).reason = i.reason
    BY RowOfIs
  <2>4. {f \in {RowOf(r, i) : i \in state[r].plan} : f.reason \in reasons}
           = {RowOf(r, i) : i \in S}
    BY <2>3
  <2> QED BY <2>1, <2>2, <2>4
<1>2. IsFiniteSet(S)
  <2>1. IsFiniteSet(state[r].plan)
    BY DEF ShownInv, AloneInv, TypeInv, RunsInv, Accounted, Counted, Finalize
  <2> QED BY <2>1, FS_Subset
<1>3. \A i \in S : i.amount \in Int /\ g[i].amount = i.amount
  BY RowOfIs DEF ShownInv, AloneInv, TypeInv, ItemOK
<1>4. OneToOne(S, g)
  BY RowsDiffer DEF ShownInv, OneToOne
<1>5. g = [i \in S |-> g[i]]
  OBVIOUS
<1>6. \A i \in S : i.amount \in Int
  BY <1>3
<1>7. \A i \in S : g[i].amount = i.amount
  BY <1>3
<1> HIDE DEF S, g
<1>8. MapThenSumSet(LAMBDA row : row.amount, Images(S, g))
         = MapThenSumSet(LAMBDA row : row.amount, S)
  BY <1>2, <1>4, <1>5, <1>6, <1>7, SameAmounts
<1> QED BY <1>1, <1>8 DEF Exposure, S

-----------------------------------------------------------------------------
(* Stamps and summaries *)

LEMMA StampedNext ==
    ASSUME AloneInv, Stamped, [Next]_vars
    PROVE  Stamped'
<1>1. TypeInv /\ SoleInv /\ Shape
  BY DEF AloneInv, TypeInv, RunsInv
<1> USE DEF Stamped
<1>2. ASSUME NEW r \in Runs, Step(r) \/ Fail(r)
      PROVE  Stamped'
  <2>1. Frame(r)
    BY <1>1, <1>2, StepFrame
  <2>2. \A q \in Runs \ {r} : ~Sole(q)'
    BY <1>1, <1>2, OnlyItself
  <2>3. CASE Stamp(r)
    <3>1. /\ clock' = clock + 1 /\ node' = node /\ node[r] = "finalize"
          /\ finishedAt' = [finishedAt EXCEPT ![r] = clock + 1]
      BY <2>3 DEF Stamp
    <3>2. clock' \in Nat /\ finishedAt' \in [Runs -> Nat]
      BY <3>1
    <3>3. \A q \in Runs : finishedAt'[q] <= clock'
      BY <3>1
    <3>4. \A q \in Runs \ {r} : finishedAt'[q] < finishedAt'[r]
      BY <3>1
    <3>5. \A q \in Runs : finishedAt'[q] # 0 =>
             node'[q] \in {"finalize", "complete", "failed"}
      BY <3>1
    <3> QED BY <2>2, <3>2, <3>3, <3>4, <3>5
  <2>4. CASE ~Stamp(r)
    <3>1. UNCHANGED <<clock, finishedAt>>
      BY <1>2, <2>4 DEF Step, Fail, ResetActionTables, BeginLoad, CommitLoad, BeginReconcile,
         CommitReconcile, Detect, Decide, Remediate, Escalate, Proceed, Finalize, times
    <3>2. finishedAt[r] # 0 => node'[r] \in {"finalize", "complete", "failed"}
      <4>1. node[r] \in {"finalize", "complete", "failed"} =>
               node'[r] \in {"finalize", "complete", "failed"}
        BY <1>1, <1>2, <2>4 DEF Step, Fail, ResetActionTables, MayBegin, BeginLoad, CommitLoad,
           BeginReconcile, CommitReconcile, Detect, Decide, Remediate, Escalate, Proceed,
           Finalize, Goto, Shape
      <4> QED BY <4>1
    <3>3. Sole(r)' /\ finishedAt[r] # 0 => Sole(r)
      <4>1. CASE ResetActionTables(r)
        BY <4>1 DEF ResetActionTables, MayBegin
      <4>2. CASE ~ResetActionTables(r)
        BY <1>1, <1>2, <4>2, SoleBefore DEF Sole
      <4> QED BY <4>1, <4>2
    <3>4. \A q \in Runs \ {r} : node'[q] = node[q]
      BY <2>1 DEF Frame
    <3> QED BY <2>2, <3>1, <3>2, <3>3, <3>4
  <2> QED BY <2>3, <2>4
<1>3. CASE Change \/ UNCHANGED vars
  <2>1. UNCHANGED <<clock, finishedAt, node, state>>
    BY <1>3 DEF Change, vars, times
  <2> QED BY <2>1 DEF Sole, Active
<1> QED BY <1>2, <1>3 DEF Next, Done

(* The summary of a run that finishes is right. *)
LEMMA FinalizeFills ==
    ASSUME DashInv, NEW r \in Runs, Finalize(r), NEW told, told = Summary(r)
    PROVE  SummaryOK(told)'
<1>1. /\ told.run = r /\ told.finishedAt = finishedAt[r]
      /\ told.underpaymentExposure = Exposure(state[r].plan, UnderpaymentReasons)
      /\ told.clawbackExposure = Exposure(state[r].plan, ClawbackReasons)
  BY DEF Summary
<1>2. node'[r] = "complete" /\ finishedAt' = finishedAt
  BY DEF Finalize, Goto, times, DashInv, ShownInv, AloneInv, TypeInv, RunsInv, Shape
<1>3. \A reasons : Exposure(ActionableBy(r)', reasons) = Exposure(state[r].plan, reasons)
  BY OwnExposure DEF DashInv
<1> QED BY <1>1, <1>2, <1>3 DEF SummaryOK

(* The summaries of others stay right. *)
LEMMA SummaryStays ==
    ASSUME NEW s, SummaryOK(s), RowsBy(s.run)' = RowsBy(s.run),
           node'[s.run] = node[s.run], finishedAt'[s.run] = finishedAt[s.run]
    PROVE  SummaryOK(s)'
<1>1. ActionableBy(s.run)' = ActionableBy(s.run)
  BY DEF ActionableBy
<1> QED BY <1>1 DEF SummaryOK

LEMMA FilledNext ==
    ASSUME DashInv, [Next]_vars
    PROVE  Filled'
<1>1. TypeInv /\ SoleInv /\ Shape /\ Stamped /\ Filled
  BY DEF DashInv, ShownInv, AloneInv, TypeInv, RunsInv
<1>2. ASSUME NEW r \in Runs, Step(r) \/ Fail(r)
      PROVE  /\ \A s \in summaries : SummaryOK(s)'
             /\ summaries' # summaries => Finalize(r)
  <2>1. Frame(r)
    BY <1>1, <1>2, StepFrame
  <2>2. ASSUME NEW s \in summaries
        PROVE  SummaryOK(s)'
    <3>1. SummaryOK(s) /\ s.run \in Runs /\ node[s.run] = "complete"
      BY <1>1 DEF Filled, SummaryOK
    <3>2. s.run # r
      BY <1>2, <3>1 DEF Step, Fail, ResetActionTables, MayBegin, BeginLoad, CommitLoad,
         BeginReconcile, CommitReconcile, Detect, Decide, Remediate, Escalate, Proceed, Stamp,
         Finalize, Active
    <3>3. RowsBy(s.run)' = RowsBy(s.run) /\ node'[s.run] = node[s.run]
      BY <2>1, <3>1, <3>2 DEF Frame, RowsBy
    <3>4. finishedAt'[s.run] = finishedAt[s.run]
      <4>1. UNCHANGED finishedAt \/ finishedAt' = [finishedAt EXCEPT ![r] = clock + 1]
        BY <1>2 DEF Step, Fail, ResetActionTables, BeginLoad, CommitLoad, BeginReconcile,
           CommitReconcile, Detect, Decide, Remediate, Escalate, Proceed, Stamp, Finalize, times
      <4> QED BY <1>1, <3>1, <3>2, <4>1 DEF Stamped
    <3> QED BY <3>1, <3>3, <3>4, SummaryStays
  <2>3. summaries' # summaries => Finalize(r)
    BY <1>2 DEF Step, Fail, ResetActionTables, BeginLoad, CommitLoad, BeginReconcile,
       CommitReconcile, Detect, Decide, Remediate, Escalate, Proceed, Stamp, tables
  <2> QED BY <2>2, <2>3
<1>3. ASSUME NEW r \in Runs, Finalize(r)
      PROVE  Filled'
  <2>1. PICK told : told = Summary(r)
    OBVIOUS
  <2>2. summaries' = summaries \cup {told}
    BY <1>3, <2>1 DEF Finalize
  <2>3. told.finishedAt = finishedAt[r]
    BY <2>1 DEF Summary
  <2>4. \A s \in summaries' : SummaryOK(s)'
    <3>1. \A s \in summaries : SummaryOK(s)'
      BY <1>2, <1>3 DEF Step
    <3>2. SummaryOK(told)'
      BY <1>3, <2>1, FinalizeFills
    <3> QED BY <2>2, <3>1, <3>2
  <2>5. \A s \in summaries' : s.finishedAt \in Nat
    <3>1. \A s \in summaries : s.finishedAt \in Nat
      BY <1>1 DEF Filled, SummaryOK, Stamped
    <3> QED BY <1>1, <2>2, <2>3, <3>1 DEF Stamped
  <2>6. \E s \in summaries' : \A t \in summaries' : t.finishedAt <= s.finishedAt
    <3>1. CASE summaries = {}
      BY <2>2, <2>5, <3>1
    <3>2. CASE summaries # {}
      <4>1. PICK s \in summaries : \A t \in summaries : t.finishedAt <= s.finishedAt
        BY <1>1, <3>2 DEF Filled
      <4>2. CASE told.finishedAt <= s.finishedAt
        BY <2>2, <4>1, <4>2
      <4>3. CASE s.finishedAt <= told.finishedAt
        BY <2>2, <2>5, <4>1, <4>3
      <4> QED BY <2>2, <2>5, <4>2, <4>3
    <3> QED BY <3>1, <3>2
  <2> QED BY <2>4, <2>6 DEF Filled
<1>4. CASE \E r \in Runs : Step(r) \/ Fail(r)
  <2>1. PICK r \in Runs : Step(r) \/ Fail(r)
    BY <1>4
  <2>2. CASE Finalize(r)
    BY <1>3, <2>2
  <2>3. CASE ~Finalize(r)
    <3>1. summaries' = summaries /\ \A s \in summaries : SummaryOK(s)'
      BY <1>2, <2>1, <2>3
    <3> QED BY <1>1, <3>1 DEF Filled
  <2> QED BY <2>2, <2>3
<1>5. CASE Change \/ UNCHANGED vars
  <2>1. UNCHANGED <<persisted, summaries, finishedAt, node>>
    BY <1>5 DEF Change, vars, tables, times
  <2>2. \A s \in summaries : SummaryOK(s)'
    BY <1>1, <2>1, SummaryStays DEF Filled, RowsBy
  <2> QED BY <1>1, <2>1, <2>2 DEF Filled
<1> QED BY <1>4, <1>5 DEF Next, Done

LEMMA DashInvariance == Spec => []DashInv
<1>1. Init => Stamped /\ Filled
  <2> SUFFICES ASSUME Init PROVE Stamped /\ Filled
    OBVIOUS
  <2>1. clock = 0 /\ finishedAt = [r \in Runs |-> 0] /\ summaries = {}
    BY DEF Init
  <2> QED BY <2>1 DEF Stamped, Filled
<1>2. AloneInv /\ Stamped /\ [Next]_vars => Stamped'
  BY StampedNext
<1>3. DashInv /\ [Next]_vars => Filled'
  BY FilledNext
<1> QED BY <1>1, <1>2, <1>3, AloneInvariance, KeyedInvariance, PTL DEF Spec, DashInv, ShownInv

(* One of the summaries is shown, with its rows. *)
LEMMA Latest ==
    ASSUME Filled, summaries # {}
    PROVE  /\ LatestRun \in summaries
           /\ \A t \in summaries : t.finishedAt <= LatestRun.finishedAt
           /\ LeakItems = RowsBy(LatestRun.run)
           /\ Actionable = ActionableBy(LatestRun.run)
<1>1. \E s \in summaries : \A t \in summaries : t.finishedAt <= s.finishedAt
  BY DEF Filled
<1>2. /\ LatestRun \in summaries
      /\ \A t \in summaries : t.finishedAt <= LatestRun.finishedAt
  BY <1>1 DEF LatestRun
<1>3. LeakItems = RowsBy(LatestRun.run)
  BY DEF LeakItems, LatestRunId, RowsBy
<1> QED BY <1>2, <1>3 DEF Actionable, ActionableBy

(* If nobody overlapped it, it is the run that has just finished. *)
LEMMA OwnShown ==
    ASSUME DashInv, Filled', NEW r \in Runs, Finalize(r), state[r].alone
    PROVE  LatestRun' = Summary(r)
<1>1. PICK told : told = Summary(r)
  OBVIOUS
<1>2. summaries' = summaries \cup {told}
  BY <1>1 DEF Finalize
<1>3. told.finishedAt = finishedAt[r] /\ finishedAt[r] # 0 /\ node[r] = "finalize"
  BY <1>1 DEF Summary, Finalize
<1>4. \A q \in Runs \ {r} : finishedAt[q] < finishedAt[r]
  BY <1>3 DEF DashInv, ShownInv, Stamped, Sole, Active
<1>5. ASSUME NEW s \in summaries
      PROVE  ~(told.finishedAt <= s.finishedAt)
  <2>1. s.run \in Runs \ {r} /\ s.finishedAt = finishedAt[s.run]
    BY <1>3 DEF DashInv, Filled, SummaryOK
  <2>2. finishedAt[s.run] \in Nat /\ finishedAt[r] \in Nat
    BY <2>1 DEF DashInv, ShownInv, Stamped
  <2> QED BY <1>3, <1>4, <2>1, <2>2
<1>6. LatestRun' \in summaries' /\ told.finishedAt <= LatestRun'.finishedAt
  <2>1. (summaries # {} => /\ LatestRun \in summaries
                           /\ \A t \in summaries : t.finishedAt <= LatestRun.finishedAt)'
    BY Latest, PTL
  <2> QED BY <1>2, <2>1
<1> QED BY <1>1, <1>2, <1>5, <1>6

(* The items in a list of outcomes. *)
ItemsOf(list) == {o.item : o \in list}

(* No item is in two lists, nor twice in one: the lists count it once. *)
LEMMA ListsCount ==
    ASSUME NEW r, Counted(r)
    PROVE  /\ Cardinality(ItemsOf(state[r].remediated)) = Cardinality(state[r].remediated)
           /\ Cardinality(ItemsOf(state[r].escalated)) = Cardinality(state[r].escalated)
           /\ Cardinality(ItemsOf(state[r].skipped)) = Cardinality(state[r].skipped)
<1> DEFINE X == state[r].remediated
           Y == state[r].escalated
           Z == state[r].skipped
           A == ItemsOf(X)
           B == ItemsOf(Y)
           C == ItemsOf(Z)
<1>1. IsFiniteSet(X) /\ IsFiniteSet(Y) /\ IsFiniteSet(Z)
  BY DEF Counted
<1>2. Handled(r) = (A \cup B) \cup C
  BY DEF Handled, ItemsOf
<1>3. ASSUME NEW list, IsFiniteSet(list)
      PROVE  /\ IsFiniteSet(ItemsOf(list))
             /\ Cardinality(ItemsOf(list)) <= Cardinality(list)
             /\ Cardinality(ItemsOf(list)) \in Nat /\ Cardinality(list) \in Nat
  <2> DEFINE g == [o \in list |-> o.item]
  <2>1. g \in Surjection(list, ItemsOf(list))
    BY DEF Surjection, ItemsOf
  <2> HIDE DEF g
  <2> QED BY <1>3, <2>1, FS_Surjection, FS_CardinalityType
<1>4. /\ IsFiniteSet(A) /\ Cardinality(A) <= Cardinality(X)
      /\ Cardinality(A) \in Nat /\ Cardinality(X) \in Nat
  BY <1>1, <1>3
<1>5. /\ IsFiniteSet(B) /\ Cardinality(B) <= Cardinality(Y)
      /\ Cardinality(B) \in Nat /\ Cardinality(Y) \in Nat
  BY <1>1, <1>3
<1>6. /\ IsFiniteSet(C) /\ Cardinality(C) <= Cardinality(Z)
      /\ Cardinality(C) \in Nat /\ Cardinality(Z) \in Nat
  BY <1>1, <1>3
<1>7. Cardinality(Handled(r)) = Cardinality(X) + Cardinality(Y) + Cardinality(Z)
  BY DEF Counted
<1> HIDE DEF A, B, C, X, Y, Z
<1>8. ASSUME NEW S, NEW T, IsFiniteSet(S), IsFiniteSet(T)
      PROVE  /\ IsFiniteSet(S \cup T) /\ Cardinality(S \cup T) \in Nat
             /\ Cardinality(S \cup T) <= Cardinality(S) + Cardinality(T)
  <2>1. IsFiniteSet(S \cup T)
        /\ Cardinality(S \cup T) = Cardinality(S) + Cardinality(T) - Cardinality(S \cap T)
    BY <1>8, FS_Union
  <2>2. IsFiniteSet(S \cap T)
    BY <1>8, FS_Subset
  <2>3. /\ Cardinality(S) \in Nat /\ Cardinality(T) \in Nat
        /\ Cardinality(S \cap T) \in Nat /\ Cardinality(S \cup T) \in Nat
    BY <1>8, <2>1, <2>2, FS_CardinalityType
  <2> QED BY <2>1, <2>3
<1>9. /\ IsFiniteSet(A \cup B) /\ Cardinality(A \cup B) \in Nat
      /\ Cardinality(A \cup B) <= Cardinality(A) + Cardinality(B)
  BY <1>4, <1>5, <1>8
<1>10. /\ Cardinality((A \cup B) \cup C) \in Nat
       /\ Cardinality((A \cup B) \cup C) <= Cardinality(A \cup B) + Cardinality(C)
  BY <1>6, <1>8, <1>9
<1>11. /\ Cardinality(A) = Cardinality(X) /\ Cardinality(B) = Cardinality(Y)
       /\ Cardinality(C) = Cardinality(Z)
  BY <1>2, <1>4, <1>5, <1>6, <1>7, <1>9, <1>10
<1> QED BY <1>11 DEF A, B, C, X, Y, Z

(* The items of each list are those with that fate. *)
LEMMA ListsFated ==
    ASSUME NEW r, ActingRun(r), node[r] = "finalize"
    PROVE  LET fated(d) == {i \in Items(r, situation) : Fate(i) = d}
           IN  /\ ItemsOf(state[r].remediated) = fated("remediated")
               /\ ItemsOf(state[r].escalated) = fated("escalated")
               /\ ItemsOf(state[r].skipped) = fated("below_threshold")
               /\ state[r].informational = fated("informational")
<1>1. ASSUME NEW o \in state[r].remediated
      PROVE  o.item \in Items(r, situation) /\ Fate(o.item) = "remediated"
  <2>1. o.item \in Items(r, situation) /\ ~Informational(o.item)
    BY HandledAreItems
  <2>2. Target(o.item) = "remediate" /\ ValidateAction(o.item) = "OK"
    BY DEF ActingRun, RoutedAsGated
  <2> QED BY <2>1, <2>2 DEF Fate
<1>2. ASSUME NEW o \in state[r].escalated
      PROVE  o.item \in Items(r, situation) /\ Fate(o.item) = "escalated"
  <2>1. o.item \in Items(r, situation)
    BY HandledAreItems
  <2>2. Target(o.item) = "escalate"
    BY DEF ActingRun, RoutedAsGated
  <2> QED BY <2>1, <2>2 DEF Fate
<1>3. ASSUME NEW o \in state[r].skipped
      PROVE  o.item \in Items(r, situation) /\ Fate(o.item) = "below_threshold"
  <2>1. o.item \in Items(r, situation)
    BY HandledAreItems
  <2>2. Target(o.item) = "remediate" /\ ValidateAction(o.item) = "TOO_SMALL"
    BY DEF ActingRun, RoutedAsGated
  <2> QED BY <2>1, <2>2 DEF Fate
<1>4. \A i : Informational(i) <=> Fate(i) = "informational"
  BY DEF Fate, Target
<1>5. ASSUME NEW i \in Items(r, situation), ~Informational(i)
      PROVE  \/ i \in ItemsOf(state[r].remediated) \/ i \in ItemsOf(state[r].escalated)
             \/ i \in ItemsOf(state[r].skipped)
  <2>1. i \in Handled(r)
    BY <1>5 DEF ActingRun, Acted, PlanIs, Accounted
  <2> QED BY <2>1 DEF Handled, ItemsOf
<1>6. state[r].informational = {i \in Items(r, situation) : Informational(i)}
  BY DEF ActingRun, Acted, PlanIs
<1> DEFINE I == Items(r, situation)
<1>7. \A i \in ItemsOf(state[r].remediated) : i \in I /\ Fate(i) = "remediated"
  BY <1>1 DEF ItemsOf
<1>8. \A i \in ItemsOf(state[r].escalated) : i \in I /\ Fate(i) = "escalated"
  BY <1>2 DEF ItemsOf
<1>9. \A i \in ItemsOf(state[r].skipped) : i \in I /\ Fate(i) = "below_threshold"
  BY <1>3 DEF ItemsOf
<1> QED BY <1>4, <1>5, <1>6, <1>7, <1>8, <1>9

(* What is claimed is what the run says it claimed. *)
Amounts(rows) == MapThenSumSet(LAMBDA row : row.amount, rows)

LEMMA ClaimedIs ==
    ASSUME NEW r, ActingRun(r), Counted(r)
    PROVE  Amounts(claims) = TotalClaimed(r)
<1> DEFINE S == LodgedBy(r)
           g == [o \in S |-> Lodged(r, o.item)]
<1>1. claims = Images(S, g)
  BY DEF ActingRun, Acted, ClaimsAre, Images
<1>2. IsFiniteSet(S)
  BY FS_Subset DEF LodgedBy, Counted
<1>3. \A o \in S : o \in state[r].remediated
  BY DEF LodgedBy
<1>4. \A o \in S : /\ g[o].policy = o.item.policy /\ g[o].reason = o.item.reason
                   /\ g[o].amount = o.item.amount
  BY ClaimIs
<1>5. ASSUME NEW o \in state[r].remediated, NEW q \in state[r].remediated, o.item = q.item
      PROVE  o = q
  <2> DEFINE X == state[r].remediated
             A == ItemsOf(X)
             f == [x \in X |-> x.item]
  <2>1. IsFiniteSet(X) /\ Cardinality(X) = Cardinality(A)
    BY ListsCount DEF Counted
  <2>2. f \in Surjection(X, A)
    BY DEF Surjection, ItemsOf
  <2>3. o \in X /\ q \in X /\ f[o] = f[q]
    BY <1>5
  <2> HIDE DEF X, A, f
  <2>4. f \in Injection(X, A)
    BY <2>1, <2>2, FS_SurjSameCardinalityImpliesInj
  <2> QED BY <2>3, <2>4 DEF Injection, IsInjective
<1>6. OneToOne(S, g)
  <2>1. ASSUME NEW o \in S, NEW q \in S, g[o] = g[q] PROVE o = q
    <3>1. o.item.policy = q.item.policy /\ o.item.reason = q.item.reason
      BY <1>4, <2>1
    <3>2. o.item \in Items(r, situation) /\ q.item \in Items(r, situation)
      BY <1>3, HandledAreItems
    <3>3. o.item = q.item
      BY <3>1, <3>2, OneItem
    <3> QED BY <1>3, <1>5, <3>3
  <2> QED BY <2>1 DEF OneToOne
<1>7. \A o \in S : o.item.amount \in Int
  BY <1>3, HandledAreItems DEF ActingRun, ItemOK
<1>8. \A o \in S : g[o].amount = o.item.amount
  BY <1>4
<1>9. g = [o \in S |-> g[o]]
  OBVIOUS
<1> HIDE DEF g, S
<1>10. MapThenSumSet(LAMBDA row : row.amount, Images(S, g))
          = MapThenSumSet(LAMBDA o : o.item.amount, S)
  BY <1>2, <1>6, <1>7, <1>8, <1>9, SameItemAmounts
<1> QED BY <1>1, <1>10 DEF Amounts, TotalClaimed, S, LodgedBy

(* As many leaks of a disposition are shown as items have that fate. *)
LEMMA FatesShown ==
    ASSUME DashInv, NEW r \in Runs, Finalize(r), ActingRun(r), NEW d,
           LeakItems' = RowsBy(r)'
    PROVE  WithDisposition(d)' = Cardinality({i \in Items(r, situation) : Fate(i) = d})
<1> DEFINE I == state[r].plan \cup state[r].informational
           S == {i \in I : Fate(i) = d}
           g == [i \in S |-> RowOf(r, i)]
<1>1. I = Items(r, situation)
  BY DEF ActingRun, Acted, PlanIs
<1>2. node[r] = "finalize" /\ situation \in Situations
  BY DEF Finalize, ActingRun
<1>3. {f \in LeakItems' : f.disposition = d} = {g[i] : i \in S}
  <2>1. LeakItems' = {RowOf(r, i) : i \in I}
    BY OwnRows DEF DashInv
  <2>2. \A i \in I : RowOf(r, i).disposition = Fate(i)
    BY <1>1, <1>2, FateIs, RowOfIs
  <2>3. {f \in {RowOf(r, i) : i \in I} : f.disposition = d} = {RowOf(r, i) : i \in S}
    BY <2>2
  <2>4. {g[i] : i \in S} = {RowOf(r, i) : i \in S}
    OBVIOUS
  <2> QED BY <2>1, <2>3, <2>4
<1>4. IsFiniteSet(S)
  <2>1. IsFiniteSet(I)
    BY <1>1, <1>2, ItemsFinite
  <2> HIDE DEF I
  <2> QED BY <2>1, FS_Subset
<1>5. \A i, j \in S : g[i] = g[j] => i = j
  BY RowsDiffer DEF DashInv, ShownInv
<1>6. g = [i \in S |-> g[i]]
  OBVIOUS
<1>7. WithDisposition(d)' = Cardinality({f \in LeakItems' : f.disposition = d})
  BY DEF WithDisposition
<1>8. S = {i \in Items(r, situation) : Fate(i) = d}
  BY <1>1
<1> HIDE DEF S, g
<1> QED BY <1>3, <1>4, <1>5, <1>6, <1>7, <1>8, SameSize

(* A policy has one verdict while a run is alone. *)
LEMMA OneVerdictEach ==
    ASSUME NEW r, ActingRun(r), NEW p
    PROVE  ~(Cardinality(VerdictsOf(p)) > 1)
<1>1. ASSUME NEW u \in results, NEW v \in results, u.policy = v.policy
      PROVE  u = v
  <2>1. PICK x \in Judged(r, situation) : u = Settled(r, x)
    BY DEF ActingRun, Acted, ResultsAre
  <2>2. PICK y \in Judged(r, situation) : v = Settled(r, y)
    BY DEF ActingRun, Acted, ResultsAre
  <2>3. x.policy = y.policy
    BY <1>1, <2>1, <2>2, SettledIs DEF ActingRun
  <2>4. x = y
    BY <2>3, JudgedOnce
  <2> QED BY <2>1, <2>2, <2>4
<1> DEFINE V == VerdictsOf(p)
<1>2. \A u, v \in V : u = v
  BY <1>1 DEF VerdictsOf
<1> HIDE DEF V
<1>3. CASE V = {}
  BY <1>3, FS_EmptySet DEF V
<1>4. CASE V # {}
  <2>1. PICK v : V = {v}
    BY <1>2, <1>4
  <2>2. Cardinality({v}) = 1
    BY FS_Singleton
  <2> QED BY <2>1, <2>2 DEF V
<1> QED BY <1>3, <1>4

(* The sums of the metrics. *)
MetricsSum ==
    /\ Metrics.underpaymentExposure = Exposure(Actionable, UnderpaymentReasons)
    /\ Metrics.clawbackExposure = Exposure(Actionable, ClawbackReasons)
    /\ Metrics.totalClaimed = Amounts(claims)

LEMMA MetricsSumUp == MetricsSum
  BY DEF MetricsSum, Metrics, Amounts

(* They are so after a step, too. *)
LEMMA ShownSums ==
    /\ Metrics'.underpaymentExposure = Exposure(Actionable', UnderpaymentReasons)
    /\ Metrics'.clawbackExposure = Exposure(Actionable', ClawbackReasons)
    /\ Metrics'.totalClaimed = Amounts(claims')
<1>1. MetricsSum'
  BY MetricsSumUp, PTL
<1> QED BY <1>1 DEF MetricsSum

(* The dashboard tells what the run reported. *)
Tells(r) ==
    LET told == RunReconcile(r).summary
        shown == Metrics'
    IN  /\ \A field \in DOMAIN shown : shown[field] = told[field]
        /\ RunReconcile(r).conserved
        /\ \A f \in ListLeaks({})' : \A page \in LeakDetail(f.policy)' :
              page.answer # "not_found" => page.answer = "detail" /\ Accounts(page)

(* A policy whose verdict was found short or long and then re-billed is    *)
(* disputed, a handover has its case and a claim its row.                  *)
LEMMA FiledAccounts ==
    ASSUME NEW r, ActingRun(r), node[r] = "finalize", NEW i \in Items(r, situation)
    PROVE  /\ Fate(i) = "escalated" => \E e \in escalations : SameLeak(e, i)
           /\ Fate(i) = "remediated" =>
                 IF RouteAction(i) = "claim"
                 THEN \E c \in claims : SameLeak(c, i) /\ c.amount = i.amount
                 ELSE \E v \in results : v.policy = i.policy /\ v.state = "disputed"
<1>1. ASSUME Fate(i) = "escalated"
      PROVE  \E e \in escalations : SameLeak(e, i)
  <2>1. i \in ItemsOf(state[r].escalated)
    BY <1>1, ListsFated
  <2>2. PICK o \in state[r].escalated : o.item = i
    BY <2>1 DEF ItemsOf
  <2> QED BY <2>2, Happened
<1>2. ASSUME Fate(i) = "remediated"
      PROVE  IF RouteAction(i) = "claim"
             THEN \E c \in claims : SameLeak(c, i) /\ c.amount = i.amount
             ELSE \E v \in results : v.policy = i.policy /\ v.state = "disputed"
  <2>1. i \in ItemsOf(state[r].remediated)
    BY <1>2, ListsFated
  <2>2. PICK o \in state[r].remediated : o.item = i
    BY <2>1 DEF ItemsOf
  <2>3. o.action = RouteAction(i) /\ ValidateAction(i) = "OK"
    BY <2>2 DEF ActingRun, RoutedAsGated
  <2>4. CASE RouteAction(i) = "claim"
    BY <2>2, <2>3, <2>4, Happened
  <2>5. CASE RouteAction(i) # "claim"
    <3>1. BilledBy(r, i.policy)
      BY <2>2, <2>3, <2>5, Happened DEF BilledBy
    <3>2. i.status = "open"
      BY <2>3 DEF ValidateAction
    <3>3. PICK v \in Judged(r, situation) : v.policy = i.policy
      BY <3>2, OpenItem
    <3>4. Settled(r, v) \in results
      BY DEF ActingRun, Acted, ResultsAre
    <3>5. Settled(r, v).policy = i.policy /\ Settled(r, v).state = "disputed"
      BY <3>1, <3>3, SettledIs DEF ActingRun
    <3> QED BY <2>5, <3>4, <3>5
  <2> QED BY <2>4, <2>5
<1> QED BY <1>1, <1>2

LEMMA PageAccounts ==
    ASSUME DashInv, NEW r \in Runs, Finalize(r), ActingRun(r), LeakItems' = RowsBy(r)',
           NEW f \in LeakItems', NEW page \in LeakDetail(f.policy)',
           page.answer # "not_found"
    PROVE  page.answer = "detail" /\ Accounts(page)
<1>1. VerdictsOf(f.policy)' = VerdictsOf(f.policy)
  BY DEF VerdictsOf, Finalize
<1>2. ~(Cardinality(VerdictsOf(f.policy)') > 1)
  BY <1>1, OneVerdictEach
<1>3. f.policy \in DOMAIN situation'.book
  BY DEF LeakDetail
<1>4. FindingsOf(f.policy)' # {}
  BY DEF FindingsOf
<1>5. PICK g \in FindingsOf(f.policy)' :
         page = [answer |-> "detail", recon |-> VerdictsOf(f.policy)', finding |-> g,
                 claims |-> {c \in claims' : c.policy = f.policy},
                 escalations |-> {e \in escalations' : e.policy = f.policy}]
  BY <1>2, <1>3, <1>4 DEF LeakDetail
<1>6. /\ page.answer = "detail" /\ page.finding = g /\ page.recon = VerdictsOf(f.policy)
      /\ page.claims = {c \in claims : c.policy = f.policy}
      /\ page.escalations = {e \in escalations : e.policy = f.policy}
  BY <1>1, <1>5 DEF Finalize
<1>7. g.policy = f.policy /\ g \in RowsBy(r)'
  BY DEF FindingsOf
<1>8. PICK i \in state[r].plan \cup state[r].informational : g = RowOf(r, i)
  BY <1>7, OwnRows DEF DashInv
<1>9. i \in Items(r, situation) /\ node[r] = "finalize"
  BY DEF ActingRun, Acted, PlanIs, Finalize
<1>10. /\ i.policy = f.policy /\ g.reason = i.reason /\ g.amount = i.amount
       /\ g.disposition = Fate(i)
  BY <1>7, <1>8, <1>9, RowOfIs, FateIs
<1>11. RouteAction(g) = RouteAction(i)
  BY <1>10 DEF RouteAction
<1>12. /\ Fate(i) = "escalated" => \E e \in escalations : SameLeak(e, i)
       /\ Fate(i) = "remediated" =>
             IF RouteAction(i) = "claim"
             THEN \E c \in claims : SameLeak(c, i) /\ c.amount = i.amount
             ELSE \E v \in results : v.policy = i.policy /\ v.state = "disputed"
  BY <1>9, FiledAccounts
<1> HIDE DEF DashInv
<1>13. Accounts(page)
  <2>1. g.disposition = "escalated" => \E e \in page.escalations : e.reason = g.reason
    BY <1>6, <1>10, <1>12 DEF SameLeak
  <2>2. g.disposition = "remediated" =>
           IF RouteAction(g) = "claim"
           THEN \E c \in page.claims : c.reason = g.reason /\ c.amount = g.amount
           ELSE \E v \in page.recon : v.state = "disputed"
    BY <1>6, <1>10, <1>11, <1>12 DEF SameLeak, VerdictsOf
  <2> QED BY <1>6, <2>1, <2>2 DEF Accounts
<1> QED BY <1>6, <1>13

LEMMA SoleTells ==
    ASSUME DashInv, Filled', NEW r \in Runs, Finalize(r), state[r].alone
    PROVE  Tells(r)
<1>1. ActingRun(r) /\ Counted(r) /\ Accounted(r) /\ node[r] = "finalize"
  <2>1. node[r] = "finalize"
    BY DEF Finalize
  <2>2. Sole(r) /\ node[r] \in Acting
    BY <2>1 DEF Sole, Active, Acting
  <2>3. TypeInv /\ SoleInv
    BY DEF DashInv, ShownInv, AloneInv
  <2>4. Counted(r) /\ Accounted(r)
    BY <2>3 DEF TypeInv, RunsInv
  <2> QED BY <2>1, <2>2, <2>3, <2>4, SoleActs
<1> DEFINE shown == Metrics'
           told == RunReconcile(r).summary
<1>2. told = Summary(r)
  BY DEF RunReconcile
<1>3. LeakItems' = RowsBy(r)' /\ Actionable' = ActionableBy(r)'
  <2>1. summaries' # {}
    BY DEF Finalize
  <2>2. (Filled /\ summaries # {} => /\ LeakItems = RowsBy(LatestRun.run)
                                     /\ Actionable = ActionableBy(LatestRun.run))'
    BY Latest, PTL
  <2>3. LeakItems' = RowsBy(LatestRun.run)' /\ Actionable' = ActionableBy(LatestRun.run)'
    BY <2>1, <2>2
  <2>4. LatestRun'.run = r
    BY OwnShown DEF Summary
  <2> QED BY <2>3, <2>4 DEF RowsBy, ActionableBy
<1>4. /\ shown.autoRemediated = told.autoRemediated /\ shown.escalated = told.escalated
      /\ shown.belowThreshold = told.belowThreshold
      /\ shown.informational = told.informational
  <2>1. /\ shown.autoRemediated = WithDisposition("remediated")'
        /\ shown.escalated = WithDisposition("escalated")'
        /\ shown.belowThreshold = WithDisposition("below_threshold")'
        /\ shown.informational = WithDisposition("informational")'
    BY DEF Metrics
  <2>2. /\ told.autoRemediated = Cardinality(state[r].remediated)
        /\ told.escalated = Cardinality(state[r].escalated)
        /\ told.belowThreshold = Cardinality(state[r].skipped)
        /\ told.informational = Cardinality(state[r].informational)
    BY <1>2 DEF Summary
  <2> HIDE DEF shown, told
  <2>3. /\ WithDisposition("remediated")' = Cardinality(ItemsOf(state[r].remediated))
        /\ WithDisposition("escalated")' = Cardinality(ItemsOf(state[r].escalated))
        /\ WithDisposition("below_threshold")' = Cardinality(ItemsOf(state[r].skipped))
        /\ WithDisposition("informational")' = Cardinality(state[r].informational)
    BY <1>1, <1>3, ListsFated, FatesShown
  <2> QED BY <1>1, <2>1, <2>2, <2>3, ListsCount
<1>5. /\ shown.underpaymentExposure = told.underpaymentExposure
      /\ shown.clawbackExposure = told.clawbackExposure
  <2>1. /\ shown.underpaymentExposure = Exposure(Actionable', UnderpaymentReasons)
        /\ shown.clawbackExposure = Exposure(Actionable', ClawbackReasons)
    BY ShownSums
  <2>2. /\ told.underpaymentExposure = Exposure(state[r].plan, UnderpaymentReasons)
        /\ told.clawbackExposure = Exposure(state[r].plan, ClawbackReasons)
    BY <1>2 DEF Summary
  <2>3. \A reasons : Exposure(Actionable', reasons) = Exposure(state[r].plan, reasons)
    BY <1>3, OwnExposure DEF DashInv
  <2> HIDE DEF shown, told
  <2> QED BY <2>1, <2>2, <2>3
<1>6. shown.totalClaimed = told.totalClaimed
  <2>1. shown.totalClaimed = Amounts(claims')
    BY ShownSums
  <2>2. told.totalClaimed = TotalClaimed(r)
    BY <1>2 DEF Summary
  <2>3. claims' = claims
    BY DEF Finalize
  <2> QED BY <1>1, <2>1, <2>2, <2>3, ClaimedIs
<1>7. DOMAIN shown = {"autoRemediated", "escalated", "belowThreshold", "informational",
                      "underpaymentExposure", "clawbackExposure", "totalClaimed"}
  BY DEF Metrics
<1>8. RunReconcile(r).conserved
  BY <1>1 DEF RunReconcile, Counted, Accounted
<1>9. ASSUME NEW f \in ListLeaks({})', NEW page \in LeakDetail(f.policy)',
             page.answer # "not_found"
      PROVE  page.answer = "detail" /\ Accounts(page)
  <2>1. f \in LeakItems'
    BY DEF ListLeaks
  <2> QED BY <1>1, <1>3, <1>9, <2>1, PageAccounts
<1> HIDE DEF shown, told
<1>10. \A field \in DOMAIN shown : shown[field] = told[field]
  BY <1>4, <1>5, <1>6, <1>7
<1> QED BY <1>8, <1>9, <1>10 DEF Tells, shown, told

(* What is shown when a run has finished is one committed run, with the    *)
(* exposures it recorded; if nobody overlapped the run that finished it is *)
(* that run, as it reported itself, with a page for each leak that         *)
(* accounts for it: the queries sum up rows, the run summed up lists.      *)
THEOREM DashboardAlwaysAgrees == Spec => DashboardAgrees
<1>1. ASSUME DashInv, DashInv', [Next]_vars, NEW r \in Runs, Finishes(r), ~UNCHANGED vars
      PROVE  LET told == RunReconcile(r).summary
                 shown == Metrics'
             IN  /\ \E s \in summaries' :
                       /\ \A f \in LeakItems' : f.run = s.run
                       /\ shown.underpaymentExposure = s.underpaymentExposure
                       /\ shown.clawbackExposure = s.clawbackExposure
                       /\ state[r].alone => s = told
                 /\ state[r].alone => Tells(r)
  <2>1. Finalize(r)
    <3>1. node[r] = "finalize" /\ node'[r] = "complete"
      BY <1>1 DEF Finishes
    <3>2. ASSUME NEW q \in Runs, Step(q) \/ Fail(q)
          PROVE  q = r /\ ~Fail(q)
      <4>1. \A p \in Runs \ {q} : node'[p] = node[p]
        <5>1. Shape
          BY <1>1 DEF DashInv, ShownInv, AloneInv, TypeInv, RunsInv
        <5> QED BY <3>2, <5>1, StepFrame DEF Frame
      <4>2. q = r
        BY <3>1, <4>1
      <4>3. ~Fail(r)
        BY <1>1, <3>1 DEF Fail, Goto, DashInv, ShownInv, AloneInv, TypeInv, RunsInv, Shape
      <4> QED BY <4>2, <4>3
    <3>3. Step(r)
      BY <1>1, <3>1, <3>2 DEF Next, Change, Done
    <3> QED BY <3>1, <3>3
            DEF Step, ResetActionTables, MayBegin, BeginLoad, CommitLoad, BeginReconcile,
                CommitReconcile, Detect, Decide, Remediate, Escalate, Proceed, Stamp
  <2>2. PICK s : s = LatestRun'
    OBVIOUS
  <2>3. /\ s \in summaries' /\ SummaryOK(s)'
        /\ LeakItems' = RowsBy(s.run)' /\ Actionable' = ActionableBy(s.run)'
    <3>1. summaries' # {} /\ Filled'
      BY <1>1, <2>1 DEF Finalize, DashInv
    <3>2. (Filled /\ summaries # {} => /\ LatestRun \in summaries
                                       /\ LeakItems = RowsBy(LatestRun.run)
                                       /\ Actionable = ActionableBy(LatestRun.run))'
      BY Latest, PTL
    <3>3. s \in summaries' /\ LeakItems' = RowsBy(s.run)' /\ Actionable' = ActionableBy(s.run)'
      BY <2>2, <3>1, <3>2 DEF RowsBy, ActionableBy
    <3> QED BY <3>1, <3>3 DEF Filled
  <2>4. \A f \in LeakItems' : f.run = s.run
    BY <2>3 DEF RowsBy
  <2>5. /\ Metrics'.underpaymentExposure = s.underpaymentExposure
        /\ Metrics'.clawbackExposure = s.clawbackExposure
    BY <2>3, ShownSums DEF SummaryOK
  <2>6. state[r].alone => s = RunReconcile(r).summary /\ Tells(r)
    <3>1. Filled'
      BY <1>1 DEF DashInv
    <3> QED BY <1>1, <2>1, <2>2, <3>1, OwnShown, SoleTells DEF RunReconcile
  <2> QED BY <2>3, <2>4, <2>5, <2>6
<1>2. DashInv /\ DashInv' /\ [Next]_vars =>
         [\A r \in Runs : Finishes(r) =>
             LET told == RunReconcile(r).summary
                 shown == Metrics'
             IN  /\ \E s \in summaries' :
                       /\ \A f \in LeakItems' : f.run = s.run
                       /\ shown.underpaymentExposure = s.underpaymentExposure
                       /\ shown.clawbackExposure = s.clawbackExposure
                       /\ state[r].alone => s = told
                 /\ state[r].alone =>
                       /\ \A field \in DOMAIN shown : shown[field] = told[field]
                       /\ RunReconcile(r).conserved
                       /\ \A f \in ListLeaks({})' : \A page \in LeakDetail(f.policy)' :
                             page.answer # "not_found" =>
                                 page.answer = "detail" /\ Accounts(page)]_vars
  BY <1>1 DEF Tells
<1> QED BY <1>2, DashInvariance, PTL DEF Spec, DashboardAgrees
=============================================================================
