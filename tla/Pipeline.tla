------------------------------ MODULE Pipeline ------------------------------
(***************************************************************************)
(* Runs of the reconciliation graph of graph/workflow.py: intake,          *)
(* reconcile, detect, decide, remediate, escalate and finalize, one node   *)
(* after another within a run, several runs over one database.             *)
(*                                                                         *)
(* Table variables hold committed rows.  A node that rewrites a table is   *)
(* two actions: at READ COMMITTED its DELETE removes the rows committed    *)
(* when it began, and what it inserts appears when it commits.  A route    *)
(* call is one action here: Actions models its statements.                 *)
(***************************************************************************)
EXTENDS Reconciliation

CONSTANTS Runs,         \* pipeline runs, each with a run id of its own
          Situations,   \* the books and feed files a run may find
          Changes,      \* whether books and files may change between runs
          Concurrent,   \* whether a run may begin while another is active
          MayFail       \* whether a node may raise, or its process die

ASSUME RunsAssumption ==
    /\ Changes \in BOOLEAN /\ Concurrent \in BOOLEAN /\ MayFail \in BOOLEAN

(* A policy of the register: its commission is a share of its premium.     *)
BookEntry == [expected : Nat, crm : Int \cup {NoAmount}, renewalOwed : BOOLEAN]

(* A file has lines n = 1, 2, ...; a cell is a number or blank.  No policy *)
(* number is blank, or reads like a reference that does not parse.         *)
ASSUME SituationsAssumption ==
    \A s \in Situations :
        /\ IsFiniteSet(DOMAIN s.book)
        /\ \A p \in DOMAIN s.book :
              /\ s.book[p] \in BookEntry
              /\ p # NoPolicy /\ \A l \in s.lines : p # <<l.form, l.policy>>
        /\ IsFiniteSet(s.lines)
        /\ \A l \in s.lines : /\ l.insurer \in Insurers
                              /\ l.premium \in Int \cup {NoAmount}
                              /\ l.commission \in Int \cup {NoAmount}
        /\ \A k, l \in s.lines : k.insurer = l.insurer /\ k.n = l.n => k = l

VARIABLES
    situation,      \* policies, CRM, sales and feed lines; no run writes them
    feed,           \* insurer_commission_feeds
    results,        \* reconciliation_results
    claims,         \* commission_claims
    escalations,    \* escalations
    insurerCalls,   \* submit_claim calls
    billingCalls,   \* request_rebilling calls
    persisted,      \* findings
    summaries,      \* reconciliation_runs
    clock,          \* the time, which moves on when a run looks at it
    node,           \* where each run is
    rewrite,        \* what the open transaction of a run deletes and inserts
    finishedAt,     \* when the run was stamped as finished, 0 before
    state           \* the ReconciliationState of each run

tables == <<feed, results, claims, escalations, persisted, summaries>>
external == <<insurerCalls, billingCalls>>
times == <<clock, finishedAt>>
vars == <<situation, tables, external, times, node, rewrite, state>>

Active(r) == node[r] \notin {"new", "complete", "failed"}

NoRewrite == [delete |-> {}, insert |-> {}]

(* No action reads seen, the situation the run began with, and alone, that *)
(* no other run has overlapped it.                                         *)
EmptyState == [findings |-> {}, informational |-> {}, plan |-> {},
               remediated |-> {}, skipped |-> {}, escalated |-> {},
               seen |-> situation, alone |-> TRUE]

Goto(r, n) == node' = [node EXCEPT ![r] = n]

(* The feed rows a load inserts: the lines it finds, the overlay of uploads *)
(* done, each normalized.                                                   *)
Loaded(r, lines) ==
    {[by |-> r, insurer |-> view.insurer, n |-> view.n, policy |-> view.policy,
      premium |-> view.premium, amount |-> view.amount] :
        view \in NormalizeFeed(lines)}

SameVerdict(v, u) == v.by = u.by /\ v.policy = u.policy

-----------------------------------------------------------------------------
(* intake and reconcile *)

(* A run begins: alone, unless runs overlap. *)
Others(r) == {q \in Runs \ {r} : Active(q)}
MayBegin(r) == node[r] = "new" /\ (Concurrent \/ Others(r) = {})

(* The run finds the situation, and the others that are active find it. *)
Starts(r) ==
    /\ state' = [q \in Runs |->
                    IF q = r THEN [state[q] EXCEPT !.seen = situation,
                                                   !.alone = Others(r) = {}]
                    ELSE [state[q] EXCEPT !.alone = @ /\ q \notin Others(r)]]
    /\ Goto(r, "intake")

(* intake begins with _reset_action_tables, in a transaction of its own. *)
ResetActionTables(r) ==
    /\ MayBegin(r)
    /\ claims' = {}
    /\ escalations' = {}
    /\ Starts(r)
    /\ UNCHANGED <<situation, feed, results, persisted, summaries, external, times, rewrite>>

(* Mutation of BeginLoad: the feed is not truncated. *)
BeginLoadWithoutTruncation(r) ==
    /\ node[r] = "intake"
    /\ rewrite' = [rewrite EXCEPT ![r] = [delete |-> {}, insert |-> Loaded(r, situation.lines)]]
    /\ Goto(r, "load")
    /\ UNCHANGED <<situation, tables, external, times, state>>

(* loader.run: the feed is truncated and reloaded. *)
BeginLoad(r) ==
    /\ node[r] = "intake"
    /\ rewrite' = [rewrite EXCEPT ![r] = [delete |-> feed, insert |-> Loaded(r, situation.lines)]]
    /\ Goto(r, "load")
    /\ UNCHANGED <<situation, tables, external, times, state>>

CommitLoad(r) ==
    /\ node[r] = "load"
    /\ feed' = (feed \ rewrite[r].delete) \cup rewrite[r].insert
    /\ rewrite' = [rewrite EXCEPT ![r] = NoRewrite]
    /\ Goto(r, "reconcile")
    /\ UNCHANGED <<situation, results, claims, escalations, persisted, summaries,
                   external, times, state>>

(* engine.reconcile: the feed is aggregated, then the results replaced. *)
BeginReconcile(r) ==
    /\ node[r] = "reconcile"
    /\ rewrite' = [rewrite EXCEPT ![r] =
                      [delete |-> results,
                       insert |-> Reconcile(r, situation.book, feed)]]
    /\ Goto(r, "verdicts")
    /\ UNCHANGED <<situation, tables, external, times, state>>

CommitReconcile(r) ==
    /\ node[r] = "verdicts"
    /\ results' = {v \in results : \A d \in rewrite[r].delete : ~SameVerdict(v, d)}
                     \cup rewrite[r].insert
    /\ rewrite' = [rewrite EXCEPT ![r] = NoRewrite]
    /\ Goto(r, "detect")
    /\ UNCHANGED <<situation, feed, claims, escalations, persisted, summaries, external,
                   times, state>>

-----------------------------------------------------------------------------
(* detect and decide *)

(* The rules, then the anomaly net over what they do not cover. *)
Detect(r) ==
    LET found == RunRules(situation.book, results)
        odd   == Novel(feed, found) \cap situation.outliers
    IN  /\ node[r] = "detect"
        /\ state' = [state EXCEPT ![r].findings = found \cup Anomalies(odd)]
        /\ Goto(r, "decide")
        /\ UNCHANGED <<situation, tables, external, times, rewrite>>

(* Each finding is mapped against the verdict of its policy, any of them   *)
(* when there are several, and tagged.  Without actionable findings the    *)
(* action nodes are skipped.                                               *)
Decide(r) ==
    LET judged == {v.policy : v \in results}
    IN  /\ node[r] = "decide"
        /\ \E verdict \in {f \in [judged -> results] : \A p \in judged : f[p].policy = p} :
             LET items == {IF f.policy \in judged THEN Verified(f, verdict[f.policy])
                                                  ELSE Unverified(f) :
                              f \in state[r].findings}
                 plan  == {i \in items : ~Informational(i)}
             IN  /\ state' = [state EXCEPT ![r].plan = plan,
                                           ![r].informational = items \ plan]
                 /\ Goto(r, IF plan = {} THEN "finalize" ELSE "remediate")
        /\ UNCHANGED <<situation, tables, external, times, rewrite>>

-----------------------------------------------------------------------------
(* remediate and escalate: one route call after another *)

Handled(r) == {o.item : o \in state[r].remediated \cup state[r].skipped
                                                 \cup state[r].escalated}

Pending(r, target) ==
    {i \in state[r].plan \ Handled(r) : Target(i) = target}

(* Items are routed in the order their detectors ran. *)
NextItems(r, target) ==
    {i \in Pending(r, target) :
        \A j \in Pending(r, target) : DetectorOrder[i.reason] <= DetectorOrder[j.reason]}

SameLeak(c, i) == c.policy = i.policy /\ c.reason = i.reason

Disputed(policy) ==
    LET rows == {v \in results : v.policy = policy}
    IN  rows # {} /\ \A v \in rows : v.state = "disputed"

(* The node's bookkeeping of a route call. *)
Outcome(r, list, item, action) ==
    state' = [state EXCEPT ![r][list] = @ \cup {[item |-> item, action |-> action]}]

(* What is sent outside about an item. *)
Lodged(r, item) == [run |-> r, policy |-> item.policy, reason |-> item.reason,
                    amount |-> item.amount]
Asked(r, item)  == [run |-> r, policy |-> item.policy, reason |-> item.reason]

(* create_escalation *)
RouteToHuman(r, item) ==
    escalations' = escalations \cup
        {[run |-> r, policy |-> item.policy, reason |-> item.reason, from |-> item.from,
          why |-> RouteEscalationReason(item)]}

(* create_commission_claim: a new claim, or a correction of the active one. *)
RouteToClaim(r, item) ==
    \/ /\ \A c \in claims : ~SameLeak(c, item)
       /\ claims' = claims \cup {Lodged(r, item)}
       /\ insurerCalls' = insurerCalls \cup {Lodged(r, item)}
    \/ /\ \E c \in claims : SameLeak(c, item)
       /\ claims' = {IF SameLeak(c, item) THEN [c EXCEPT !.amount = item.amount] ELSE c :
                        c \in claims}
       /\ UNCHANGED insurerCalls

(* Mutation of RouteToRebilling: the verdicts are flipped, billing is not   *)
(* asked.                                                                  *)
FlipWithoutBilling(r, item) ==
    /\ results' = {IF v.policy = item.policy THEN [v EXCEPT !.state = "disputed"] ELSE v :
                      v \in results}
    /\ UNCHANGED billingCalls

(* flag_for_rebilling: the verdicts of the policy become disputed. *)
RouteToRebilling(r, item) ==
    \/ /\ ~Disputed(item.policy)
       /\ results' = {IF v.policy = item.policy THEN [v EXCEPT !.state = "disputed"]
                                               ELSE v : v \in results}
       /\ billingCalls' = billingCalls \cup {Asked(r, item)}
    \/ /\ Disputed(item.policy)
       /\ UNCHANGED <<results, billingCalls>>

(* What route answers.  It decides again what decide has planned, by its    *)
(* own conditions: a finding of high value goes to a human, as does one the *)
(* gate refuses for more than its size.                                    *)
RouteAnswer(item) ==
    LET code == ValidateAction(item)
    IN  IF HighValue(item) THEN "escalation"
        ELSE IF code = "OK" THEN RouteAction(item)
        ELSE IF BlockEndsRoute(code) THEN "blocked" ELSE "escalation"

(* route *)
Route(r, item) ==
    \/ /\ RouteAnswer(item) = "escalation" /\ RouteToHuman(r, item)
       /\ UNCHANGED <<results, claims, external>>
    \/ /\ RouteAnswer(item) = "claim" /\ RouteToClaim(r, item)
       /\ UNCHANGED <<results, escalations, billingCalls>>
    \/ /\ RouteAnswer(item) = "rebill" /\ RouteToRebilling(r, item)
       /\ UNCHANGED <<claims, escalations, insurerCalls>>
    \/ /\ RouteAnswer(item) = "blocked"
       /\ UNCHANGED <<results, claims, escalations, external>>

(* The remediate node lists what route answers, refusals apart. *)
Remediate(r) ==
    /\ node[r] = "remediate"
    /\ \E item \in NextItems(r, "remediate") :
          LET answer == RouteAnswer(item)
          IN  /\ Route(r, item)
              /\ Outcome(r, IF answer = "blocked" THEN "skipped" ELSE "remediated",
                         item, answer)
    /\ UNCHANGED <<situation, feed, persisted, summaries, times, node, rewrite>>

(* The escalate node lists everything as escalated, under the action that   *)
(* route took; one that made no claim is called a re-billing.              *)
Escalate(r) ==
    /\ node[r] = "escalate"
    /\ \E item \in NextItems(r, "escalate") :
          LET answer == RouteAnswer(item)
          IN  /\ Route(r, item)
              /\ Outcome(r, "escalated", item, IF answer = "blocked" THEN "rebill" ELSE answer)
    /\ UNCHANGED <<situation, feed, persisted, summaries, times, node, rewrite>>

(* Mutation of Proceed: remediate hands over to finalize. *)
ProceedToFinalize(r) ==
    /\ node[r] = "remediate" /\ Pending(r, "remediate") = {} /\ Goto(r, "finalize")
    /\ UNCHANGED <<situation, tables, external, times, rewrite, state>>

(* A node that has routed its last item hands over to the next. *)
Proceed(r) ==
    /\ \/ node[r] = "remediate" /\ Pending(r, "remediate") = {} /\ Goto(r, "escalate")
       \/ node[r] = "escalate" /\ Pending(r, "escalate") = {} /\ Goto(r, "finalize")
    /\ UNCHANGED <<situation, tables, external, times, rewrite, state>>

-----------------------------------------------------------------------------
(* finalize *)

SameKey(o, f) == o.item.policy = f.policy /\ o.item.reason = f.reason

(* Mutation of Disposition: the skipped items are not looked at. *)
DispositionWithoutSkipped(r, f) ==
    IF \E o \in state[r].escalated : SameKey(o, f) THEN "escalated"
    ELSE IF \E o \in state[r].remediated : SameKey(o, f) THEN "remediated"
    ELSE "informational"

(* disposition_by_key: the list entered last decides. *)
Disposition(r, f) ==
    IF \E o \in state[r].escalated : SameKey(o, f) THEN "escalated"
    ELSE IF \E o \in state[r].skipped : SameKey(o, f) THEN "below_threshold"
    ELSE IF \E o \in state[r].remediated : SameKey(o, f) THEN
            IF \E o \in state[r].remediated : SameKey(o, f) /\ o.action = "escalation"
            THEN "escalated" ELSE "remediated"
    ELSE "informational"

(* The rows _persist_run writes to findings. *)
PersistedFindings(r) ==
    {[run |-> r, policy |-> i.policy, reason |-> i.reason, from |-> i.from,
      amount |-> i.amount, disposition |-> Disposition(r, i)] :
        i \in state[r].plan \cup state[r].informational}

TotalClaimed(r) ==
    MapThenSumSet(LAMBDA o : o.item.amount,
                  {o \in state[r].remediated : o.action = "claim"})

Summary(r) ==
    [run |-> r, finishedAt |-> finishedAt[r],
     autoRemediated |-> Cardinality(state[r].remediated),
     escalated |-> Cardinality(state[r].escalated),
     belowThreshold |-> Cardinality(state[r].skipped),
     informational |-> Cardinality(state[r].informational),
     underpaymentExposure |-> Exposure(state[r].plan, UnderpaymentReasons),
     clawbackExposure |-> Exposure(state[r].plan, ClawbackReasons),
     totalClaimed |-> TotalClaimed(r)]

(* _persist_run stamps the run while it fills its transaction.  Two runs    *)
(* are not stamped in the same microsecond.                                *)
Stamp(r) ==
    /\ node[r] = "finalize" /\ finishedAt[r] = 0
    /\ clock' = clock + 1
    /\ finishedAt' = [finishedAt EXCEPT ![r] = clock + 1]
    /\ UNCHANGED <<situation, tables, external, node, rewrite, state>>

(* It commits: findings and run appear at once. *)
Finalize(r) ==
    /\ node[r] = "finalize" /\ finishedAt[r] # 0
    /\ persisted' = persisted \cup PersistedFindings(r)
    /\ summaries' = summaries \cup {Summary(r)}
    /\ Goto(r, "complete")
    /\ UNCHANGED <<situation, feed, results, claims, escalations, external, times, rewrite,
                   state>>

-----------------------------------------------------------------------------
(* A node raises, or the process of the run dies: what was committed stays. *)
(* The insurer, or billing, may have been called already about the item    *)
(* that was being routed.                                                  *)
Fail(r) ==
    /\ MayFail
    /\ Active(r)
    /\ Goto(r, "failed")
    /\ rewrite' = [rewrite EXCEPT ![r] = NoRewrite]
    /\ \/ UNCHANGED external
       \/ /\ node[r] \in {"remediate", "escalate"}
          /\ \E item \in NextItems(r, node[r]) :
                \/ /\ RouteAnswer(item) = "claim" /\ \A c \in claims : ~SameLeak(c, item)
                   /\ insurerCalls' = insurerCalls \cup {Lodged(r, item)}
                   /\ UNCHANGED billingCalls
                \/ /\ RouteAnswer(item) = "rebill" /\ ~Disputed(item.policy)
                   /\ billingCalls' = billingCalls \cup {Asked(r, item)}
                   /\ UNCHANGED insurerCalls
    /\ UNCHANGED <<situation, tables, times, state>>

(* New policies, corrected books or new feed files, between runs. *)
Change ==
    /\ Changes
    /\ \A r \in Runs : ~Active(r)
    /\ \E r \in Runs : node[r] = "new"
    /\ situation' \in Situations
    /\ UNCHANGED <<tables, external, times, node, rewrite, state>>

(* Every run has ended. *)
Done == (\A r \in Runs : node[r] \in {"complete", "failed"}) /\ UNCHANGED vars

Init ==
    /\ situation \in Situations
    /\ feed = {} /\ results = {} /\ claims = {} /\ escalations = {}
    /\ insurerCalls = {} /\ billingCalls = {}
    /\ persisted = {} /\ summaries = {}
    /\ clock = 0 /\ finishedAt = [r \in Runs |-> 0]
    /\ node = [r \in Runs |-> "new"]
    /\ rewrite = [r \in Runs |-> NoRewrite]
    /\ state = [r \in Runs |-> EmptyState]

Step(r) ==
    \/ ResetActionTables(r) \/ BeginLoad(r) \/ CommitLoad(r)
    \/ BeginReconcile(r) \/ CommitReconcile(r)
    \/ Detect(r) \/ Decide(r)
    \/ Remediate(r) \/ Escalate(r) \/ Proceed(r)
    \/ Stamp(r) \/ Finalize(r)

Next ==
    \/ \E r \in Runs : Step(r)
    \/ \E r \in Runs : Fail(r)
    \/ Change
    \/ Done

Spec == Init /\ [][Next]_vars

-----------------------------------------------------------------------------
(* Properties *)

Nodes == {"new", "intake", "load", "reconcile", "verdicts", "detect", "decide",
          "remediate", "escalate", "finalize", "complete", "failed"}

(* Each table holds the rows its schema allows, each item its place. *)
TypeOK ==
    /\ \A row \in feed : row.by \in Runs /\ row.amount \in Int \cup {NoAmount}
    /\ \A v \in results :
          /\ v.by \in Runs /\ v.status \in ReconciliationClass
          /\ v.state \in ResolutionState /\ {v.expected, v.actual, v.delta} \subseteq Int
    /\ \A c \in claims : c.run \in Runs /\ c.reason \in Claimable /\ c.amount \in Nat
    /\ \A e \in escalations : e.run \in Runs /\ e.why \in EscalationReason
    /\ node \in [Runs -> Nodes]
    /\ \A r \in Runs :
          /\ \A i \in state[r].plan : i.amount \in Nat /\ i.status \in ResolutionState
          /\ \A o \in state[r].remediated : o.action \in {"claim", "rebill"}
          /\ Handled(r) \subseteq state[r].plan

(* What insurers state to have paid on a policy, and the commission still  *)
(* owed, from the statements alone and without rounding: in hundredths.    *)
LinesOn(policy) ==
    {l \in situation.lines : l.policy = policy /\ l.form = RefForm[l.insurer]}
Payments(policy) == Cardinality(LinesOn(policy))
Stated(l) ==
    IF NoAmount \in {l.commission} \cup
           (IF CommissionMode[l.insurer] = "rate_pct" THEN {l.premium} ELSE {})
    THEN 0
    ELSE IF CommissionMode[l.insurer] = "rate_pct" THEN l.premium * l.commission
    ELSE l.commission
Paid(policy) == MapThenSumSet(Stated, LinesOn(policy))
Owed(policy) == 100 * situation.book[policy].expected - Paid(policy)

(* An amount is what is owed, each payment taken to the nearest unit. *)
IsOwed(amount, policy) == Abs(100 * amount - Owed(policy)) <= 50 * Payments(policy)

ThroughActions(r) == node[r] = "finalize"

(* A run's own lists. *)
Escalated(r) == {o.item : o \in state[r].escalated}

(* Nothing a run plans falls through: every plan item ends in exactly one  *)
(* of remediated, escalated and skipped (the conservation check run.py and *)
(* the service print), even if other runs interleave.                      *)
Conservation ==
    \A r \in Runs : ThroughActions(r) =>
        Cardinality(state[r].plan) = Cardinality(state[r].remediated)
            + Cardinality(state[r].escalated) + Cardinality(state[r].skipped)

(* No underpayment is lost between a statement, whatever its format, and   *)
(* the action layer: a policy nobody paid, or one single payment short by  *)
(* more than the tolerance and half a unit, is claimed from the insurer    *)
(* for what is owed, or with a human, or too small to claim.               *)
UnderpaymentPursued ==
    \A r \in Runs : ThroughActions(r) =>
        \A p \in DOMAIN situation.book :
            Payments(p) = 0 \/ (Payments(p) = 1 /\ Owed(p) > 100 * Tolerance + 50) =>
                \/ \E x \in insurerCalls :
                      x.run = r /\ x.policy = p /\ IsOwed(x.amount, p)
                \/ \E i \in Escalated(r) : i.policy = p /\ IsOwed(i.amount, p)
                \/ Owed(p) < 100 * MinClaim + 50

(* Nobody is claimed from for more than is owed: the amount of every       *)
(* active claim is what the statements leave open, to the nearest unit.    *)
ClaimsAreOwed ==
    \A r \in Runs : Active(r) =>
        \A c \in claims :
            c.policy \in DOMAIN situation.book /\ IsOwed(c.amount, c.policy)

AboutCommission == {"MISSING_COMMISSION", "UNDERPAID_BELOW_RATE", "DUPLICATE_PAYMENT"}

(* A broker who was paid in full leaves the insurer alone: no payment      *)
(* within the tolerance, stated in whatever format, gives rise to a claim, *)
(* a re-billing or a case about its commission.                            *)
PaidIsLeftAlone ==
    \A r \in Runs : Active(r) =>
        \A p \in DOMAIN situation.book :
            Payments(p) = 1 /\ Abs(Owed(p)) <= 100 * Tolerance =>
                \A i \in state[r].plan : i.policy = p => i.reason \notin AboutCommission

(* What the state says was done was done: a claim is in the table and the  *)
(* insurer knows its amount, a re-billing was asked for, a handover is in  *)
(* the queue.  What decide tagged for a human is what route, deciding      *)
(* again, has handed to one, and nothing else is.                          *)
OutcomesHappened ==
    \A r \in Runs : Active(r) =>
        /\ \A o \in state[r].remediated :
              IF o.action = "claim"
              THEN \E c \in claims : \E x \in insurerCalls :
                       /\ SameLeak(c, o.item) /\ SameLeak(x, o.item)
                       /\ c.amount = o.item.amount /\ x.amount = o.item.amount
              ELSE o.action = "rebill" /\ \E b \in billingCalls : b.policy = o.item.policy
        /\ \A o \in state[r].escalated :
              o.action = "escalation" /\ \E e \in escalations : SameLeak(e, o.item)

(* A persisted finding is called informational only when it is one: what a *)
(* run planned is shown with what became of it, even if runs interleave.   *)
DispositionsHonest ==
    \A f \in persisted : f.disposition = "informational" <=> Informational(f)

(* What a run should persist, from what it found alone: each verdict and   *)
(* each renewal owed, valued and sent where the gate sends it.  None of    *)
(* the tables is looked at.                                                *)
Fate(item) ==
    IF Target(item) = "informational" THEN "informational"
    ELSE IF Target(item) = "escalate" THEN "escalated"
    ELSE IF ValidateAction(item) = "TOO_SMALL" THEN "below_threshold"
    ELSE "remediated"

Shown(policy, reason, amount, disposition) ==
    [policy |-> policy, reason |-> reason, amount |-> amount, disposition |-> disposition]

Judged(r, found) == Reconcile(r, found.book, Loaded(r, found.lines))

Noticed(r, found) ==
    LET rules == RunRules(found.book, Judged(r, found))
    IN  rules \cup Anomalies(Novel(Loaded(r, found.lines), rules) \cap found.outliers)

Mapped(f, verdicts) ==
    IF \E v \in verdicts : v.policy = f.policy
    THEN Verified(f, CHOOSE v \in verdicts : v.policy = f.policy)
    ELSE Unverified(f)

Items(r, found) ==
    LET verdicts == Judged(r, found)
    IN  {Mapped(f, verdicts) : f \in Noticed(r, found)}

Called(r, found) ==
    {Shown(i.policy, i.reason, i.amount, Fate(i)) : i \in Items(r, found)}

(* A run's outcome is a function of the books and files it began with: a   *)
(* complete run that nobody overlapped persists the findings they call     *)
(* for, each once, whatever other runs over whatever other books have left *)
(* behind, complete or failed half way.                                    *)
Reproducible ==
    \A r \in Runs : node[r] = "complete" /\ state[r].alone =>
        LET mine == {f \in persisted : f.run = r}
        IN  /\ {Shown(f.policy, f.reason, f.amount, f.disposition) : f \in mine}
                   = Called(r, state[r].seen)
            /\ Cardinality(mine) = Cardinality(Called(r, state[r].seen))

(* How much too much a policy was paid, in hundredths, with the rounding.  *)
Overpaid(policy) ==
    IF policy \in DOMAIN situation.book
    THEN IF Owed(policy) < 0 THEN 50 * Payments(policy) - Owed(policy) ELSE 0
    ELSE 0

(* What is reported as owed back was paid too much: the clawback exposure  *)
(* of a run is no more than the overpayments, rounded.                     *)
ClawbackIsOverpaid ==
    \A r \in Runs : node[r] = "finalize" =>
        100 * Summary(r).clawbackExposure
            <= MapThenSumSet(Overpaid, DOMAIN situation.book)

(* Nothing the engine flags falls through the actions: the policy of every *)
(* open or disputed verdict has a plan item that was dealt with.  A CRM    *)
(* mismatch is the exception: no detector reports it.                      *)
NothingFallsThrough ==
    \A r \in Runs : ThroughActions(r) =>
        \A v \in results : v.state # "" /\ v.status # "CRM_MISMATCH" =>
            \E i \in Handled(r) : i.policy = v.policy

(* A payment names a policy if its reference parses, for whatever it is.   *)
Attributed ==
    {l \in situation.lines : ParsePolicyNo(l.insurer, l.form, l.policy) # NoPolicy}

(* No payment is lost between the statements and the verdicts, and none    *)
(* counts twice: what the verdicts of a run that nobody overlapped say was *)
(* paid adds up to what the lines state that name a policy, registered or  *)
(* not, but for half a unit of rounding for each line.                     *)
PaymentsJudged ==
    \A r \in Runs :
        state[r].alone /\ node[r] \in {"detect", "decide", "remediate", "escalate", "finalize"} =>
            Abs(100 * MapThenSumSet(LAMBDA v : v.actual, results)
                    - MapThenSumSet(Stated, Attributed)) <= 50 * Cardinality(Attributed)

(* A renewal owed reaches a human unless the commission verdict of its     *)
(* policy is itself open: nothing is re-billed or dropped on a policy that *)
(* the engine calls matched.                                               *)
RenewalsReachHuman ==
    \A r \in Runs : ThroughActions(r) =>
        \A p \in DOMAIN situation.book :
            /\ situation.book[p].renewalOwed
            /\ \A v \in results : v.policy = p => v.status = "MATCHED"
            => /\ \E i \in Escalated(r) :
                     i.policy = p /\ i.reason = "RENEWAL_1PLUS1_NOT_PROVISIONED"
               /\ \A b \in billingCalls : b.run = r => b.policy # p
=============================================================================
