---------------------------- MODULE ActionLedger ----------------------------
(***************************************************************************)
(* What the action layer shows to whoever reads its tables: each action of *)
(* a call of route takes effect in one step, its rows together with the    *)
(* one audit row that accounts for them, after the outside system it needs *)
(* has been called, and that system is called only by an action that was   *)
(* given the finding.  No reservation, no half-flagged policy and no row   *)
(* without its audit row is ever seen.  A call may stop between two steps  *)
(* for good: that leaves what an outside system was told without an entry, *)
(* or a refusal without its escalation, and nothing else.                  *)
(***************************************************************************)
EXTENDS ActionGate, Sequences

CONSTANTS Findings,   \* the findings route may be given
          Policies,   \* policy numbers
          Calls       \* numbers of the calls of route

VARIABLES claims,         \* commission_claims
          escalations,    \* escalations
          results,        \* reconciliation_results: policy, generation, state
          insurerCalls,   \* submit_claim calls
          billingCalls,   \* request_rebilling calls
          log             \* what the audit rows record, in sequence_no order

tables == <<claims, escalations, results>>
shown  == <<tables, insurerCalls, billingCalls, log>>

(* One claim may be active for a leak: the columns of the unique index.    *)
SameLeak(a, b) == a.policy = b.policy /\ a.reason = b.reason

(* The gate lets the finding through to this action.                       *)
GivenTo(action, f) == ~HighValue(f) /\ ValidateAction(f) = "OK" /\ RouteAction(f) = action

Entry(n, f, act) == [act |-> act, call |-> n, policy |-> f.policy,
                     reason |-> f.reason, gate |-> ValidateAction(f)]

Entries(n) == {log[i] : i \in {i \in DOMAIN log : log[i].call = n}}

Record(n, f, act) == log' = Append(log, Entry(n, f, act))

(* Call n has told no outside system anything.                             *)
Untold(n) == \A x \in insurerCalls \cup billingCalls : x.call # n

(* What call n sends to an outside system about f.                         *)
Lodged(n, f) == [call |-> n, policy |-> f.policy, reason |-> f.reason, amount |-> f.amount]
Asked(n, f)  == [call |-> n, policy |-> f.policy, reason |-> f.reason]

Refusal(f) == IF RouteAction(f) = "claim" THEN "claim:BLOCKED" ELSE "rebill:BLOCKED"

-----------------------------------------------------------------------------
(* create_commission_claim *)

(* The insurer is told, once by each call, and never about a leak that has *)
(* an active claim.                                                        *)
Lodge(n, f) ==
    /\ GivenTo("claim", f)
    /\ Untold(n) /\ Entries(n) = {}
    /\ \A c \in claims : ~SameLeak(c, f)
    /\ insurerCalls' = insurerCalls \cup {Lodged(n, f)}
    /\ UNCHANGED <<tables, billingCalls, log>>

(* The claim appears as submitted, with its entry.                         *)
CreateClaim(n, f) ==
    /\ GivenTo("claim", f)
    /\ Lodged(n, f) \in insurerCalls
    /\ Entries(n) = {}
    /\ \A c \in claims : ~SameLeak(c, f)
    /\ claims' = claims \cup {[call |-> n, policy |-> f.policy, reason |-> f.reason,
                               amount |-> f.amount, status |-> "submitted"]}
    /\ Record(n, f, "claim")
    /\ UNCHANGED <<escalations, results, insurerCalls, billingCalls>>

Corrected(f) == {IF SameLeak(c, f) THEN [c EXCEPT !.amount = f.amount] ELSE c : c \in claims}

(* The leak is claimed already: at most the amount of its claim changes.   *)
FindClaim(n, f) ==
    /\ GivenTo("claim", f)
    /\ Untold(n) /\ Entries(n) = {}
    /\ claims' \in {claims, Corrected(f)}
    /\ Record(n, f, "claim:IDEMPOTENT")
    /\ UNCHANGED <<escalations, results, insurerCalls, billingCalls>>

-----------------------------------------------------------------------------
(* flag_for_rebilling *)

AskBilling(n, f) ==
    /\ GivenTo("rebill", f)
    /\ Untold(n) /\ Entries(n) = {}
    /\ billingCalls' = billingCalls \cup {Asked(n, f)}
    /\ UNCHANGED <<tables, insurerCalls, log>>

Disputed(f) ==
    {IF r.policy = f.policy THEN [r EXCEPT !.state = "disputed"] ELSE r : r \in results}

(* Billing has been asked: every row of the policy is disputed, or those   *)
(* that are there now were not there to be flagged.                        *)
Flag(n, f) ==
    /\ GivenTo("rebill", f)
    /\ Asked(n, f) \in billingCalls
    /\ Entries(n) = {}
    /\ results' \in {results, Disputed(f)}
    /\ Record(n, f, "rebill")
    /\ UNCHANGED <<claims, escalations, insurerCalls, billingCalls>>

(* The policy is disputed already, or its rows are gone.                   *)
FindFlagged(n, f) ==
    /\ GivenTo("rebill", f)
    /\ Untold(n) /\ Entries(n) = {}
    /\ Record(n, f, "rebill:IDEMPOTENT")
    /\ UNCHANGED <<tables, insurerCalls, billingCalls>>

-----------------------------------------------------------------------------
(* The refusal, and the escalation that may follow it *)

Refuse(n, f) ==
    /\ ~HighValue(f) /\ ValidateAction(f) # "OK"
    /\ Untold(n) /\ Entries(n) = {}
    /\ Record(n, f, Refusal(f))
    /\ UNCHANGED <<tables, insurerCalls, billingCalls>>

(* Nothing but a finding of high value, or one refused for another reason  *)
(* than its size, reaches a human, and the refusal is recorded first.      *)
HandOver(n, f) ==
    /\ Untold(n)
    /\ Entries(n) = IF HighValue(f) THEN {} ELSE {Entry(n, f, Refusal(f))}
    /\ HighValue(f) \/ ValidateAction(f) \in {"NOT_CONFIRMED", "INVALID_REASON"}
    /\ escalations' = escalations \cup
           {[call |-> n, policy |-> f.policy, reason |-> f.reason,
             why |-> RouteEscalationReason(f), amount |-> f.amount]}
    /\ Record(n, f, "escalation")
    /\ UNCHANGED <<claims, results, insurerCalls, billingCalls>>

-----------------------------------------------------------------------------
(* Another run *)

(* _reset_action_tables: the tables are emptied, the log stays.            *)
ClearTables ==
    /\ claims' = {} /\ escalations' = {}
    /\ UNCHANGED <<results, insurerCalls, billingCalls, log>>

(* engine.reconcile: one new row per policy, none of them disputed.        *)
Reconcile ==
    /\ \A r \in results' : r.state \in {"", "open"}
    /\ \A r, s \in results' : r.policy = s.policy => r = s
    /\ {r.policy : r \in results'} \subseteq Policies
    /\ UNCHANGED <<claims, escalations, insurerCalls, billingCalls, log>>

Init ==
    /\ claims = {} /\ escalations = {}
    /\ \A r, s \in results : r.policy = s.policy => r = s
    /\ insurerCalls = {} /\ billingCalls = {}
    /\ log = << >>

Act(n, f) ==
    \/ Lodge(n, f) \/ CreateClaim(n, f) \/ FindClaim(n, f)
    \/ AskBilling(n, f) \/ Flag(n, f) \/ FindFlagged(n, f)
    \/ Refuse(n, f) \/ HandOver(n, f)

Next ==
    \/ Reconcile
    \/ ClearTables
    \/ \E n \in Calls : \E f \in Findings : Act(n, f)

Spec == Init /\ [][Next]_shown
=============================================================================
