------------------------------ MODULE ReadApi -------------------------------
(***************************************************************************)
(* What the API answers while runs come and go: the queries of             *)
(* api/service.py over the committed tables of Pipeline.                   *)
(*                                                                         *)
(* The findings of a run are committed together with the run and never     *)
(* change, so that asking for the latest run and then for its findings is  *)
(* one look here; claims and verdicts are those of the moment.             *)
(***************************************************************************)
EXTENDS Pipeline

CONSTANT NoFinding   \* stands for None

(* Mutation of LatestRun: the run that was finished first. *)
FirstRun ==
    CHOOSE s \in summaries : \A t \in summaries : s.finishedAt <= t.finishedAt

(* _latest_run_id: the run stamped last among those that are committed,    *)
(* all of which are complete.                                              *)
LatestRun ==
    CHOOSE s \in summaries : \A t \in summaries : t.finishedAt <= s.finishedAt
LatestRunId == LatestRun.run

(* _leak_items: nothing before the first run. *)
LeakItems ==
    IF summaries = {} THEN {} ELSE {f \in persisted : f.run = LatestRunId}

(* list_leaks, filtered by reason; reasons = {} filters nothing. *)
ListLeaks(reasons) == {f \in LeakItems : reasons = {} \/ f.reason \in reasons}

VerdictsOf(policy) == {v \in results : v.policy = policy}

FindingsOf(policy) == {f \in LeakItems : f.policy = policy}

(* leak_detail, the answers it may give: not found unless the policy is on *)
(* the register; an error, from scalar_one_or_none, when it has several    *)
(* verdicts; otherwise its verdict, the first of its findings that the     *)
(* database returns, and the actions on the policy.                        *)
LeakDetail(policy) ==
    IF policy \notin DOMAIN situation.book THEN {[answer |-> "not_found"]}
    ELSE IF Cardinality(VerdictsOf(policy)) > 1 THEN {[answer |-> "error"]}
    ELSE {[answer |-> "detail", recon |-> VerdictsOf(policy), finding |-> finding,
           claims |-> {c \in claims : c.policy = policy},
           escalations |-> {e \in escalations : e.policy = policy}] :
             finding \in IF FindingsOf(policy) = {} THEN {NoFinding} ELSE FindingsOf(policy)}

WithDisposition(disposition) ==
    Cardinality({f \in LeakItems : f.disposition = disposition})

Actionable == {f \in LeakItems : f.disposition # "informational"}

(* metrics *)
Metrics ==
    [autoRemediated |-> WithDisposition("remediated"),
     escalated |-> WithDisposition("escalated"),
     belowThreshold |-> WithDisposition("below_threshold"),
     informational |-> WithDisposition("informational"),
     underpaymentExposure |-> Exposure(Actionable, UnderpaymentReasons),
     clawbackExposure |-> Exposure(Actionable, ClawbackReasons),
     totalClaimed |-> MapThenSumSet(LAMBDA c : c.amount, claims)]

(* run_reconcile: the summary of the run, with its conservation check. *)
RunReconcile(r) ==
    [summary |-> Summary(r),
     conserved |-> Cardinality(state[r].remediated) + Cardinality(state[r].escalated)
                      + Cardinality(state[r].skipped) = Cardinality(state[r].plan)]

-----------------------------------------------------------------------------
(* Properties *)

Finishes(r) == node[r] = "finalize" /\ node'[r] = "complete"

(* A page accounts for the finding it shows: one said to be escalated has  *)
(* its case, one said to be remediated its claim for the amount or, if it  *)
(* was re-billed, a disputed verdict.                                      *)
Accounts(page) ==
    LET f == page.finding
    IN  /\ f.disposition = "escalated" => \E e \in page.escalations : e.reason = f.reason
        /\ f.disposition = "remediated" =>
              IF RouteAction(f) = "claim"
              THEN \E c \in page.claims : c.reason = f.reason /\ c.amount = f.amount
              ELSE \E v \in page.recon : v.state = "disputed"

(* What is shown when a run finishes, whatever overlapped it, is one       *)
(* committed run, the exposures derived from its findings being those its  *)
(* summary recorded.  A run that had the database to itself is the one     *)
(* shown; metrics() derived from findings and claims is then what          *)
(* run_reconcile returned from the lists of the run, and every registered  *)
(* policy of the leak list has a page; the verdict, the claims and the     *)
(* cases on it account for the finding it shows, whichever that is.        *)
DashboardAgrees ==
    [][\A r \in Runs : Finishes(r) =>
          LET told  == RunReconcile(r).summary
              shown == Metrics'
          IN  /\ \E s \in summaries' :
                    /\ \A f \in LeakItems' : f.run = s.run
                    /\ shown.underpaymentExposure = s.underpaymentExposure
                    /\ shown.clawbackExposure = s.clawbackExposure
                    /\ state[r].alone => s = told
              /\ state[r].alone =>
                    /\ \A field \in DOMAIN shown : shown[field] = told[field]
                    /\ RunReconcile(r).conserved
                    /\ \A f \in ListLeaks({})' : \A page \in LeakDetail(f.policy)' :
                          page.answer # "not_found" =>
                              page.answer = "detail" /\ Accounts(page)]_vars
=============================================================================
