------------------------------ MODULE Actions -------------------------------
(***************************************************************************)
(* The action layer: route() of actions/escalation.py and the actions of   *)
(* actions/remediation.py, run by several workers against one PostgreSQL   *)
(* database at READ COMMITTED.                                             *)
(*                                                                         *)
(* A worker is one sequential caller of route (a pipeline run, a retry).   *)
(* Every action owns its transaction.  A table variable holds committed    *)
(* rows; staged[w] holds the rows worker w has written in its open         *)
(* transaction, which Commit publishes and Abort or Crash drops; read[w]   *)
(* holds what w has selected so far.  Every statement that another         *)
(* transaction can come between is an action of its own.  A statement that *)
(* the database makes wait (a row lock, a unique index entry written by an *)
(* open transaction) is disabled until the other transaction ends.         *)
(*                                                                         *)
(* Rows are identified by the number of the route call that wrote them.    *)
(***************************************************************************)
EXTENDS ActionGate, FiniteSets, Sequences

CONSTANTS Workers,         \* sequential callers of route
          Policies,        \* policy numbers
          Findings,        \* the findings a worker may be given
          MaxCalls,        \* bound: calls of route in a behaviour
          MaxResets,       \* bound: runs that clear the action tables
          MaxReconciles,   \* bound: runs that rewrite reconciliation_results
          MayCrash         \* whether a worker's process may die mid-call

Finding == [policy : Policies, reason : DetectionReason,
            amount : Nat, status : ResolutionState]

ASSUME FindingsAssumption == Findings # {} /\ Findings \subseteq Finding

ASSUME BoundsAssumption ==
    /\ MaxCalls \in Nat
    /\ MaxResets \in Nat
    /\ MaxReconciles \in Nat
    /\ MayCrash \in BOOLEAN

VARIABLES
    (* committed rows *)
    claims,          \* commission_claims
    escalations,     \* escalations
    audit,           \* audit_log
    results,         \* reconciliation_results: policy, generation, state
    (* what the outside systems have received *)
    insurerCalls,    \* submit_claim calls
    billingCalls,    \* request_rebilling calls
    (* the workers *)
    pc,              \* next statement
    finding,         \* argument of the call
    call,            \* number of the call
    event,           \* action column of the audit row to be written
    read,            \* rows selected in the open transaction
    staged,          \* rows written in the open transaction
    outcome,         \* how the last call ended
    (* counters behind the bounds *)
    begun,           \* calls of route so far
    resets,          \* resets so far
    generation       \* rewrites of reconciliation_results so far

tables   == <<claims, escalations, audit, results>>
external == <<insurerCalls, billingCalls>>
counters == <<begun, resets, generation>>
vars == <<tables, external, pc, finding, call, event, read, staged, outcome,
          counters>>

-----------------------------------------------------------------------------
(* Rows *)

Labels ==
    {"claim", "claim:BLOCKED", "claim:IDEMPOTENT",
     "rebill", "rebill:BLOCKED", "rebill:IDEMPOTENT", "escalation"}

Claim == [call : Nat, policy : Policies, reason : DetectionReason,
          amount : Nat, status : {"pending", "submitted"}]
EscalationRow == [call : Nat, policy : Policies, reason : DetectionReason,
                  why : EscalationReason, amount : Nat]
ResultRow == [policy : Policies, gen : Nat, state : ResolutionState]
Event == [act : Labels, call : Nat, policy : Policies, reason : DetectionReason,
          gate : GateCode]

(* prev_hash of the first row, and the chained hash without collisions:    *)
(* the hash of a row is the sequence of all that was recorded up to it.    *)
Genesis == << >>
ChainHash(prev, payload) == Append(prev, payload)

AuditRow == [seq : Nat \ {0}, event : Event, prev : Seq(Event), hash : Seq(Event)]

NoRows == [claims |-> {}, escalations |-> {}, audit |-> {}, results |-> {}]
NoRead == [claims |-> {}, audit |-> {}, results |-> {}]

(* Mutation of SameClaim: the index also covers the amount. *)
SameClaimAndAmount(a, b) ==
    a.policy = b.policy /\ a.reason = b.reason /\ a.amount = b.amount

(* The columns of the partial unique index.  No code closes a claim, so    *)
(* every claim row is an active one.                                       *)
SameClaim(a, b) == a.policy = b.policy /\ a.reason = b.reason

SameResult(a, b) == a.policy = b.policy /\ a.gen = b.gen

SameCall(a, b) == a.call = b.call

Others(w) == Workers \ {w}

-----------------------------------------------------------------------------
(* How a transaction ends *)

(* Drop everything the open transaction of w wrote and read. *)
Forget(w) ==
    /\ staged' = [staged EXCEPT ![w] = NoRows]
    /\ read' = [read EXCEPT ![w] = NoRead]

(* Mutation of Abort: the transaction is left open. *)
AbortWithoutRollback(w) ==
    /\ pc' = [pc EXCEPT ![w] = "idle"]
    /\ outcome' = [outcome EXCEPT ![w] = "raised"]
    /\ UNCHANGED <<tables, external, finding, call, event, read, staged, counters>>

(* The except branch of every action: roll back and raise. *)
Abort(w) ==
    /\ Forget(w)
    /\ pc' = [pc EXCEPT ![w] = "idle"]
    /\ outcome' = [outcome EXCEPT ![w] = "raised"]
    /\ UNCHANGED <<tables, external, finding, call, event, counters>>

(* The worker's process dies: the database rolls its transaction back, the *)
(* outside systems keep what they were sent.                               *)
Crash(w) ==
    /\ MayCrash
    /\ pc[w] # "idle"
    /\ Forget(w)
    /\ pc' = [pc EXCEPT ![w] = "idle"]
    /\ outcome' = [outcome EXCEPT ![w] = "crashed"]
    /\ UNCHANGED <<tables, external, finding, call, event, counters>>

(* A statement of w that only moves it to statement s. *)
Goto(w, s) == pc' = [pc EXCEPT ![w] = s]

(* Leave for record_audit, to write a row with action label a. *)
Record(w, a) ==
    /\ event' = [event EXCEPT ![w] = a]
    /\ Goto(w, "tail")

-----------------------------------------------------------------------------
(* route *)

(* Where a call of route goes first: a high-value finding straight to a    *)
(* human, a finding the gate refuses to the audit of the refusal, any      *)
(* other to its action.                                                    *)
Begin(w, f) ==
    /\ pc[w] = "idle"
    /\ begun < MaxCalls
    /\ begun' = begun + 1
    /\ finding' = [finding EXCEPT ![w] = f]
    /\ call' = [call EXCEPT ![w] = begun + 1]
    /\ outcome' = [outcome EXCEPT ![w] = "none"]
    /\ \/ /\ HighValue(f)
          /\ Goto(w, "escalate")
          /\ UNCHANGED event
       \/ /\ ~HighValue(f)
          /\ ValidateAction(f) # "OK"
          /\ Record(w, IF RouteAction(f) = "claim" THEN "claim:BLOCKED"
                                                   ELSE "rebill:BLOCKED")
       \/ /\ ~HighValue(f)
          /\ ValidateAction(f) = "OK"
          /\ Goto(w, IF RouteAction(f) = "claim" THEN "reserve" ELSE "scan")
          /\ UNCHANGED event
    /\ UNCHANGED <<tables, external, read, staged, resets, generation>>

-----------------------------------------------------------------------------
(* create_commission_claim *)

NewClaim(w) ==
    [call |-> call[w], policy |-> finding[w].policy,
     reason |-> finding[w].reason, amount |-> finding[w].amount,
     status |-> "pending"]

(* Mutation of KeyHeld: the INSERT does not wait. *)
NeverHeld(w, c) == FALSE

(* An open transaction of another worker holds the index entry of c: an    *)
(* INSERT of c waits for it to end.                                        *)
KeyHeld(w, c) ==
    \E v \in Others(w) : \E d \in staged[v].claims : SameClaim(c, d)

UniqueViolation(c) == \E d \in claims : SameClaim(c, d)

(* Mutation of ReserveClaim: the reservation is committed on its own. *)
ReserveClaimCommitted(w) ==
    /\ pc[w] = "reserve"
    /\ ~UniqueViolation(NewClaim(w))
    /\ claims' = claims \cup {NewClaim(w)}
    /\ staged' = [staged EXCEPT ![w].claims = {NewClaim(w)}]
    /\ Goto(w, "submit")
    /\ UNCHANGED <<escalations, audit, results, external, finding, call, event, read,
                   outcome, counters>>

(* The INSERT inside the savepoint is accepted by the index. *)
ReserveClaim(w) ==
    /\ pc[w] = "reserve"
    /\ ~KeyHeld(w, NewClaim(w))
    /\ ~UniqueViolation(NewClaim(w))
    /\ staged' = [staged EXCEPT ![w].claims = {NewClaim(w)}]
    /\ Goto(w, "submit")
    /\ UNCHANGED <<tables, external, finding, call, event, read, outcome, counters>>

(* The INSERT is refused and its savepoint rolled back. *)
LoseReservation(w) ==
    /\ pc[w] = "reserve"
    /\ ~KeyHeld(w, NewClaim(w))
    /\ UniqueViolation(NewClaim(w))
    /\ Goto(w, "lookup")
    /\ UNCHANGED <<tables, external, finding, call, event, read, staged, outcome,
                   counters>>

ExistingClaims(w) == {c \in claims : SameClaim(c, NewClaim(w))}

(* Mutation of LookUpClaim: the idempotent hit is not audited. *)
LookUpClaimUnaudited(w) ==
    /\ pc[w] = "lookup"
    /\ read' = [read EXCEPT ![w].claims = ExistingClaims(w)]
    /\ event' = [event EXCEPT ![w] = "claim:IDEMPOTENT"]
    /\ Goto(w, "commit")
    /\ UNCHANGED <<tables, external, finding, call, staged, outcome, counters>>

(* The SELECT of the existing claim, and the comparison of its amount. *)
LookUpClaim(w) ==
    LET existing == ExistingClaims(w) IN
    /\ pc[w] = "lookup"
    /\ read' = [read EXCEPT ![w].claims = existing]
    /\ IF \E c \in existing : c.amount # finding[w].amount
       THEN Goto(w, "amend") /\ UNCHANGED event
       ELSE Record(w, "claim:IDEMPOTENT")
    /\ UNCHANGED <<tables, external, finding, call, staged, outcome, counters>>

(* Mutation of AmendClaim: the corrected claim is lodged once more. *)
AmendClaimAndLodge(w) ==
    LET found == {c \in claims : \E d \in read[w].claims : c.call = d.call} IN
    /\ pc[w] = "amend"
    /\ found # {}
    /\ staged' = [staged EXCEPT ![w].claims =
                     {[c EXCEPT !.amount = finding[w].amount] : c \in found}]
    /\ Goto(w, "submit")
    /\ UNCHANGED <<tables, external, finding, call, event, read, outcome, counters>>

(* Mutation of AmendClaim: the amount is committed before its audit row.   *)
AmendClaimCommitted(w) ==
    LET found == {c \in claims : \E d \in read[w].claims : c.call = d.call} IN
    /\ pc[w] = "amend"
    /\ found # {}
    /\ claims' = {IF c \in found THEN [c EXCEPT !.amount = finding[w].amount] ELSE c :
                     c \in claims}
    /\ Record(w, "claim:IDEMPOTENT")
    /\ UNCHANGED <<escalations, audit, results, external, finding, call, read, staged,
                   outcome, counters>>

(* The UPDATE of the amount waits for whoever has the row locked, and      *)
(* fails the call when the row is gone by then.                            *)
AmendClaim(w) ==
    LET found  == {c \in claims : \E d \in read[w].claims : c.call = d.call}
        locked == \E v \in Others(w) : \E c \in staged[v].claims :
                      \E d \in found : c.call = d.call
    IN  /\ pc[w] = "amend"
        /\ ~locked
        /\ \/ /\ found # {}
              /\ staged' = [staged EXCEPT ![w].claims =
                               {[c EXCEPT !.amount = finding[w].amount] : c \in found}]
              /\ Record(w, "claim:IDEMPOTENT")
              /\ UNCHANGED <<tables, external, finding, call, read, outcome, counters>>
           \/ /\ found = {}
              /\ Abort(w)

(* Mutation of SubmitClaim: the success is not audited. *)
SubmitClaimUnaudited(w) ==
    /\ pc[w] = "submit"
    /\ insurerCalls' = insurerCalls \cup
           {[call |-> call[w], policy |-> finding[w].policy,
             reason |-> finding[w].reason, amount |-> finding[w].amount]}
    /\ event' = [event EXCEPT ![w] = "claim"]
    /\ Goto(w, "commit")
    /\ UNCHANGED <<tables, billingCalls, finding, call, read, staged, outcome,
                   counters>>

(* The call to the insurer; the reserved row is then marked submitted. *)
SubmitClaim(w) ==
    /\ pc[w] = "submit"
    /\ insurerCalls' = insurerCalls \cup
           {[call |-> call[w], policy |-> finding[w].policy,
             reason |-> finding[w].reason, amount |-> finding[w].amount]}
    /\ staged' = [staged EXCEPT ![w].claims =
                     {[c EXCEPT !.status = "submitted"] : c \in staged[w].claims}]
    /\ Record(w, "claim")
    /\ UNCHANGED <<tables, billingCalls, finding, call, read, outcome, counters>>

-----------------------------------------------------------------------------
(* flag_for_rebilling *)

(* Mutation of AlreadyFlagged: every finding is flagged again. *)
NeverFlagged(rows) == FALSE

AlreadyFlagged(rows) == rows # {} /\ \A r \in rows : r.state = "disputed"

(* The SELECT of the policy's rows: flagged already, or to be flipped. *)
ScanResults(w) ==
    LET rows == {r \in results : r.policy = finding[w].policy} IN
    /\ pc[w] = "scan"
    /\ read' = [read EXCEPT ![w].results = rows]
    /\ IF AlreadyFlagged(rows)
       THEN Record(w, "rebill:IDEMPOTENT")
       ELSE Goto(w, "flip") /\ UNCHANGED event
    /\ UNCHANGED <<tables, external, finding, call, staged, outcome, counters>>

(* The UPDATEs of the rows that were not disputed when read.  An UPDATE    *)
(* waits for the row's lock, then applies to whatever the row is; it       *)
(* reports a lost race only when the row has been deleted.                 *)
FlipResults(w) ==
    LET dirty == {r \in read[w].results : r.state # "disputed"}
        found == {r \in results : \E d \in dirty : SameResult(r, d)}
        lost  == \E d \in dirty : \A r \in results : ~SameResult(r, d)
        locked == \E v \in Others(w) : \E r \in staged[v].results :
                      \E d \in found : SameResult(r, d)
    IN  /\ pc[w] = "flip"
        /\ ~locked
        /\ \/ /\ ~lost
              /\ staged' = [staged EXCEPT ![w].results =
                               {[r EXCEPT !.state = "disputed"] : r \in found}]
              /\ Goto(w, "rebill")
              /\ UNCHANGED event
           \/ /\ lost
              /\ Record(w, "rebill:IDEMPOTENT")
              /\ UNCHANGED staged
        /\ UNCHANGED <<tables, external, finding, call, read, outcome, counters>>

(* Mutation of RequestRebilling: the call is forgotten. *)
SkipRebilling(w) ==
    /\ pc[w] = "rebill"
    /\ Record(w, "rebill")
    /\ UNCHANGED <<tables, external, finding, call, read, staged, outcome, counters>>

(* The call to the billing system. *)
RequestRebilling(w) ==
    /\ pc[w] = "rebill"
    /\ billingCalls' = billingCalls \cup
           {[call |-> call[w], policy |-> finding[w].policy,
             reason |-> finding[w].reason]}
    /\ Record(w, "rebill")
    /\ UNCHANGED <<tables, insurerCalls, finding, call, read, staged, outcome,
                   counters>>

-----------------------------------------------------------------------------
(* create_escalation *)

EscalationOf(w) ==
    [call |-> call[w], policy |-> finding[w].policy, reason |-> finding[w].reason,
     why |-> RouteEscalationReason(finding[w]), amount |-> finding[w].amount]

(* Mutation of InsertEscalation: the row is committed before its audit. *)
InsertEscalationCommitted(w) ==
    /\ pc[w] = "escalate"
    /\ escalations' = escalations \cup {EscalationOf(w)}
    /\ Record(w, "escalation")
    /\ UNCHANGED <<claims, audit, results, external, finding, call, read, staged,
                   outcome, counters>>

InsertEscalation(w) ==
    /\ pc[w] = "escalate"
    /\ staged' = [staged EXCEPT ![w].escalations = {EscalationOf(w)}]
    /\ Record(w, "escalation")
    /\ UNCHANGED <<tables, external, finding, call, read, outcome, counters>>

-----------------------------------------------------------------------------
(* record_audit, and the commit that ends every action *)

(* The last committed row, if there is one. *)
LastRows == {r \in audit : \A s \in audit : s.seq <= r.seq}

(* The SELECT of the last committed row. *)
ReadTail(w) ==
    /\ pc[w] = "tail"
    /\ read' = [read EXCEPT ![w].audit = LastRows]
    /\ Goto(w, "append")
    /\ UNCHANGED <<tables, external, finding, call, event, staged, outcome, counters>>

Payload(w) == [act |-> event[w], call |-> call[w],
               policy |-> finding[w].policy, reason |-> finding[w].reason,
               gate |-> ValidateAction(finding[w])]

Link(seq, prev, payload) ==
    [seq |-> seq, event |-> payload, prev |-> prev, hash |-> ChainHash(prev, payload)]

(* The audit log is numbered from here. *)
FirstSeq == 1

(* The row that follows the tail w has read. *)
NextRow(w) ==
    IF read[w].audit = {} THEN Link(FirstSeq, Genesis, Payload(w))
    ELSE LET last == CHOOSE r \in read[w].audit : TRUE
         IN  Link(last.seq + 1, last.hash, Payload(w))

(* Mutation of SeqTaken: sequence_no is not UNIQUE. *)
NeverTaken(seq) == FALSE

(* sequence_no is UNIQUE. *)
SeqTaken(seq) == \E r \in audit : r.seq = seq

(* The INSERT waits for an open transaction that wrote the same            *)
(* sequence_no, and fails the call when a committed row has it.            *)
AppendAudit(w) ==
    LET seq == NextRow(w).seq IN
    /\ pc[w] = "append"
    /\ \A v \in Others(w) : \A r \in staged[v].audit : r.seq # seq
    /\ \/ /\ ~SeqTaken(seq)
          /\ staged' = [staged EXCEPT ![w].audit = {NextRow(w)}]
          /\ Goto(w, "commit")
          /\ UNCHANGED <<tables, external, finding, call, event, read, outcome,
                         counters>>
       \/ /\ SeqTaken(seq)
          /\ Abort(w)

(* What the caller of route is told. *)
Result(act) ==
    CASE act \in {"claim", "rebill"} -> "created"
      [] act \in {"claim:IDEMPOTENT", "rebill:IDEMPOTENT"} -> "existing"
      [] act \in {"claim:BLOCKED", "rebill:BLOCKED"} -> "blocked"
      [] act = "escalation" -> "escalated"

(* The action's commit; a refusal that needs a human is followed by the    *)
(* escalation, in a transaction of its own.                                *)
Commit(w) ==
    LET handOver == /\ event[w] \in {"claim:BLOCKED", "rebill:BLOCKED"}
                    /\ ~BlockEndsRoute(ValidateAction(finding[w]))
    IN  /\ pc[w] = "commit"
        /\ claims' = {c \in claims : \A d \in staged[w].claims : ~SameCall(c, d)}
                        \cup staged[w].claims
        /\ escalations' = escalations \cup staged[w].escalations
        /\ audit' = audit \cup staged[w].audit
        /\ results' = {r \in results : \A s \in staged[w].results : ~SameResult(r, s)}
                         \cup staged[w].results
        /\ Forget(w)
        /\ IF handOver
           THEN Goto(w, "escalate") /\ UNCHANGED outcome
           ELSE /\ Goto(w, "idle")
                /\ outcome' = [outcome EXCEPT ![w] = Result(event[w])]
        /\ UNCHANGED <<external, finding, call, event, counters>>

-----------------------------------------------------------------------------
(* What other parts of the system do to the tables meanwhile *)

(* Mutation of ResetActionTables: the audit log is cleared as well. *)
ResetActionTablesAndAudit ==
    /\ resets < MaxResets
    /\ claims' = {}
    /\ escalations' = {}
    /\ audit' = {}
    /\ resets' = resets + 1
    /\ UNCHANGED <<results, external, pc, finding, call, event, read, staged,
                   outcome, begun, generation>>

(* _reset_action_tables of another run: its DELETE waits for updated rows  *)
(* and does not see rows not yet committed.                                *)
ResetActionTables ==
    /\ resets < MaxResets
    /\ \A w \in Workers : \A c \in staged[w].claims : \A d \in claims : ~SameCall(c, d)
    /\ claims' = {}
    /\ escalations' = {}
    /\ resets' = resets + 1
    /\ UNCHANGED <<audit, results, external, pc, finding, call, event, read, staged,
                   outcome, begun, generation>>

(* engine.reconcile of another run: every result row is deleted, waiting   *)
(* for those being flipped, and rows of a new generation take their place. *)
RewriteResults ==
    /\ generation < MaxReconciles
    /\ \A w \in Workers : staged[w].results = {}
    /\ generation' = generation + 1
    /\ \E P \in SUBSET Policies : \E state \in [P -> {"", "open"}] :
           results' = {[policy |-> p, gen |-> generation + 1, state |-> state[p]] :
                          p \in P}
    /\ UNCHANGED <<claims, escalations, audit, external, pc, finding, call, event,
                   read, staged, outcome, begun, resets>>

(* Nothing is running and no bound is left to spend. *)
Done ==
    /\ \A w \in Workers : pc[w] = "idle"
    /\ begun = MaxCalls
    /\ UNCHANGED vars

-----------------------------------------------------------------------------
Init ==
    /\ claims = {}
    /\ escalations = {}
    /\ audit = {}
    /\ results = {[policy |-> p, gen |-> 0, state |-> "open"] : p \in Policies}
    /\ insurerCalls = {}
    /\ billingCalls = {}
    /\ pc = [w \in Workers |-> "idle"]
    /\ finding = [w \in Workers |-> CHOOSE f \in Findings : TRUE]
    /\ call = [w \in Workers |-> 0]
    /\ event = [w \in Workers |-> "escalation"]
    /\ read = [w \in Workers |-> NoRead]
    /\ staged = [w \in Workers |-> NoRows]
    /\ outcome = [w \in Workers |-> "none"]
    /\ begun = 0
    /\ resets = 0
    /\ generation = 0

(* The statement worker w executes next. *)
Step(w) ==
    \/ ReserveClaim(w)
    \/ LoseReservation(w)
    \/ LookUpClaim(w)
    \/ AmendClaim(w)
    \/ SubmitClaim(w)
    \/ ScanResults(w)
    \/ FlipResults(w)
    \/ RequestRebilling(w)
    \/ InsertEscalation(w)
    \/ ReadTail(w)
    \/ AppendAudit(w)
    \/ Commit(w)

Next ==
    \/ \E w \in Workers : \E f \in Findings : Begin(w, f)
    \/ \E w \in Workers : Step(w)
    \/ \E w \in Workers : Crash(w)
    \/ ResetActionTables
    \/ RewriteResults
    \/ Done

Spec == Init /\ [][Next]_vars

-----------------------------------------------------------------------------
(* Properties *)

Statements == {"idle", "reserve", "lookup", "amend", "submit", "scan", "flip",
               "rebill", "escalate", "tail", "append", "commit"}

Outcomes == {"none", "created", "existing", "blocked", "escalated", "raised",
             "crashed"}

(* Every variable has the shape the schema and the code give it. *)
TypeOK ==
    /\ claims \subseteq Claim
    /\ escalations \subseteq EscalationRow
    /\ audit \subseteq AuditRow
    /\ results \subseteq ResultRow
    /\ insurerCalls \subseteq [call : Nat, policy : Policies,
                                reason : DetectionReason, amount : Nat]
    /\ billingCalls \subseteq [call : Nat, policy : Policies,
                                reason : DetectionReason]
    /\ pc \in [Workers -> Statements]
    /\ finding \in [Workers -> Finding]
    /\ call \in [Workers -> Nat]
    /\ event \in [Workers -> Labels]
    /\ read \in [Workers -> [claims : SUBSET Claim, audit : SUBSET AuditRow,
                             results : SUBSET ResultRow]]
    /\ staged \in [Workers -> [claims : SUBSET Claim,
                               escalations : SUBSET EscalationRow,
                               audit : SUBSET AuditRow,
                               results : SUBSET ResultRow]]
    /\ outcome \in [Workers -> Outcomes]
    /\ begun \in Nat /\ resets \in Nat /\ generation \in Nat

(* Two callers can never create two active claims for the same leak,       *)
(* whatever amounts they claim and whatever fails meanwhile (the partial   *)
(* unique index of commission_claims).                                     *)
OneActiveClaim ==
    \A c, d \in claims : c.policy = d.policy /\ c.reason = d.reason => c = d

(* verify_audit_chain succeeds at every moment: the sequence is gap-free   *)
(* from 1 and every row links to the row before it, although every writer  *)
(* computes its row from a tail that may be stale.                         *)
VerifyAuditChain ==
    /\ {r.seq : r \in audit} = 1..Cardinality(audit)
    /\ \A r \in audit : r.seq = 1 => r.prev = Genesis
    /\ \A r, s \in audit : s.seq = r.seq + 1 => s.prev = r.hash

(* A claim that is visible was lodged with the insurer and audited, by the *)
(* call that inserted it: no claim is left pending, none is unaudited.     *)
ClaimsAreEvidenced ==
    \A c \in claims :
        /\ c.status = "submitted"
        /\ \E x \in insurerCalls : SameCall(x, c) /\ SameClaim(x, c)
        /\ \E r \in audit : r.event.act = "claim" /\ r.event.call = c.call

(* An escalation is audited once, and one that follows a refusal comes     *)
(* after the audit row of that refusal: the two transactions of route are  *)
(* never seen out of order.                                                *)
EscalationsAreEvidenced ==
    \A e \in escalations :
        LET rows == {r \in audit : r.event.call = e.call}
            handoffs == {r \in rows : r.event.act = "escalation"}
        IN  /\ Cardinality(handoffs) = 1
            /\ e.why # "HIGH_VALUE" =>
                  \E b \in rows : /\ b.event.act \in {"claim:BLOCKED", "rebill:BLOCKED"}
                                 /\ b.event.gate \in {"NOT_CONFIRMED", "INVALID_REASON"}
                                 /\ \A h \in handoffs : b.seq < h.seq

(* A result row is disputed only after billing has been asked to re-bill   *)
(* the policy and the flag has been audited.                               *)
DisputesAreEvidenced ==
    \A r \in results : r.state = "disputed" =>
        \E b \in billingCalls : \E a \in audit :
            /\ b.policy = r.policy
            /\ a.event.act = "rebill"
            /\ a.event.call = b.call

(* The insurer is never contacted about a leak that has an active claim,   *)
(* and two open transactions never both contact it.                        *)
LodgedUnderReservation ==
    [][\A x \in insurerCalls' \ insurerCalls :
          /\ \A c \in claims : ~SameClaim(c, x)
          /\ \A w \in Workers : \A c \in staged[w].claims :
                 SameClaim(c, x) => c.call = x.call]_vars

(* The insurer is told again about a leak only when whoever told it before *)
(* left no record of it (its process died, or its transaction was rolled   *)
(* back, after submit_claim), or when another run has cleared the claims   *)
(* in between: what is on record was lodged once for each such clearing,   *)
(* and once before.                                                        *)
ToldOncePerReset ==
    \A y \in insurerCalls :
        Cardinality({x \in insurerCalls :
                        /\ x.policy = y.policy /\ x.reason = y.reason
                        /\ \E r \in audit : r.event.call = x.call}) <= 1 + resets

(* Whatever is answered to the caller of route has an audit row saying so: *)
(* created, existing, blocked and escalated are all in the trail.          *)
EveryOutcomeAudited ==
    \A w \in Workers :
        outcome[w] \in {"created", "existing", "blocked", "escalated"} =>
            \E r \in audit : /\ r.event.call = call[w]
                             /\ Result(r.event.act) = outcome[w]

(* The committed audit rows, in sequence_no order, implement the abstract  *)
(* append-only log.                                                        *)
AuditInOrder ==
    [i \in 1..Cardinality(audit) |-> CHOOSE r \in audit : r.seq = i]
Log == INSTANCE AuditLog WITH Events <- Event, log <- AuditInOrder
AuditIsALog == Log!Spec

(* The tables and the outside calls implement the abstract ledger: every   *)
(* action of route is seen as one step, with its audit row, and a call     *)
(* that is rolled back or dies leaves nothing in the tables.               *)
EventsInOrder == [i \in 1..Cardinality(audit) |-> AuditInOrder[i].event]
Ledger == INSTANCE ActionLedger WITH Calls <- 1..MaxCalls, log <- EventsInOrder
ActionsAreWhole == Ledger!Spec

(* Retries never double-pay: the insurer is called at most once per leak.  *)
(* It holds for one worker that does not crash and whose claims nobody     *)
(* clears; see the README for what breaks it.                              *)
InsurerCalledOnce ==
    \A x, y \in insurerCalls :
        x.policy = y.policy /\ x.reason = y.reason => SameCall(x, y)

(* Billing is asked once per policy while its result row lives. *)
BilledOnce ==
    \A x, y \in billingCalls : x.policy = y.policy => SameCall(x, y)

(* Every external call is in the audit trail once the call that made it is *)
(* over.                                                                   *)
EveryCallAudited ==
    \A x \in insurerCalls \cup billingCalls :
        \/ \E w \in Workers : call[w] = x.call /\ pc[w] # "idle"
        \/ \E r \in audit : r.event.call = x.call

(* A finding refused for anything but its size reaches the human queue     *)
(* once the call is over.                                                  *)
RefusedReachesHuman ==
    \A b \in audit :
        /\ b.event.act \in {"claim:BLOCKED", "rebill:BLOCKED"}
        /\ b.event.gate # "TOO_SMALL"
        => \/ \E w \in Workers : call[w] = b.event.call /\ pc[w] # "idle"
           \/ \E r \in audit : /\ r.event.act = "escalation"
                               /\ r.event.call = b.event.call

(* The statement w executes next waits for another open transaction: for   *)
(* an index entry, a row's lock or a sequence_no it wrote.                 *)
Waits(w) ==
    \E v \in Others(w) :
        \/ /\ pc[w] = "reserve"
           /\ \E c \in staged[v].claims : SameClaim(c, NewClaim(w))
        \/ /\ pc[w] = "amend"
           /\ \E c \in staged[v].claims : \E d \in read[w].claims : SameCall(c, d)
        \/ /\ pc[w] = "flip"
           /\ \E r \in staged[v].results : \E d \in read[w].results : SameResult(r, d)
        \/ /\ pc[w] = "append"
           /\ \E r \in staged[v].audit : r.seq = NextRow(w).seq

(* No transactions wait for each other in a circle, nor for one that is    *)
(* over: while a call is in progress, one that is does not wait.           *)
NobodyStuck ==
    (\E w \in Workers : pc[w] # "idle") => \E w \in Workers : pc[w] # "idle" /\ ~Waits(w)
=============================================================================
