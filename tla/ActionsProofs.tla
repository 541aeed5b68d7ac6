---------------------------- MODULE ActionsProofs ----------------------------
(***************************************************************************)
(* What holds of the action layer for every number of workers, calls,      *)
(* resets and reconciliations, whatever crashes.                           *)
(***************************************************************************)
EXTENDS Actions, TLAPS, FiniteSetTheorems, SequenceTheorems

-----------------------------------------------------------------------------
(* Type correctness *)

LEMMA EmptyRowsType ==
    /\ NoRows \in [claims : SUBSET Claim, escalations : SUBSET EscalationRow,
                   audit : SUBSET AuditRow, results : SUBSET ResultRow]
    /\ NoRead \in [claims : SUBSET Claim, audit : SUBSET AuditRow,
                   results : SUBSET ResultRow]
  BY DEF NoRows, NoRead

LEMMA ForgetType ==
    ASSUME TypeOK, NEW w \in Workers, Forget(w)
    PROVE  /\ staged' \in [Workers -> [claims : SUBSET Claim,
                                       escalations : SUBSET EscalationRow,
                                       audit : SUBSET AuditRow,
                                       results : SUBSET ResultRow]]
           /\ read' \in [Workers -> [claims : SUBSET Claim, audit : SUBSET AuditRow,
                                     results : SUBSET ResultRow]]
  BY EmptyRowsType DEF TypeOK, Forget

LEMMA AbortType ==
    ASSUME TypeOK, NEW w \in Workers, Abort(w)
    PROVE  TypeOK'
  BY ForgetType DEF Abort, TypeOK, tables, external, counters, Statements, Outcomes

LEMMA BeginType ==
    ASSUME TypeOK, NEW w \in Workers, NEW f \in Findings, Begin(w, f)
    PROVE  TypeOK'
<1>1. f \in Finding
  BY FindingsAssumption DEF FindingsAssumption
<1>2. pc' \in [Workers -> Statements]
  BY DEF Begin, TypeOK, Record, Goto, Statements
<1>3. event' \in [Workers -> Labels]
  BY DEF Begin, TypeOK, Record, Labels
<1>4. /\ finding' \in [Workers -> Finding]
      /\ call' \in [Workers -> Nat]
      /\ outcome' \in [Workers -> Outcomes]
      /\ begun' \in Nat
  BY <1>1 DEF Begin, TypeOK, Outcomes
<1>. QED
  BY <1>2, <1>3, <1>4 DEF Begin, TypeOK, tables, external

LEMMA NewClaimType ==
    ASSUME TypeOK, NEW w \in Workers
    PROVE  NewClaim(w) \in Claim
  BY DEF TypeOK, NewClaim, Claim, Finding

LEMMA ReserveClaimType ==
    ASSUME TypeOK, NEW w \in Workers, ReserveClaim(w)
    PROVE  TypeOK'
  BY NewClaimType
  DEF ReserveClaim, TypeOK, Goto, tables, external, counters, Statements

LEMMA LoseReservationType ==
    ASSUME TypeOK, NEW w \in Workers, LoseReservation(w)
    PROVE  TypeOK'
  BY DEF LoseReservation, TypeOK, Goto, tables, external, counters, Statements

LEMMA LookUpClaimType ==
    ASSUME TypeOK, NEW w \in Workers, LookUpClaim(w)
    PROVE  TypeOK'
<1>1. ExistingClaims(w) \in SUBSET Claim
  BY DEF ExistingClaims, TypeOK
<1>3. read' \in [Workers -> [claims : SUBSET Claim, audit : SUBSET AuditRow,
                             results : SUBSET ResultRow]]
  BY <1>1 DEF LookUpClaim, TypeOK
<1>2. pc' \in [Workers -> Statements] /\ event' \in [Workers -> Labels]
  BY DEF LookUpClaim, TypeOK, Goto, Record, Statements, Labels
<1>. QED
  BY <1>2, <1>3 DEF LookUpClaim, TypeOK, tables, external, counters

LEMMA AmendClaimType ==
    ASSUME TypeOK, NEW w \in Workers, AmendClaim(w)
    PROVE  TypeOK'
<1> DEFINE found == {c \in claims : \E d \in read[w].claims : c.call = d.call}
           amended == {[c EXCEPT !.amount = finding[w].amount] : c \in found}
<1>1. amended \subseteq Claim
  BY DEF TypeOK, Claim, Finding
<1>2. CASE Abort(w)
  BY <1>2, AbortType
<1>3. CASE /\ staged' = [staged EXCEPT ![w].claims = amended]
           /\ Record(w, "claim:IDEMPOTENT")
           /\ UNCHANGED <<tables, external, finding, call, read, outcome, counters>>
  BY <1>1, <1>3
  DEF TypeOK, Goto, Record, tables, external, counters, Statements, Labels
<1>. QED
  BY <1>2, <1>3 DEF AmendClaim

LEMMA SubmitClaimType ==
    ASSUME TypeOK, NEW w \in Workers, SubmitClaim(w)
    PROVE  TypeOK'
<1> DEFINE lodged == {[c EXCEPT !.status = "submitted"] : c \in staged[w].claims}
           sent   == [call |-> call[w], policy |-> finding[w].policy,
                      reason |-> finding[w].reason, amount |-> finding[w].amount]
<1>1. lodged \subseteq Claim
  BY DEF TypeOK, Claim
<1>2. sent \in [call : Nat, policy : Policies, reason : DetectionReason, amount : Nat]
  BY DEF TypeOK, Finding
<1>3. staged' = [staged EXCEPT ![w].claims = lodged]
  BY DEF SubmitClaim
<1>4. insurerCalls' = insurerCalls \cup {sent}
  BY DEF SubmitClaim
<1>5. pc' \in [Workers -> Statements] /\ event' \in [Workers -> Labels]
  BY DEF SubmitClaim, TypeOK, Goto, Record, Statements, Labels
<1> HIDE DEF lodged, sent
<1>6. staged' \in [Workers -> [claims : SUBSET Claim,
                              escalations : SUBSET EscalationRow,
                              audit : SUBSET AuditRow,
                              results : SUBSET ResultRow]]
  BY <1>1, <1>3 DEF TypeOK
<1>. QED
  BY <1>2, <1>4, <1>5, <1>6 DEF SubmitClaim, TypeOK, tables, counters

LEMMA ScanResultsType ==
    ASSUME TypeOK, NEW w \in Workers, ScanResults(w)
    PROVE  TypeOK'
<1> DEFINE rows == {r \in results : r.policy = finding[w].policy}
<1>1. rows \in SUBSET ResultRow
  BY DEF TypeOK
<1>2. read' = [read EXCEPT ![w].results = rows]
  BY DEF ScanResults
<1>3. pc' \in [Workers -> Statements] /\ event' \in [Workers -> Labels]
  BY DEF ScanResults, TypeOK, Goto, Record, Statements, Labels
<1> HIDE DEF rows
<1>4. read' \in [Workers -> [claims : SUBSET Claim, audit : SUBSET AuditRow,
                            results : SUBSET ResultRow]]
  BY <1>1, <1>2 DEF TypeOK
<1>. QED
  BY <1>3, <1>4 DEF ScanResults, TypeOK, tables, external, counters

LEMMA FlipResultsType ==
    ASSUME TypeOK, NEW w \in Workers, FlipResults(w)
    PROVE  TypeOK'
<1> DEFINE dirty == {r \in read[w].results : r.state # "disputed"}
           found == {r \in results : \E d \in dirty : SameResult(r, d)}
           flipped == {[r EXCEPT !.state = "disputed"] : r \in found}
<1>1. flipped \in SUBSET ResultRow
  <2> SUFFICES ASSUME NEW r \in found
               PROVE  [r EXCEPT !.state = "disputed"] \in ResultRow
    OBVIOUS
  <2>1. r \in ResultRow
    BY DEF TypeOK
  <2>. QED
    BY <2>1 DEF ResultRow, ResolutionState
<1>2. \/ staged' = [staged EXCEPT ![w].results = flipped]
      \/ UNCHANGED staged
  BY DEF FlipResults
<1>3. pc' \in [Workers -> Statements] /\ event' \in [Workers -> Labels]
  BY DEF FlipResults, TypeOK, Goto, Record, Statements, Labels
<1> HIDE DEF flipped
<1>4. staged' \in [Workers -> [claims : SUBSET Claim,
                              escalations : SUBSET EscalationRow,
                              audit : SUBSET AuditRow,
                              results : SUBSET ResultRow]]
  <2>1. CASE staged' = [staged EXCEPT ![w].results = flipped]
    BY <1>1, <2>1 DEF TypeOK
  <2>2. CASE UNCHANGED staged
    BY <2>2 DEF TypeOK
  <2>. QED
    BY <1>2, <2>1, <2>2
<1>. QED
  BY <1>3, <1>4 DEF FlipResults, TypeOK, tables, external, counters

(* A flip writes to reconciliation_results only. *)
LEMMA FlipResultsWrites ==
    ASSUME TypeOK, NEW w \in Workers, FlipResults(w)
    PROVE  /\ UNCHANGED <<tables, read>>
           /\ \A v \in Workers : /\ staged'[v].claims = staged[v].claims
                                 /\ staged'[v].audit = staged[v].audit
<1> DEFINE dirty == {r \in read[w].results : r.state # "disputed"}
           found == {r \in results : \E d \in dirty : SameResult(r, d)}
           flipped == {[r EXCEPT !.state = "disputed"] : r \in found}
<1>1. \/ staged' = [staged EXCEPT ![w].results = flipped]
      \/ UNCHANGED staged
  BY DEF FlipResults
<1>2. UNCHANGED <<tables, read>>
  BY DEF FlipResults
<1> HIDE DEF flipped
<1>3. CASE staged' = [staged EXCEPT ![w].results = flipped]
  BY <1>2, <1>3 DEF TypeOK
<1>4. CASE UNCHANGED staged
  BY <1>2, <1>4
<1>. QED
  BY <1>1, <1>3, <1>4

LEMMA RequestRebillingType ==
    ASSUME TypeOK, NEW w \in Workers, RequestRebilling(w)
    PROVE  TypeOK'
<1>1. billingCalls' \subseteq [call : Nat, policy : Policies,
                              reason : DetectionReason]
  BY DEF RequestRebilling, TypeOK, Finding
<1>2. pc' \in [Workers -> Statements] /\ event' \in [Workers -> Labels]
  BY DEF RequestRebilling, TypeOK, Goto, Record, Statements, Labels
<1>. QED
  BY <1>1, <1>2 DEF RequestRebilling, TypeOK, tables, counters

LEMMA InsertEscalationType ==
    ASSUME TypeOK, NEW w \in Workers, InsertEscalation(w)
    PROVE  TypeOK'
<1>1. RouteEscalationReason(finding[w]) \in EscalationReason
  BY DEF RouteEscalationReason, EscalationReason
<1>4. EscalationOf(w) \in EscalationRow
  BY <1>1 DEF EscalationOf, EscalationRow, TypeOK, Finding
<1>2. staged' \in [Workers -> [claims : SUBSET Claim,
                              escalations : SUBSET EscalationRow,
                              audit : SUBSET AuditRow,
                              results : SUBSET ResultRow]]
  BY <1>4 DEF InsertEscalation, TypeOK
<1>3. pc' \in [Workers -> Statements] /\ event' \in [Workers -> Labels]
  BY DEF InsertEscalation, TypeOK, Goto, Record, Statements, Labels
<1>. QED
  BY <1>2, <1>3 DEF InsertEscalation, TypeOK, tables, external, counters

LEMMA ReadTailType ==
    ASSUME TypeOK, NEW w \in Workers, ReadTail(w)
    PROVE  TypeOK'
<1>1. LastRows \in SUBSET AuditRow
  BY DEF LastRows, TypeOK
<1>2. read' \in [Workers -> [claims : SUBSET Claim, audit : SUBSET AuditRow,
                            results : SUBSET ResultRow]]
  <2> DEFINE rows == LastRows
  <2>1. read' = [read EXCEPT ![w].audit = rows] /\ rows \in SUBSET AuditRow
    BY <1>1 DEF ReadTail
  <2> HIDE DEF rows
  <2> QED BY <2>1 DEF TypeOK
<1>3. pc' \in [Workers -> Statements]
  BY DEF ReadTail, TypeOK, Goto, Statements
<1>. QED
  BY <1>2, <1>3 DEF ReadTail, TypeOK, tables, external, counters

-----------------------------------------------------------------------------
(* record_audit and commit *)

LEMMA PayloadType ==
    ASSUME TypeOK, NEW w \in Workers
    PROVE  Payload(w) \in Event
<1>1. ValidateAction(finding[w]) \in GateCode
  BY DEF ValidateAction, GateCode
<1>. QED
  BY <1>1 DEF Payload, Event, TypeOK, Finding

(* A row built on a sequence number and a hash is an audit row. *)
LEMMA LinkType ==
    ASSUME NEW seq \in Nat \ {0}, NEW prev \in Seq(Event), NEW payload \in Event
    PROVE  Link(seq, prev, payload) \in AuditRow
  BY DEF Link, ChainHash, AuditRow

(* The row a worker is about to write either starts the chain or follows a *)
(* row the worker has read.                                                *)
LEMMA NextRowIs ==
    ASSUME TypeOK, NEW w \in Workers
    PROVE  /\ NextRow(w) \in AuditRow
           /\ \/ /\ read[w].audit = {}
                 /\ NextRow(w).seq = 1
                 /\ NextRow(w).prev = Genesis
              \/ \E last \in read[w].audit :
                    /\ NextRow(w).seq = last.seq + 1
                    /\ NextRow(w).prev = last.hash
<1>1. Payload(w) \in Event
  BY PayloadType
<1>2. CASE read[w].audit = {}
  <2>1. NextRow(w) = Link(1, Genesis, Payload(w))
    BY <1>2 DEF NextRow, FirstSeq
  <2>2. Genesis \in Seq(Event)
    BY DEF Genesis
  <2>3. NextRow(w) \in AuditRow
    BY <1>1, <2>1, <2>2, LinkType
  <2>. QED
    BY <1>2, <2>1, <2>3 DEF Link
<1>3. CASE read[w].audit # {}
  <2> DEFINE last == CHOOSE r \in read[w].audit : TRUE
  <2>1. last \in read[w].audit
    BY <1>3
  <2>2. NextRow(w) = Link(last.seq + 1, last.hash, Payload(w))
    BY <1>3 DEF NextRow
  <2>3. last \in AuditRow
    BY <2>1 DEF TypeOK
  <2> HIDE DEF last
  <2>4. last.seq + 1 \in Nat \ {0} /\ last.hash \in Seq(Event)
    BY <2>3 DEF AuditRow
  <2>5. NextRow(w) \in AuditRow
    BY <1>1, <2>2, <2>4, LinkType
  <2>. QED
    BY <2>1, <2>2, <2>5 DEF Link
<1>. QED
  BY <1>2, <1>3

LEMMA AppendAuditType ==
    ASSUME TypeOK, NEW w \in Workers, AppendAudit(w)
    PROVE  TypeOK'
<1>1. CASE Abort(w)
  BY <1>1, AbortType
<1>2. CASE /\ staged' = [staged EXCEPT ![w].audit = {NextRow(w)}]
           /\ Goto(w, "commit")
           /\ UNCHANGED <<tables, external, finding, call, event, read, outcome,
                          counters>>
  <2>1. {NextRow(w)} \in SUBSET AuditRow
    BY NextRowIs
  <2>2. staged' \in [Workers -> [claims : SUBSET Claim,
                                escalations : SUBSET EscalationRow,
                                audit : SUBSET AuditRow,
                                results : SUBSET ResultRow]]
    BY <1>2, <2>1 DEF TypeOK
  <2>. QED
    BY <1>2, <2>2 DEF TypeOK, Goto, Statements, tables, external, counters
<1>. QED
  BY <1>1, <1>2 DEF AppendAudit

LEMMA CommitType ==
    ASSUME TypeOK, NEW w \in Workers, Commit(w)
    PROVE  TypeOK'
<1>1. claims' \subseteq Claim
  BY DEF Commit, TypeOK
<1>2. escalations' \subseteq EscalationRow /\ audit' \subseteq AuditRow
  BY DEF Commit, TypeOK
<1>3. results' \subseteq ResultRow
  BY DEF Commit, TypeOK
<1>4. pc' \in [Workers -> Statements]
  BY DEF Commit, TypeOK, Goto, Statements
<1>5. Result(event[w]) \in Outcomes
  BY DEF Result, Outcomes, TypeOK, Labels
<1>6. outcome' \in [Workers -> Outcomes]
  BY <1>5 DEF Commit, TypeOK
<1>7. Forget(w)
  BY DEF Commit
<1>. QED
  BY <1>1, <1>2, <1>3, <1>4, <1>6, <1>7, ForgetType
  DEF Commit, TypeOK, external, counters

LEMMA CrashType ==
    ASSUME TypeOK, NEW w \in Workers, Crash(w)
    PROVE  TypeOK'
  BY ForgetType DEF Crash, TypeOK, tables, external, counters, Statements, Outcomes

LEMMA ResetActionTablesType ==
    ASSUME TypeOK, ResetActionTables
    PROVE  TypeOK'
  BY DEF ResetActionTables, TypeOK, external

LEMMA RewriteResultsType ==
    ASSUME TypeOK, RewriteResults
    PROVE  TypeOK'
<1>3. generation + 1 \in Nat
  BY DEF TypeOK
<1>1. PICK P \in SUBSET Policies : \E state \in [P -> {"", "open"}] :
        results' = {[policy |-> p, gen |-> generation + 1, state |-> state[p]] : p \in P}
  BY Zenon DEF RewriteResults
<1>2. PICK state \in [P -> {"", "open"}] :
        results' = {[policy |-> p, gen |-> generation + 1, state |-> state[p]] : p \in P}
  BY <1>1, Zenon
<1>4. ASSUME NEW r \in results'
      PROVE  r \in ResultRow
  <2>1. PICK p \in P : r = [policy |-> p, gen |-> generation + 1, state |-> state[p]]
    BY <1>2
  <2>2. p \in Policies /\ state[p] \in ResolutionState
    BY DEF ResolutionState
  <2>. QED
    BY <1>3, <2>1, <2>2 DEF ResultRow
<1>5. results' \subseteq ResultRow
  BY <1>4
<1>6. /\ generation' = generation + 1
      /\ UNCHANGED <<claims, escalations, audit, external, pc, finding, call, event,
                     read, staged, outcome, begun, resets>>
  BY Zenon DEF RewriteResults
<1>. QED
  BY <1>3, <1>5, <1>6 DEF TypeOK, external

LEMMA InitType == Init => TypeOK
<1> SUFFICES ASSUME Init PROVE TypeOK
  OBVIOUS
<1>1. (CHOOSE f \in Findings : TRUE) \in Finding
  BY FindingsAssumption DEF FindingsAssumption
<1>2. finding \in [Workers -> Finding]
  BY <1>1 DEF Init
<1>3. ASSUME NEW r \in results
      PROVE  r \in ResultRow
  <2>3. results = {[policy |-> p, gen |-> 0, state |-> "open"] : p \in Policies}
    BY DEF Init
  <2>1. PICK p \in Policies : r = [policy |-> p, gen |-> 0, state |-> "open"]
    BY <2>3, Zenon
  <2>. QED
    BY <2>1 DEF ResultRow, ResolutionState
<1>4. /\ pc \in [Workers -> Statements]
      /\ event \in [Workers -> Labels]
      /\ outcome \in [Workers -> Outcomes]
      /\ call \in [Workers -> Nat]
  BY DEF Init, Statements, Labels, Outcomes
<1>5. /\ read \in [Workers -> [claims : SUBSET Claim, audit : SUBSET AuditRow,
                              results : SUBSET ResultRow]]
      /\ staged \in [Workers -> [claims : SUBSET Claim,
                                escalations : SUBSET EscalationRow,
                                audit : SUBSET AuditRow,
                                results : SUBSET ResultRow]]
  BY EmptyRowsType DEF Init
<1>. QED
  BY <1>2, <1>3, <1>4, <1>5 DEF Init, TypeOK

LEMMA NextType == TypeOK /\ [Next]_vars => TypeOK'
<1> SUFFICES ASSUME TypeOK, [Next]_vars
             PROVE  TypeOK'
  OBVIOUS
<1>1. ASSUME NEW w \in Workers, NEW f \in Findings, Begin(w, f)
      PROVE  TypeOK'
  BY <1>1, BeginType
<1>2. ASSUME NEW w \in Workers, Step(w)
      PROVE  TypeOK'
  BY <1>2, ReserveClaimType, LoseReservationType, LookUpClaimType, AmendClaimType,
     SubmitClaimType, ScanResultsType, FlipResultsType, RequestRebillingType,
     InsertEscalationType, ReadTailType, AppendAuditType, CommitType
  DEF Step
<1>3. ASSUME NEW w \in Workers, Crash(w)
      PROVE  TypeOK'
  BY <1>3, CrashType
<1>4. CASE ResetActionTables
  BY <1>4, ResetActionTablesType
<1>5. CASE RewriteResults
  BY <1>5, RewriteResultsType
<1>6. CASE UNCHANGED vars
  BY <1>6 DEF TypeOK, vars, tables, external, counters
<1>. QED
  BY <1>1, <1>2, <1>3, <1>4, <1>5, <1>6 DEF Next, Done

(* Every variable keeps its type: the rows written, read and committed by  *)
(* the actions have the columns of their tables.                           *)
THEOREM Typing == Spec => []TypeOK
  BY InitType, NextType, PTL DEF Spec

-----------------------------------------------------------------------------
(* One active claim per leak *)

(* What makes OneActiveClaim inductive: two open transactions never hold   *)
(* rows of the same leak, and a row held for a leak that has a committed   *)
(* claim is a new version of that very row.                                *)
ReservationsExclusive ==
    /\ \A w, v \in Workers : \A c \in staged[w].claims : \A d \in staged[v].claims :
           SameClaim(c, d) => w = v /\ c = d
    /\ \A w \in Workers : \A c \in staged[w].claims : \A d \in claims :
           SameClaim(c, d) => SameCall(c, d)

OneClaimInv == TypeOK /\ OneActiveClaim /\ ReservationsExclusive

(* A step that keeps the committed claims, and adds no row to an open      *)
(* transaction, keeps the invariant.                                       *)
LEMMA ClaimsShrink ==
    ASSUME OneClaimInv,
           claims' \subseteq claims,
           \A w \in Workers : staged'[w].claims \subseteq staged[w].claims
    PROVE  OneActiveClaim' /\ ReservationsExclusive'
  BY DEF OneClaimInv, OneActiveClaim, ReservationsExclusive, SameClaim, SameCall

LEMMA ForgetShrinks ==
    ASSUME TypeOK, NEW w \in Workers, Forget(w)
    PROVE  \A v \in Workers : staged'[v].claims \subseteq staged[v].claims
  BY DEF TypeOK, Forget, NoRows

LEMMA ReserveClaimOne ==
    ASSUME OneClaimInv, NEW w \in Workers, ReserveClaim(w)
    PROVE  OneActiveClaim' /\ ReservationsExclusive'
<1> DEFINE new == NewClaim(w)
<1>1. /\ claims' = claims
      /\ staged'[w].claims = {new}
      /\ \A v \in Others(w) : staged'[v] = staged[v]
  BY DEF ReserveClaim, OneClaimInv, TypeOK, tables, Others
<1>2. \A v \in Others(w) : \A d \in staged[v].claims : ~SameClaim(new, d)
  BY DEF ReserveClaim, KeyHeld
<1>3. \A d \in claims : ~SameClaim(new, d)
  BY DEF ReserveClaim, UniqueViolation
<1> HIDE DEF new
<1>4. OneActiveClaim'
  BY <1>1 DEF OneClaimInv, OneActiveClaim
<1>5. ASSUME NEW u \in Workers, NEW v \in Workers,
             NEW c \in staged'[u].claims, NEW d \in staged'[v].claims, SameClaim(c, d)
      PROVE  u = v /\ c = d
  BY <1>1, <1>2, <1>5 DEF OneClaimInv, ReservationsExclusive, SameClaim, Others
<1>6. ASSUME NEW u \in Workers, NEW c \in staged'[u].claims, NEW d \in claims',
             SameClaim(c, d)
      PROVE  SameCall(c, d)
  BY <1>1, <1>3, <1>6 DEF OneClaimInv, ReservationsExclusive, Others
<1>. QED
  BY <1>4, <1>5, <1>6 DEF ReservationsExclusive, SameClaim, SameCall

LEMMA AmendClaimOne ==
    ASSUME OneClaimInv, NEW w \in Workers, AmendClaim(w)
    PROVE  OneActiveClaim' /\ ReservationsExclusive'
<1> DEFINE found == {c \in claims : \E d \in read[w].claims : c.call = d.call}
           amended == {[c EXCEPT !.amount = finding[w].amount] : c \in found}
<1>1. CASE Abort(w)
  BY <1>1, ForgetShrinks, ClaimsShrink DEF Abort, tables, OneClaimInv
<1>2. CASE /\ staged' = [staged EXCEPT ![w].claims = amended]
           /\ UNCHANGED tables
  <2>1. /\ claims' = claims
        /\ staged'[w].claims = amended
        /\ \A v \in Others(w) : staged'[v] = staged[v]
    BY <1>2 DEF OneClaimInv, TypeOK, tables, Others
  <2>2. \A v \in Others(w) : \A c \in staged[v].claims : \A d \in found : c.call # d.call
    BY DEF AmendClaim
  <2>3. ASSUME NEW c \in amended
        PROVE  \E b \in found : /\ c = [b EXCEPT !.amount = finding[w].amount]
                                /\ SameClaim(c, b) /\ SameCall(c, b)
    BY DEF OneClaimInv, TypeOK, Claim, SameClaim, SameCall
  <2>4. found \subseteq claims
    OBVIOUS
  <2> HIDE DEF found, amended
  <2>5. ASSUME NEW v \in Others(w), NEW c \in amended, NEW d \in staged[v].claims
        PROVE  ~SameClaim(c, d)
    <3>1. PICK b \in found : SameClaim(c, b) /\ SameCall(c, b)
      BY <2>3
    <3>. QED
      BY <2>2, <2>4, <3>1
      DEF OneClaimInv, ReservationsExclusive, SameClaim, SameCall, Others
  <2>6. ASSUME NEW c \in amended, NEW d \in amended, SameClaim(c, d)
        PROVE  c = d
    <3>1. PICK a \in found : c = [a EXCEPT !.amount = finding[w].amount] /\ SameClaim(c, a)
      BY <2>3
    <3>2. PICK b \in found : d = [b EXCEPT !.amount = finding[w].amount] /\ SameClaim(d, b)
      BY <2>3
    <3>3. a = b
      BY <2>4, <2>6, <3>1, <3>2 DEF OneClaimInv, OneActiveClaim, SameClaim
    <3>. QED
      BY <3>1, <3>2, <3>3
  <2>7. ASSUME NEW c \in amended, NEW d \in claims, SameClaim(c, d)
        PROVE  SameCall(c, d)
    <3>1. PICK b \in found : SameClaim(c, b) /\ SameCall(c, b)
      BY <2>3
    <3>. QED
      BY <2>4, <2>7, <3>1 DEF OneClaimInv, OneActiveClaim, SameClaim, SameCall
  <2>8. OneActiveClaim'
    BY <2>1 DEF OneClaimInv, OneActiveClaim
  <2>9. ASSUME NEW u \in Workers, NEW v \in Workers,
               NEW c \in staged'[u].claims, NEW d \in staged'[v].claims, SameClaim(c, d)
        PROVE  u = v /\ c = d
    BY <2>1, <2>5, <2>6, <2>9 DEF OneClaimInv, ReservationsExclusive, SameClaim, Others
  <2>10. ASSUME NEW u \in Workers, NEW c \in staged'[u].claims, NEW d \in claims',
                SameClaim(c, d)
         PROVE  SameCall(c, d)
    BY <2>1, <2>7, <2>10 DEF OneClaimInv, ReservationsExclusive, Others
  <2>. QED
    BY <2>8, <2>9, <2>10 DEF ReservationsExclusive, SameClaim, SameCall
<1>. QED
  BY <1>1, <1>2 DEF AmendClaim

LEMMA SubmitClaimOne ==
    ASSUME OneClaimInv, NEW w \in Workers, SubmitClaim(w)
    PROVE  OneActiveClaim' /\ ReservationsExclusive'
<1> DEFINE lodged == {[c EXCEPT !.status = "submitted"] : c \in staged[w].claims}
<1>1. /\ claims' = claims
      /\ staged'[w].claims = lodged
      /\ \A v \in Others(w) : staged'[v] = staged[v]
  BY DEF SubmitClaim, OneClaimInv, TypeOK, tables, Others
<1>2. ASSUME NEW c \in lodged
      PROVE  \E b \in staged[w].claims : /\ c = [b EXCEPT !.status = "submitted"]
                                         /\ SameClaim(c, b) /\ SameCall(c, b)
  BY DEF OneClaimInv, TypeOK, Claim, SameClaim, SameCall
<1> HIDE DEF lodged
<1>3. OneActiveClaim'
  BY <1>1 DEF OneClaimInv, OneActiveClaim
<1>4. ASSUME NEW u \in Workers, NEW c \in staged'[u].claims
      PROVE  \E b \in staged[u].claims :
                /\ SameClaim(c, b) /\ SameCall(c, b)
                /\ c = IF u = w THEN [b EXCEPT !.status = "submitted"] ELSE b
  BY <1>1, <1>2 DEF Others, SameClaim, SameCall
<1>5. ASSUME NEW u \in Workers, NEW v \in Workers,
             NEW c \in staged'[u].claims, NEW d \in staged'[v].claims, SameClaim(c, d)
      PROVE  u = v /\ c = d
  <2>1. PICK a \in staged[u].claims :
               /\ SameClaim(c, a)
               /\ c = IF u = w THEN [a EXCEPT !.status = "submitted"] ELSE a
    BY <1>4
  <2>2. PICK b \in staged[v].claims :
               /\ SameClaim(d, b)
               /\ d = IF v = w THEN [b EXCEPT !.status = "submitted"] ELSE b
    BY <1>4
  <2>3. SameClaim(a, b)
    BY <1>5, <2>1, <2>2 DEF SameClaim
  <2>4. u = v /\ a = b
    BY <2>3 DEF OneClaimInv, ReservationsExclusive
  <2>. QED
    BY <2>1, <2>2, <2>4
<1>6. ASSUME NEW u \in Workers, NEW c \in staged'[u].claims, NEW d \in claims',
             SameClaim(c, d)
      PROVE  SameCall(c, d)
  <2>1. PICK a \in staged[u].claims : SameClaim(c, a) /\ SameCall(c, a)
    BY <1>4
  <2>2. d \in claims /\ SameClaim(a, d)
    BY <1>1, <1>6, <2>1 DEF SameClaim
  <2>3. SameCall(a, d)
    BY <2>2 DEF OneClaimInv, ReservationsExclusive
  <2>. QED
    BY <2>1, <2>3 DEF SameCall
<1>. QED
  BY <1>3, <1>5, <1>6 DEF ReservationsExclusive, SameClaim, SameCall

LEMMA CommitOne ==
    ASSUME OneClaimInv, NEW w \in Workers, Commit(w)
    PROVE  OneActiveClaim' /\ ReservationsExclusive'
<1>1. claims' = {c \in claims : \A d \in staged[w].claims : ~SameCall(c, d)}
                   \cup staged[w].claims
  BY DEF Commit
<1>2. /\ staged'[w].claims = {}
      /\ \A v \in Others(w) : staged'[v] = staged[v]
  BY DEF Commit, Forget, NoRows, OneClaimInv, TypeOK, Others
<1>3. OneActiveClaim'
  BY <1>1 DEF OneClaimInv, OneActiveClaim, ReservationsExclusive, SameClaim, SameCall
<1>4. ASSUME NEW u \in Workers, NEW v \in Workers,
             NEW c \in staged'[u].claims, NEW d \in staged'[v].claims, SameClaim(c, d)
      PROVE  u = v /\ c = d
  BY <1>2, <1>4 DEF OneClaimInv, ReservationsExclusive, Others
<1>5. ASSUME NEW u \in Workers, NEW c \in staged'[u].claims, NEW d \in claims',
             SameClaim(c, d)
      PROVE  SameCall(c, d)
  BY <1>1, <1>2, <1>5 DEF OneClaimInv, ReservationsExclusive, SameClaim, SameCall, Others
<1>. QED
  BY <1>3, <1>4, <1>5 DEF ReservationsExclusive, SameClaim, SameCall

LEMMA OneClaimNext == OneClaimInv /\ [Next]_vars => OneClaimInv'
<1> SUFFICES ASSUME OneClaimInv, [Next]_vars
             PROVE  OneActiveClaim' /\ ReservationsExclusive'
  BY NextType DEF OneClaimInv
<1>1. ASSUME NEW w \in Workers, Step(w)
      PROVE  OneActiveClaim' /\ ReservationsExclusive'
  <2>1. CASE ReserveClaim(w)
    BY <2>1, ReserveClaimOne
  <2>2. CASE AmendClaim(w)
    BY <2>2, AmendClaimOne
  <2>3. CASE SubmitClaim(w)
    BY <2>3, SubmitClaimOne
  <2>4. CASE Commit(w)
    BY <2>4, CommitOne
  <2>5. CASE \/ LoseReservation(w) \/ LookUpClaim(w) \/ ScanResults(w)
             \/ RequestRebilling(w) \/ ReadTail(w)
    <3>1. UNCHANGED <<claims, staged>>
      BY <2>5 DEF LoseReservation, LookUpClaim, ScanResults, RequestRebilling,
         ReadTail, tables
    <3>. QED
      BY <3>1, ClaimsShrink
  <2>6. CASE FlipResults(w)
    <3>1. claims' = claims /\ \A v \in Workers : staged'[v].claims = staged[v].claims
      BY <2>6, FlipResultsWrites DEF OneClaimInv, tables
    <3>. QED
      BY <3>1, ClaimsShrink
  <2>7. CASE InsertEscalation(w)
    <3>1. claims' = claims /\ \A v \in Workers : staged'[v].claims = staged[v].claims
      BY <2>7 DEF InsertEscalation, tables, OneClaimInv, TypeOK
    <3>. QED
      BY <3>1, ClaimsShrink
  <2>8. CASE AppendAudit(w)
    <3>1. CASE Abort(w)
      BY <3>1, ForgetShrinks, ClaimsShrink DEF Abort, tables, OneClaimInv
    <3>2. CASE staged' = [staged EXCEPT ![w].audit = {NextRow(w)}] /\ UNCHANGED tables
      <4>1. claims' = claims /\ \A v \in Workers : staged'[v].claims = staged[v].claims
        BY <3>2 DEF tables, OneClaimInv, TypeOK
      <4>. QED
        BY <4>1, ClaimsShrink
    <3>. QED
      BY <2>8, <3>1, <3>2 DEF AppendAudit
  <2>. QED
    BY <1>1, <2>1, <2>2, <2>3, <2>4, <2>5, <2>6, <2>7, <2>8 DEF Step
<1>2. ASSUME NEW w \in Workers, Crash(w)
      PROVE  OneActiveClaim' /\ ReservationsExclusive'
  BY <1>2, ForgetShrinks, ClaimsShrink DEF Crash, tables, OneClaimInv
<1>3. CASE ResetActionTables
  BY <1>3, ClaimsShrink DEF ResetActionTables
<1>4. CASE \/ \E w \in Workers : \E f \in Findings : Begin(w, f)
           \/ RewriteResults
           \/ UNCHANGED vars
  <2>1. UNCHANGED <<claims, staged>>
    BY <1>4 DEF Begin, RewriteResults, vars, tables
  <2>. QED
    BY <2>1, ClaimsShrink
<1>. QED
  BY <1>1, <1>2, <1>3, <1>4 DEF Next, Done

(* No two active claims for the same policy and reason are ever committed, *)
(* for any number of workers, retries, crashes, resets and reconciliations *)
(* (the partial unique index of commission_claims, and the order of        *)
(* statements of create_commission_claim around it).                       *)
THEOREM OneActiveClaimAlways == Spec => []OneActiveClaim
<1>1. Init => OneClaimInv
  BY InitType DEF Init, OneClaimInv, OneActiveClaim, ReservationsExclusive, NoRows
<1>. QED
  BY <1>1, OneClaimNext, PTL DEF Spec, OneClaimInv

-----------------------------------------------------------------------------
(* The insurer is contacted under a reservation *)

(* A worker about to call the insurer holds its reservation, and nobody    *)
(* has committed a claim for the leak since it was made.                   *)
SubmitHolds ==
    \A w \in Workers : pc[w] = "submit" =>
        /\ \E c \in staged[w].claims : c.call = call[w] /\ SameClaim(c, finding[w])
        /\ \A d \in claims : ~SameClaim(d, finding[w])

(* Whoever gets to the insurer in this step was there before it. *)
LEMMA SubmitStays ==
    ASSUME SubmitHolds,
           claims' \subseteq claims,
           \A w \in Workers : pc'[w] = "submit" =>
               /\ pc[w] = "submit"
               /\ staged'[w].claims = staged[w].claims
               /\ call'[w] = call[w] /\ finding'[w] = finding[w]
    PROVE  SubmitHolds'
  BY DEF SubmitHolds, SameClaim

LEMMA ReserveClaimHolds ==
    ASSUME OneClaimInv, SubmitHolds, NEW w \in Workers, ReserveClaim(w)
    PROVE  SubmitHolds'
<1> DEFINE new == NewClaim(w)
<1>1. /\ new.call = call[w] /\ SameClaim(new, finding[w])
      /\ \A d \in claims : ~SameClaim(d, finding[w])
  BY DEF ReserveClaim, UniqueViolation, NewClaim, SameClaim
<1> HIDE DEF new
<1>2. /\ staged'[w].claims = {new}
      /\ \A v \in Others(w) : staged'[v] = staged[v] /\ pc'[v] = pc[v]
      /\ UNCHANGED <<claims, call, finding>>
  BY DEF ReserveClaim, Goto, OneClaimInv, TypeOK, tables, Others, new
<1>. QED
  BY <1>1, <1>2 DEF SubmitHolds, SameClaim, Others

LEMMA CommitHolds ==
    ASSUME OneClaimInv, SubmitHolds, NEW w \in Workers, Commit(w)
    PROVE  SubmitHolds'
<1>1. /\ claims' \subseteq claims \cup staged[w].claims
      /\ pc'[w] # "submit"
      /\ \A v \in Others(w) : staged'[v] = staged[v] /\ pc'[v] = pc[v]
      /\ UNCHANGED <<call, finding>>
  BY DEF Commit, Forget, Goto, OneClaimInv, TypeOK, Others
<1>2. ASSUME NEW v \in Others(w), pc[v] = "submit", NEW d \in staged[w].claims
      PROVE  ~SameClaim(d, finding[v])
  BY <1>2 DEF SubmitHolds, OneClaimInv, ReservationsExclusive, SameClaim, Others
<1>. QED
  BY <1>1, <1>2 DEF SubmitHolds, SameClaim, Others

(* No other statement brings a worker to the insurer. *)
LEMMA OthersHold ==
    ASSUME OneClaimInv, SubmitHolds, [Next]_vars,
           \A w \in Workers : ~ReserveClaim(w) /\ ~Commit(w)
    PROVE  SubmitHolds'
<1>1. ASSUME NEW w \in Workers, Step(w) \/ Crash(w)
      PROVE  /\ claims' = claims
             /\ pc'[w] # "submit"
             /\ \A v \in Others(w) : staged'[v] = staged[v] /\ pc'[v] = pc[v]
             /\ UNCHANGED <<call, finding>>
  <2>1. CASE LoseReservation(w) \/ LookUpClaim(w) \/ ScanResults(w)
             \/ RequestRebilling(w) \/ ReadTail(w) \/ InsertEscalation(w)
    BY <2>1 DEF LoseReservation, LookUpClaim, ScanResults, RequestRebilling, ReadTail,
       InsertEscalation, Record, Goto, OneClaimInv, TypeOK, tables, Others
  <2>2. CASE AmendClaim(w)
    BY <2>2 DEF AmendClaim, Abort, Forget, Record, Goto, OneClaimInv, TypeOK, tables,
       Others
  <2>3. CASE SubmitClaim(w) \/ FlipResults(w)
    BY <2>3 DEF SubmitClaim, FlipResults, Record, Goto, OneClaimInv, TypeOK, tables,
       Others
  <2>4. CASE AppendAudit(w)
    BY <2>4 DEF AppendAudit, Abort, Forget, Goto, OneClaimInv, TypeOK, tables, Others
  <2>5. CASE Crash(w)
    BY <2>5 DEF Crash, Forget, OneClaimInv, TypeOK, tables, Others
  <2>. QED
    BY <1>1, <2>1, <2>2, <2>3, <2>4, <2>5 DEF Step
<1>2. ASSUME NEW w \in Workers, Step(w) \/ Crash(w)
      PROVE  SubmitHolds'
  BY <1>1, <1>2, SubmitStays DEF Others
<1>3. ASSUME NEW w \in Workers, NEW f \in Findings, Begin(w, f)
      PROVE  SubmitHolds'
  <2>1. /\ UNCHANGED <<claims, staged>>
        /\ pc'[w] # "submit"
        /\ \A v \in Others(w) :
              pc'[v] = pc[v] /\ call'[v] = call[v] /\ finding'[v] = finding[v]
    BY <1>3 DEF Begin, Record, Goto, OneClaimInv, TypeOK, tables, Others
  <2>. QED
    BY <2>1, SubmitStays DEF Others
<1>4. CASE ResetActionTables \/ RewriteResults \/ UNCHANGED vars
  <2>1. claims' \subseteq claims /\ UNCHANGED <<pc, staged, call, finding>>
    BY <1>4 DEF ResetActionTables, RewriteResults, vars, tables
  <2>. QED
    BY <2>1, SubmitStays
<1>. QED
  BY <1>2, <1>3, <1>4 DEF Next, Done

LEMMA SubmitHoldsNext == OneClaimInv /\ SubmitHolds /\ [Next]_vars => SubmitHolds'
  BY ReserveClaimHolds, CommitHolds, OthersHold

LEMMA LodgedStep ==
    ASSUME OneClaimInv, SubmitHolds, [Next]_vars,
           NEW x \in insurerCalls', x \notin insurerCalls
    PROVE  /\ \A c \in claims : ~SameClaim(c, x)
           /\ \A w \in Workers : \A c \in staged[w].claims :
                  SameClaim(c, x) => c.call = x.call
<1>1. PICK w \in Workers : SubmitClaim(w)
  BY DEF Next, Step, Done, vars, external, Begin, Crash, ReserveClaim, LoseReservation,
     LookUpClaim, AmendClaim, Abort, ScanResults, FlipResults, RequestRebilling,
     InsertEscalation, ReadTail, AppendAudit, Commit, ResetActionTables, RewriteResults
<1>2. pc[w] = "submit" /\ x.call = call[w] /\ SameClaim(x, finding[w])
  BY <1>1 DEF SubmitClaim, SameClaim
<1>3. PICK held \in staged[w].claims : held.call = call[w] /\ SameClaim(held, finding[w])
  BY <1>2 DEF SubmitHolds
<1>. QED
  BY <1>2, <1>3 DEF SubmitHolds, OneClaimInv, ReservationsExclusive, SameClaim

(* Whoever contacts the insurer holds the only reservation of the leak,    *)
(* and no claim for it has been committed: two workers never both contact  *)
(* it on the strength of one reservation (the savepoint of                 *)
(* create_commission_claim comes before submit_claim).                     *)
THEOREM LodgedUnderReservationAlways == Spec => LodgedUnderReservation
<1>1. Init => OneClaimInv /\ SubmitHolds
  BY InitType
  DEF Init, OneClaimInv, OneActiveClaim, ReservationsExclusive, NoRows, SubmitHolds
<1>2. OneClaimInv /\ SubmitHolds /\ [Next]_vars
         => \A x \in insurerCalls' \ insurerCalls :
               /\ \A c \in claims : ~SameClaim(c, x)
               /\ \A w \in Workers : \A c \in staged[w].claims :
                      SameClaim(c, x) => c.call = x.call
  BY LodgedStep
<1>. QED
  BY <1>1, <1>2, OneClaimNext, SubmitHoldsNext, PTL DEF Spec, LodgedUnderReservation

-----------------------------------------------------------------------------
(* The audit chain *)

(* The committed rows: VerifyAuditChain, and that sequence_no identifies   *)
(* its row.                                                                *)
ChainIntact ==
    /\ IsFiniteSet(audit)
    /\ VerifyAuditChain
    /\ \A r, s \in audit : r.seq = s.seq => r = s

(* A row continues the committed chain: it starts it, or follows a         *)
(* committed row, and no committed row has its number.                     *)
Continues(r) ==
    /\ ~SeqTaken(r.seq)
    /\ \/ r.seq = 1 /\ r.prev = Genesis
       \/ \E last \in audit : r.seq = last.seq + 1 /\ r.prev = last.hash

(* What makes VerifyAuditChain inductive: the tail a worker has read is    *)
(* committed, though it may be stale; an open row continues the chain; and *)
(* no two open rows have the same number.                                  *)
OpenRowsContinue ==
    /\ \A w \in Workers : read[w].audit \subseteq audit
    /\ \A w \in Workers : \A r \in staged[w].audit : Continues(r)
    /\ \A w, v \in Workers : \A r \in staged[w].audit : \A s \in staged[v].audit :
           w = v \/ r.seq # s.seq
    /\ \A w \in Workers : \A r, s \in staged[w].audit : r = s

ChainInv == TypeOK /\ ChainIntact /\ OpenRowsContinue

(* A step that keeps the committed rows and opens and reads no others      *)
(* keeps the invariant.                                                    *)
LEMMA ChainStutter ==
    ASSUME ChainInv,
           audit' = audit,
           \A w \in Workers : /\ read'[w].audit \subseteq read[w].audit
                              /\ staged'[w].audit \subseteq staged[w].audit
    PROVE  ChainIntact' /\ OpenRowsContinue'
<1>1. ChainIntact'
  BY DEF ChainInv, ChainIntact, VerifyAuditChain
<1>2. \A w \in Workers : read'[w].audit \subseteq audit'
  BY DEF ChainInv, OpenRowsContinue
<1>3. \A w \in Workers : \A r \in staged'[w].audit : Continues(r)'
  BY DEF ChainInv, OpenRowsContinue, Continues, SeqTaken
<1>4. \A w, v \in Workers : \A r \in staged'[w].audit : \A s \in staged'[v].audit :
          w = v \/ r.seq # s.seq
  BY DEF ChainInv, OpenRowsContinue
<1>5. \A w \in Workers : \A r, s \in staged'[w].audit : r = s
  BY DEF ChainInv, OpenRowsContinue
<1>. QED
  BY <1>1, <1>2, <1>3, <1>4, <1>5 DEF OpenRowsContinue

LEMMA ForgetKeepsChain ==
    ASSUME TypeOK, NEW w \in Workers, Forget(w)
    PROVE  \A v \in Workers : /\ read'[v].audit \subseteq read[v].audit
                              /\ staged'[v].audit \subseteq staged[v].audit
  BY DEF TypeOK, Forget, NoRows, NoRead

LEMMA AbortChain ==
    ASSUME ChainInv, NEW w \in Workers, Abort(w)
    PROVE  ChainIntact' /\ OpenRowsContinue'
  BY ForgetKeepsChain, ChainStutter DEF Abort, tables, ChainInv

LEMMA ReadTailChain ==
    ASSUME ChainInv, NEW w \in Workers, ReadTail(w)
    PROVE  ChainIntact' /\ OpenRowsContinue'
<1>1. audit' = audit /\ staged' = staged
  BY DEF ReadTail, tables
<1>2. \A v \in Workers : read'[v].audit \subseteq audit
  BY DEF ReadTail, LastRows, ChainInv, TypeOK, OpenRowsContinue
<1>3. ChainIntact'
  BY <1>1 DEF ChainInv, ChainIntact, VerifyAuditChain
<1>4. \A v \in Workers : \A r \in staged'[v].audit : Continues(r)'
  BY <1>1 DEF ChainInv, OpenRowsContinue, Continues, SeqTaken
<1>. QED
  BY <1>1, <1>2, <1>3, <1>4 DEF ChainInv, OpenRowsContinue

LEMMA AppendAuditChain ==
    ASSUME ChainInv, NEW w \in Workers, AppendAudit(w)
    PROVE  ChainIntact' /\ OpenRowsContinue'
<1> DEFINE new == NextRow(w)
<1>1. CASE Abort(w)
  BY <1>1, AbortChain
<1>2. CASE /\ ~SeqTaken(new.seq)
           /\ staged' = [staged EXCEPT ![w].audit = {new}]
           /\ UNCHANGED <<tables, read>>
  <2>1. /\ audit' = audit /\ read' = read
        /\ staged'[w].audit = {new}
        /\ \A v \in Workers : v # w => staged'[v] = staged[v]
    BY <1>2 DEF tables, ChainInv, TypeOK
  <2>2. \A v \in Workers : v # w => \A r \in staged[v].audit : r.seq # new.seq
    BY DEF AppendAudit, Others
  <2>3. Continues(new)
    BY <1>2, NextRowIs DEF Continues, ChainInv, OpenRowsContinue
  <2> HIDE DEF new
  <2>4. ChainIntact'
    BY <2>1 DEF ChainInv, ChainIntact, VerifyAuditChain
  <2>5. \A v \in Workers : \A r \in staged'[v].audit : Continues(r)
    BY <2>1, <2>3 DEF ChainInv, OpenRowsContinue
  <2>6. \A v \in Workers : \A r \in staged'[v].audit : Continues(r)'
    BY <2>1, <2>5 DEF Continues, SeqTaken
  <2>7. \A u, v \in Workers : \A r \in staged'[u].audit : \A s \in staged'[v].audit :
            u = v \/ r.seq # s.seq
    BY <2>1, <2>2 DEF ChainInv, OpenRowsContinue
  <2>8. \A v \in Workers : \A r, s \in staged'[v].audit : r = s
    BY <2>1 DEF ChainInv, OpenRowsContinue
  <2>9. \A v \in Workers : read'[v].audit \subseteq audit'
    BY <2>1 DEF ChainInv, OpenRowsContinue
  <2>. QED
    BY <2>4, <2>6, <2>7, <2>8, <2>9 DEF OpenRowsContinue
<1>. QED
  BY <1>1, <1>2 DEF AppendAudit

(* The one place where the chain grows.  An open row continues the chain,  *)
(* and its number is free in a sequence without gaps: it is the next one.  *)
LEMMA OpenRowIsNext ==
    ASSUME ChainInv, NEW w \in Workers, NEW row \in staged[w].audit
    PROVE  row.seq = Cardinality(audit) + 1
<1>1. Cardinality(audit) \in Nat
  BY FS_CardinalityType DEF ChainInv, ChainIntact
<1>2. {r.seq : r \in audit} = 1..Cardinality(audit)
  BY DEF ChainInv, ChainIntact, VerifyAuditChain
<1>3. row.seq \in Nat \ {0}
  BY DEF ChainInv, TypeOK, AuditRow
<1>4. row.seq \notin 1..Cardinality(audit)
  <2>1. row.seq \notin {r.seq : r \in audit}
    BY DEF ChainInv, OpenRowsContinue, Continues, SeqTaken
  <2>. QED
    BY <1>2, <2>1
<1>5. row.seq = 1 \/ \E n \in 1..Cardinality(audit) : row.seq = n + 1
  <2>1. row.seq = 1 \/ \E last \in audit : row.seq = last.seq + 1
    BY DEF ChainInv, OpenRowsContinue, Continues
  <2>. QED
    BY <1>2, <2>1
<1>. QED
  BY <1>1, <1>3, <1>4, <1>5

LEMMA CommitChain ==
    ASSUME ChainInv, NEW w \in Workers, Commit(w)
    PROVE  ChainIntact' /\ OpenRowsContinue'
<1>1. /\ audit' = audit \cup staged[w].audit
      /\ Forget(w)
  BY DEF Commit
<1>2. \A v \in Workers : /\ read'[v].audit \subseteq read[v].audit
                         /\ staged'[v].audit \subseteq staged[v].audit
  BY <1>1, ForgetKeepsChain DEF ChainInv
<1>3. CASE staged[w].audit = {}
  BY <1>1, <1>2, <1>3, ChainStutter
<1>4. CASE staged[w].audit # {}
  <2>1. PICK row : row \in staged[w].audit
    BY <1>4
  <2>2. staged[w].audit = {row}
    BY <2>1 DEF ChainInv, OpenRowsContinue
  <2> DEFINE n == Cardinality(audit)
  <2>3. audit' = audit \cup {row}
    BY <1>1, <2>2
  <2>4. row.seq = n + 1
    BY <2>1, OpenRowIsNext
  <2>5. n \in Nat /\ IsFiniteSet(audit)
    BY FS_CardinalityType DEF ChainInv, ChainIntact
  <2>6. {r.seq : r \in audit} = 1..n
    BY DEF ChainInv, ChainIntact, VerifyAuditChain
  <2> HIDE DEF n
  <2>7. \A r \in audit : r.seq \in 1..n
    BY <2>6
  <2>8. row \notin audit
    BY <2>4, <2>5, <2>7
  <2>9. IsFiniteSet(audit') /\ Cardinality(audit') = n + 1
    BY <2>3, <2>5, <2>8, FS_AddElement DEF n
  <2>10. {r.seq : r \in audit'} = 1..(n + 1)
    <3>1. {r.seq : r \in audit'} = {r.seq : r \in audit} \cup {row.seq}
      BY <2>3
    <3>. QED
      BY <2>4, <2>5, <2>6, <3>1
  <2>11. /\ \A r, s \in audit : r.seq = s.seq => r = s
         /\ \A r \in audit : r.seq = 1 => r.prev = Genesis
         /\ \A r, s \in audit : s.seq = r.seq + 1 => s.prev = r.hash
    BY DEF ChainInv, ChainIntact, VerifyAuditChain
  <2>12. \/ row.seq = 1 /\ row.prev = Genesis
         \/ \E last \in audit : row.seq = last.seq + 1 /\ row.prev = last.hash
    BY <2>1 DEF ChainInv, OpenRowsContinue, Continues
  <2>13. \A r, s \in audit' : r.seq = s.seq => r = s
    BY <2>3, <2>4, <2>5, <2>7, <2>11
  <2>14. \A r \in audit' : r.seq = 1 => r.prev = Genesis
    BY <2>3, <2>4, <2>5, <2>7, <2>11, <2>12
  <2>15. \A r, s \in audit' : s.seq = r.seq + 1 => s.prev = r.hash
    <3>1. \A r \in audit : row.seq = r.seq + 1 => row.prev = r.hash
      BY <2>5, <2>7, <2>11, <2>12
    <3>. QED
      BY <2>3, <2>4, <2>5, <2>7, <2>11, <3>1
  <2>16. ChainIntact'
    BY <2>9, <2>10, <2>13, <2>14, <2>15 DEF ChainIntact, VerifyAuditChain
  <2>17. \A v \in Workers : \A r \in staged'[v].audit : Continues(r)'
    <3> SUFFICES ASSUME NEW v \in Workers, NEW r \in staged'[v].audit
                 PROVE  Continues(r)'
      OBVIOUS
    <3>1. v # w
      BY <1>1 DEF Forget, NoRows, ChainInv, TypeOK
    <3>2. r \in staged[v].audit /\ r.seq # row.seq
      BY <1>2, <2>1, <3>1 DEF ChainInv, OpenRowsContinue
    <3>3. Continues(r)
      BY <3>2 DEF ChainInv, OpenRowsContinue
    <3>. QED
      BY <2>3, <3>2, <3>3 DEF Continues, SeqTaken
  <2>18. \A v \in Workers : read'[v].audit \subseteq audit'
    BY <1>2, <2>3 DEF ChainInv, OpenRowsContinue
  <2>19. \A u, v \in Workers : \A r \in staged'[u].audit : \A s \in staged'[v].audit :
             u = v \/ r.seq # s.seq
    BY <1>2 DEF ChainInv, OpenRowsContinue
  <2>20. \A v \in Workers : \A r, s \in staged'[v].audit : r = s
    BY <1>2 DEF ChainInv, OpenRowsContinue
  <2>. QED
    BY <2>16, <2>17, <2>18, <2>19, <2>20 DEF OpenRowsContinue
<1>. QED
  BY <1>3, <1>4

(* The statements that neither read nor write audit_log. *)
LEMMA NotAuditing ==
    ASSUME TypeOK, NEW w \in Workers,
           \/ ReserveClaim(w) \/ LoseReservation(w) \/ LookUpClaim(w) \/ SubmitClaim(w)
           \/ ScanResults(w) \/ RequestRebilling(w) \/ InsertEscalation(w)
    PROVE  /\ audit' = audit
           /\ \A v \in Workers : /\ read'[v].audit = read[v].audit
                                 /\ staged'[v].audit = staged[v].audit
<1>1. CASE ReserveClaim(w)
  BY <1>1 DEF ReserveClaim, TypeOK, tables
<1>2. CASE LoseReservation(w)
  BY <1>2 DEF LoseReservation, tables
<1>3. CASE LookUpClaim(w)
  BY <1>3 DEF LookUpClaim, TypeOK, tables
<1>4. CASE SubmitClaim(w)
  <2> DEFINE lodged == {[c EXCEPT !.status = "submitted"] : c \in staged[w].claims}
  <2>1. staged' = [staged EXCEPT ![w].claims = lodged] /\ UNCHANGED <<tables, read>>
    BY <1>4 DEF SubmitClaim
  <2> HIDE DEF lodged
  <2>. QED
    BY <2>1 DEF TypeOK, tables
<1>5. CASE ScanResults(w)
  BY <1>5 DEF ScanResults, TypeOK, tables
<1>6. CASE RequestRebilling(w)
  BY <1>6 DEF RequestRebilling, tables
<1>7. CASE InsertEscalation(w)
  BY <1>7 DEF InsertEscalation, TypeOK, tables
<1>. QED
  BY <1>1, <1>2, <1>3, <1>4, <1>5, <1>6, <1>7

LEMMA AmendClaimChain ==
    ASSUME ChainInv, NEW w \in Workers, AmendClaim(w)
    PROVE  ChainIntact' /\ OpenRowsContinue'
<1> DEFINE found == {c \in claims : \E d \in read[w].claims : c.call = d.call}
           amended == {[c EXCEPT !.amount = finding[w].amount] : c \in found}
<1>1. CASE Abort(w)
  BY <1>1, AbortChain
<1>2. CASE staged' = [staged EXCEPT ![w].claims = amended] /\ UNCHANGED <<tables, read>>
  <2> HIDE DEF amended
  <2>1. /\ audit' = audit
        /\ \A v \in Workers : /\ read'[v].audit = read[v].audit
                              /\ staged'[v].audit = staged[v].audit
    BY <1>2 DEF ChainInv, TypeOK, tables
  <2>. QED
    BY <2>1, ChainStutter
<1>. QED
  BY <1>1, <1>2 DEF AmendClaim

LEMMA ChainNext == ChainInv /\ [Next]_vars => ChainInv'
<1> SUFFICES ASSUME ChainInv, [Next]_vars
             PROVE  ChainIntact' /\ OpenRowsContinue'
  BY NextType DEF ChainInv
<1>1. ASSUME NEW w \in Workers, Step(w)
      PROVE  ChainIntact' /\ OpenRowsContinue'
  <2>1. CASE AmendClaim(w)
    BY <2>1, AmendClaimChain
  <2>2. CASE ReadTail(w)
    BY <2>2, ReadTailChain
  <2>3. CASE AppendAudit(w)
    BY <2>3, AppendAuditChain
  <2>4. CASE Commit(w)
    BY <2>4, CommitChain
  <2>5. CASE FlipResults(w)
    BY <2>5, FlipResultsWrites, ChainStutter DEF ChainInv, tables
  <2>6. CASE \/ ReserveClaim(w) \/ LoseReservation(w) \/ LookUpClaim(w) \/ SubmitClaim(w)
             \/ ScanResults(w) \/ RequestRebilling(w) \/ InsertEscalation(w)
    BY <2>6, NotAuditing, ChainStutter DEF ChainInv
  <2>. QED
    BY <1>1, <2>1, <2>2, <2>3, <2>4, <2>5, <2>6 DEF Step
<1>2. ASSUME NEW w \in Workers, Crash(w)
      PROVE  ChainIntact' /\ OpenRowsContinue'
  BY <1>2, ForgetKeepsChain, ChainStutter DEF Crash, tables, ChainInv
<1>3. CASE \/ \E w \in Workers : \E f \in Findings : Begin(w, f)
           \/ ResetActionTables
           \/ RewriteResults
           \/ UNCHANGED vars
  <2>1. UNCHANGED <<audit, read, staged>>
    BY <1>3 DEF Begin, ResetActionTables, RewriteResults, vars, tables
  <2>. QED
    BY <2>1, ChainStutter
<1>. QED
  BY <1>1, <1>2, <1>3 DEF Next, Done

LEMMA ChainInit == Init => ChainInv
<1> SUFFICES ASSUME Init PROVE ChainIntact /\ OpenRowsContinue
  BY InitType DEF ChainInv
<1>1. audit = {} /\ IsFiniteSet(audit) /\ Cardinality(audit) = 0
  BY FS_EmptySet DEF Init
<1>2. ChainIntact
  BY <1>1 DEF ChainIntact, VerifyAuditChain
<1>3. \A w \in Workers : read[w].audit = {} /\ staged[w].audit = {}
  BY DEF Init, NoRead, NoRows
<1>. QED
  BY <1>2, <1>3 DEF OpenRowsContinue

(* The committed audit rows verify at every moment, for any number of      *)
(* concurrent writers that each compute their row from a tail read before  *)
(* the others committed, and whatever crashes (record_audit, the UNIQUE    *)
(* sequence_no and verify_audit_chain).                                    *)
THEOREM AuditChainVerifies == Spec => []VerifyAuditChain
  BY ChainInit, ChainNext, PTL DEF Spec, ChainInv, ChainIntact

-----------------------------------------------------------------------------
(* The audit table implements the append-only log of AuditLog              *)

(* A row carries the hash of what it follows and what it records.          *)
Hashed(r) == r.hash = ChainHash(r.prev, r.event)

HashInv ==
    /\ \A r \in audit : Hashed(r)
    /\ \A w \in Workers : \A r \in staged[w].audit : Hashed(r)

(* The committed rows change only by a commit, the open ones only by the   *)
(* INSERT of record_audit.                                                 *)
Quiet ==
    audit' = audit /\ \A w \in Workers : staged'[w].audit \subseteq staged[w].audit
Publishes(w) ==
    /\ audit' = audit \cup staged[w].audit
    /\ \A v \in Workers : staged'[v].audit \subseteq staged[v].audit
Opens(w) ==
    /\ audit' = audit
    /\ staged'[w].audit = {NextRow(w)}
    /\ \A v \in Workers \ {w} : staged'[v].audit \subseteq staged[v].audit

LEMMA AuditSteps ==
    ASSUME ChainInv, [Next]_vars
    PROVE  Quiet \/ \E w \in Workers : Publishes(w) \/ Opens(w)
<1> USE DEF ChainInv
<1>1. ASSUME NEW w \in Workers, Step(w)
      PROVE  Quiet \/ Publishes(w) \/ Opens(w)
  <2>1. CASE AmendClaim(w)
    <3> DEFINE found == {c \in claims : \E d \in read[w].claims : c.call = d.call}
               amended == {[c EXCEPT !.amount = finding[w].amount] : c \in found}
    <3>1. CASE Abort(w)
      BY <3>1, ForgetKeepsChain DEF Abort, Quiet, tables
    <3>2. CASE staged' = [staged EXCEPT ![w].claims = amended] /\ UNCHANGED tables
      <4> HIDE DEF amended
      <4> QED BY <3>2 DEF Quiet, TypeOK, tables
    <3> QED BY <2>1, <3>1, <3>2 DEF AmendClaim
  <2>2. CASE ReadTail(w)
    BY <2>2 DEF ReadTail, Quiet, tables
  <2>3. CASE AppendAudit(w)
    <3>1. CASE Abort(w)
      BY <3>1, ForgetKeepsChain DEF Abort, Quiet, tables
    <3>2. CASE staged' = [staged EXCEPT ![w].audit = {NextRow(w)}] /\ UNCHANGED tables
      <4> DEFINE new == {NextRow(w)}
      <4>1. staged' = [staged EXCEPT ![w].audit = new]
        BY <3>2
      <4> HIDE DEF new
      <4>2. /\ staged'[w].audit = new
            /\ \A v \in Workers \ {w} : staged'[v] = staged[v]
        BY <4>1 DEF TypeOK
      <4> QED BY <3>2, <4>2 DEF Opens, tables, new
    <3> QED BY <2>3, <3>1, <3>2 DEF AppendAudit
  <2>4. CASE Commit(w)
    BY <2>4, ForgetKeepsChain DEF Commit, Publishes
  <2>5. CASE FlipResults(w)
    BY <2>5, FlipResultsWrites DEF Quiet, tables
  <2>6. CASE \/ ReserveClaim(w) \/ LoseReservation(w) \/ LookUpClaim(w) \/ SubmitClaim(w)
             \/ ScanResults(w) \/ RequestRebilling(w) \/ InsertEscalation(w)
    BY <2>6, NotAuditing DEF Quiet
  <2> QED BY <1>1, <2>1, <2>2, <2>3, <2>4, <2>5, <2>6 DEF Step
<1>2. ASSUME NEW w \in Workers, Crash(w) PROVE Quiet
  BY <1>2, ForgetKeepsChain DEF Crash, Quiet, tables
<1>3. CASE \/ \E w \in Workers : \E f \in Findings : Begin(w, f)
           \/ ResetActionTables
           \/ RewriteResults
           \/ UNCHANGED vars
  <2>1. UNCHANGED <<audit, staged>>
    BY <1>3 DEF Begin, ResetActionTables, RewriteResults, vars, tables
  <2> QED BY <2>1 DEF Quiet
<1> QED BY <1>1, <1>2, <1>3 DEF Next, Done

LEMMA NextRowHashed ==
    ASSUME NEW w \in Workers
    PROVE  Hashed(NextRow(w))
<1>1. \A seq, prev, payload : Hashed(Link(seq, prev, payload))
  BY DEF Hashed, Link
<1> QED BY <1>1 DEF NextRow

LEMMA HashNext == ChainInv /\ HashInv /\ [Next]_vars => HashInv'
<1> SUFFICES ASSUME ChainInv, HashInv, [Next]_vars PROVE HashInv'
  OBVIOUS
<1> USE DEF HashInv
<1>1. \A r : Hashed(r)' <=> Hashed(r)
  BY DEF Hashed
<1>2. CASE Quiet
  BY <1>1, <1>2 DEF Quiet
<1>3. ASSUME NEW w \in Workers, Publishes(w) PROVE HashInv'
  BY <1>1, <1>3 DEF Publishes
<1>4. ASSUME NEW w \in Workers, Opens(w) PROVE HashInv'
  BY <1>1, <1>4, NextRowHashed DEF Opens
<1> QED BY <1>2, <1>3, <1>4, AuditSteps

-----------------------------------------------------------------------------
(* The committed rows in order: the row with number i is at place i.       *)
Ordered ==
    /\ AuditInOrder \in Seq(AuditRow)
    /\ Cardinality(audit) \in Nat
    /\ Len(AuditInOrder) = Cardinality(audit)
    /\ \A r \in audit : r.seq \in 1..Cardinality(audit) /\ AuditInOrder[r.seq] = r
    /\ \A i \in 1..Cardinality(audit) : AuditInOrder[i] \in audit /\ AuditInOrder[i].seq = i

LEMMA InOrder == ChainInv => Ordered
<1> SUFFICES ASSUME ChainInv PROVE Ordered
  OBVIOUS
<1> DEFINE n == Cardinality(audit)
           At(i) == CHOOSE r \in audit : r.seq = i
<1>1. n \in Nat
  BY FS_CardinalityType DEF ChainInv, ChainIntact
<1>2. {r.seq : r \in audit} = 1..n
  BY DEF ChainInv, ChainIntact, VerifyAuditChain
<1>3. audit \subseteq AuditRow /\ \A r, s \in audit : r.seq = s.seq => r = s
  BY DEF ChainInv, ChainIntact, TypeOK
<1>4. AuditInOrder = [i \in 1..n |-> At(i)]
  BY DEF AuditInOrder
<1> HIDE DEF n
<1>5. \A i \in 1..n : At(i) \in audit /\ At(i).seq = i
  BY <1>2
<1>6. \A r \in audit : r.seq \in 1..n /\ At(r.seq) = r
  BY <1>2, <1>3, <1>5
<1> HIDE DEF At
<1>7. AuditInOrder \in [1..n -> AuditRow]
  BY <1>3, <1>4, <1>5
<1>8. AuditInOrder \in Seq(AuditRow) /\ Len(AuditInOrder) = n
  BY <1>1, <1>7
<1> QED BY <1>1, <1>4, <1>5, <1>6, <1>8 DEF n, Ordered

(* The same after a step.                                                  *)
LEMMA InOrderAfter == ChainInv' => Ordered'
  BY InOrder, PTL

(* A commit appends its row to the rows in order.                          *)
LEMMA RowAppended ==
    ASSUME ChainInv, ChainInv', NEW w \in Workers, Publishes(w), NEW row \in staged[w].audit
    PROVE  /\ row.seq = Cardinality(audit) + 1
           /\ Cardinality(audit') = Cardinality(audit) + 1
           /\ AuditInOrder' = Append(AuditInOrder, row)
<1> DEFINE n == Cardinality(audit)
<1>1. audit' = audit \cup {row}
  BY DEF Publishes, ChainInv, OpenRowsContinue
<1>2. row.seq = n + 1
  BY OpenRowIsNext
<1>3. row \in AuditRow
  BY DEF ChainInv, TypeOK
<1>4. /\ AuditInOrder \in Seq(AuditRow) /\ n \in Nat /\ Len(AuditInOrder) = n
      /\ \A r \in audit : r.seq \in 1..n /\ AuditInOrder[r.seq] = r
      /\ \A i \in 1..n : AuditInOrder[i] \in audit /\ AuditInOrder[i].seq = i
  BY InOrder DEF Ordered
<1>5. row \notin audit
  BY <1>2, <1>4
<1>6. Cardinality(audit') = n + 1
  BY <1>1, <1>5, FS_AddElement DEF ChainInv, ChainIntact
<1>7. /\ AuditInOrder' \in Seq(AuditRow) /\ Len(AuditInOrder') = n + 1
      /\ \A r \in audit' : AuditInOrder'[r.seq] = r
  <2>1. /\ AuditInOrder' \in Seq(AuditRow)' /\ Len(AuditInOrder)' = Cardinality(audit)'
        /\ \A r \in audit' : AuditInOrder'[r.seq] = r
    BY InOrderAfter DEF Ordered
  <2> QED BY <1>6, <2>1
<1> HIDE DEF n
<1> DEFINE old == AuditInOrder
           new == AuditInOrder'
<1>8. \A i \in 1..n : new[i] = old[i]
  BY <1>1, <1>4, <1>7
<1>9. new[n + 1] = row
  BY <1>1, <1>2, <1>7
<1> HIDE DEF old, new
<1>10. new = Append(old, row)
  <2>1. /\ Append(old, row) \in Seq(AuditRow) /\ Len(Append(old, row)) = n + 1
        /\ \A i \in 1..n : Append(old, row)[i] = old[i]
        /\ Append(old, row)[n + 1] = row
    BY <1>3, <1>4 DEF old
  <2>2. \A i \in 1..(n + 1) : new[i] = Append(old, row)[i]
    BY <1>4, <1>8, <1>9, <2>1
  <2>3. new \in Seq(AuditRow) /\ Len(new) = n + 1
    BY <1>7 DEF new
  <2> QED BY <2>1, <2>2, <2>3, SeqEqual
<1> QED BY <1>2, <1>6, <1>10 DEF n, old, new

(* ... and the row is chained to the last.                                 *)
LEMMA PublishAppends ==
    ASSUME ChainInv, ChainInv', HashInv, NEW w \in Workers, Publishes(w)
    PROVE  [Log!Next]_AuditInOrder
<1> DEFINE n == Cardinality(audit)
<1>1. CASE staged[w].audit = {}
  <2>1. audit' = audit
    BY <1>1 DEF Publishes
  <2> QED BY <2>1 DEF AuditInOrder
<1>2. CASE staged[w].audit # {}
  <2>1. PICK row : row \in staged[w].audit
    BY <1>2
  <2>2. row.seq = n + 1 /\ AuditInOrder' = Append(AuditInOrder, row)
    BY <2>1, RowAppended
  <2>3. row \in AuditRow /\ Hashed(row)
    BY <2>1 DEF ChainInv, TypeOK, HashInv
  <2>4. /\ AuditInOrder \in Seq(AuditRow) /\ n \in Nat /\ Len(AuditInOrder) = n
        /\ \A r \in audit : r.seq \in 1..n /\ AuditInOrder[r.seq] = r
    BY InOrder DEF Ordered
  <2> HIDE DEF n
  <2>5. row.prev = Log!LastHash
    <3>1. \/ row.seq = 1 /\ row.prev = Genesis
          \/ \E last \in audit : row.seq = last.seq + 1 /\ row.prev = last.hash
      BY <2>1 DEF ChainInv, OpenRowsContinue, Continues
    <3>2. CASE row.seq = 1 /\ row.prev = Genesis
      <4>1. n = 0
        BY <2>2, <2>4, <3>2
      <4>2. AuditInOrder = << >>
        BY <2>4, <4>1, EmptySeq
      <4> QED BY <3>2, <4>2 DEF Log!LastHash, Log!Genesis, Genesis
    <3>3. ASSUME NEW last \in audit, row.seq = last.seq + 1, row.prev = last.hash
          PROVE  row.prev = Log!LastHash
      <4>1. last.seq = n /\ n \in 1..n
        BY <2>2, <2>4, <3>3
      <4>2. AuditInOrder[Len(AuditInOrder)] = last /\ AuditInOrder # << >>
        BY <2>4, <4>1
      <4> QED BY <3>3, <4>2 DEF Log!LastHash
    <3> QED BY <3>1, <3>2, <3>3
  <2>6. row = Log!Row(Len(AuditInOrder) + 1, row.event, Log!LastHash)
    BY <2>2, <2>3, <2>4, <2>5
    DEF AuditRow, Hashed, ChainHash, Log!Row, Log!ChainHash
  <2>7. Log!AppendRow(row.event)
    BY <2>2, <2>6 DEF Log!AppendRow
  <2>8. row \in {AuditInOrder'[i] : i \in DOMAIN AuditInOrder'} /\ row.event \in Event
    <3>1. n + 1 \in DOMAIN AuditInOrder' /\ AuditInOrder'[n + 1] = row
      BY <2>2, <2>3, <2>4
    <3> QED BY <2>3, <3>1 DEF AuditRow
  <2> QED BY <2>7, <2>8 DEF Log!Next
<1> QED BY <1>1, <1>2

(* The audit table is an append-only log: rows are appended one at a time, *)
(* each chained to the row before it, and none is changed or removed, even *)
(* as workers collide, are rolled back or die (record_audit, and           *)
(* _reset_action_tables, which leaves audit_log alone).                    *)
THEOREM AuditIsAlwaysALog == Spec => AuditIsALog
<1>1. Init => HashInv
  BY DEF Init, HashInv, NoRows
<1>2. Init => Log!Init
  <2> SUFFICES ASSUME Init PROVE AuditInOrder = << >>
    BY DEF Log!Init
  <2>1. audit = {} /\ ChainInv
    BY ChainInit DEF Init
  <2>2. AuditInOrder \in Seq(AuditRow) /\ Len(AuditInOrder) = 0
    BY <2>1, InOrder, FS_EmptySet DEF Ordered
  <2> QED BY <2>2, EmptySeq
<1>3. ChainInv /\ ChainInv' /\ HashInv /\ [Next]_vars => [Log!Next]_AuditInOrder
  <2> SUFFICES ASSUME ChainInv, ChainInv', HashInv, [Next]_vars
               PROVE  [Log!Next]_AuditInOrder
    OBVIOUS
  <2>1. CASE audit' = audit
    BY <2>1 DEF AuditInOrder
  <2>2. CASE \E w \in Workers : Publishes(w)
    BY <2>2, PublishAppends
  <2> QED BY <2>1, <2>2, AuditSteps DEF Quiet, Opens
<1> QED BY <1>1, <1>2, <1>3, ChainInit, ChainNext, HashNext, PTL DEF Spec, AuditIsALog, Log!Spec
=============================================================================
