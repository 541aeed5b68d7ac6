--------------------------- MODULE EvidenceProofs ---------------------------
(***************************************************************************)
(* What the tables show was done, called outside and audited, for every    *)
(* number of workers, calls, resets and reconciliations, whatever crashes; *)
(* and that the tables implement the abstract ActionLedger, in which every *)
(* action takes effect in one step.                                        *)
(***************************************************************************)
EXTENDS ActionsProofs

Recording == {"tail", "append", "commit"}
Refusals == {"claim:BLOCKED", "rebill:BLOCKED"}

(* What the open transaction of w will show has happened, or will be       *)
(* audited by the row that commits with it.                                *)
ClaimsHeld(w) ==
    \A c \in staged[w].claims :
        \/ pc[w] = "submit" /\ c.call = call[w] /\ SameClaim(c, finding[w])
        \/ /\ pc[w] \in Recording
           /\ c.status = "submitted"
           /\ \E x \in insurerCalls : SameCall(x, c) /\ SameClaim(x, c)
           /\ \/ \E r \in audit : r.event.act = "claim" /\ r.event.call = c.call
              \/ event[w] = "claim" /\ c.call = call[w]

ResultsHeld(w) ==
    /\ \A r \in staged[w].results :
          /\ r.policy = finding[w].policy
          /\ \/ pc[w] = "rebill"
             \/ /\ pc[w] \in Recording /\ event[w] = "rebill"
                /\ \E b \in billingCalls : b.call = call[w] /\ b.policy = finding[w].policy
    /\ pc[w] = "flip" => \A r \in read[w].results : r.policy = finding[w].policy

RowHeld(w) ==
    /\ \A r \in staged[w].audit : pc[w] = "commit" /\ r.event = Payload(w)
    /\ pc[w] = "commit" => staged[w].audit # {}

OutcomeAudited(w) ==
    outcome[w] \in {"created", "existing", "blocked", "escalated"} =>
        \E r \in audit : r.event.call = call[w] /\ Result(r.event.act) = outcome[w]

Evident(w) == ClaimsHeld(w) /\ ResultsHeld(w) /\ RowHeld(w) /\ OutcomeAudited(w)

EvidenceInv ==
    /\ TypeOK
    /\ ClaimsAreEvidenced
    /\ DisputesAreEvidenced
    /\ \A w \in Workers : Evident(w)

-----------------------------------------------------------------------------
(* What a statement of one worker leaves alone *)

Grows ==
    audit \subseteq audit' /\ insurerCalls \subseteq insurerCalls'
    /\ billingCalls \subseteq billingCalls'

Same(v) ==
    /\ pc'[v] = pc[v] /\ finding'[v] = finding[v] /\ call'[v] = call[v]
    /\ event'[v] = event[v] /\ outcome'[v] = outcome[v]
    /\ read'[v] = read[v] /\ staged'[v] = staged[v]

Moves(w) == Step(w) \/ Crash(w) \/ \E f \in Findings : Begin(w, f)

LEMMA OthersSame ==
    ASSUME TypeOK, NEW w \in Workers, Moves(w)
    PROVE  \A v \in Others(w) : Same(v)
<1> USE DEF TypeOK, Others, Same
<1>1. CASE ReserveClaim(w) \/ LoseReservation(w) \/ LookUpClaim(w)
  BY <1>1 DEF ReserveClaim, LoseReservation, LookUpClaim, Goto, Record
<1>2. CASE AmendClaim(w)
  BY <1>2 DEF AmendClaim, Abort, Forget, Goto, Record
<1>3. CASE SubmitClaim(w) \/ ScanResults(w)
  BY <1>3 DEF SubmitClaim, ScanResults, Goto, Record
<1>4. CASE FlipResults(w)
  BY <1>4 DEF FlipResults, Goto, Record
<1>5. CASE RequestRebilling(w) \/ InsertEscalation(w) \/ ReadTail(w)
  BY <1>5 DEF RequestRebilling, InsertEscalation, ReadTail, Goto, Record
<1>6. CASE AppendAudit(w)
  BY <1>6 DEF AppendAudit, Abort, Forget, Goto
<1>7. CASE Commit(w)
  BY <1>7 DEF Commit, Forget, Goto
<1>8. CASE Crash(w)
  BY <1>8 DEF Crash, Forget
<1>9. ASSUME NEW f \in Findings, Begin(w, f) PROVE \A v \in Others(w) : Same(v)
  BY <1>9 DEF Begin, Goto, Record
<1> QED BY <1>1, <1>2, <1>3, <1>4, <1>5, <1>6, <1>7, <1>8, <1>9 DEF Moves, Step

LEMMA EvidenceGrows ==
    ASSUME [Next]_vars
    PROVE  Grows
<1> USE DEF Grows, tables, external
<1>1. ASSUME NEW w \in Workers, Step(w) PROVE Grows
  BY <1>1 DEF Step, ReserveClaim, LoseReservation, LookUpClaim, AmendClaim, Abort,
     SubmitClaim, ScanResults, FlipResults, RequestRebilling, InsertEscalation, ReadTail,
     AppendAudit, Commit
<1>2. ASSUME NEW w \in Workers, Crash(w) \/ \E f \in Findings : Begin(w, f) PROVE Grows
  BY <1>2 DEF Crash, Begin
<1>3. CASE ResetActionTables \/ RewriteResults \/ UNCHANGED vars
  BY <1>3 DEF ResetActionTables, RewriteResults, vars
<1> QED BY <1>1, <1>2, <1>3 DEF Next, Done

LEMMA EvidentStays ==
    ASSUME NEW v \in Workers, Evident(v), Same(v), Grows
    PROVE  Evident(v)'
<1> USE DEF Evident, Same, Grows
<1>1. ClaimsHeld(v)'
  BY DEF ClaimsHeld, SameClaim, SameCall
<1>2. ResultsHeld(v)'
  BY DEF ResultsHeld
<1>3. RowHeld(v)'
  BY DEF RowHeld, Payload
<1>4. OutcomeAudited(v)'
  BY DEF OutcomeAudited
<1> QED BY <1>1, <1>2, <1>3, <1>4

(* Rows that are still there are as evident as they were.                  *)
LEMMA TablesStay ==
    ASSUME EvidenceInv, Grows, claims' \subseteq claims,
           \A r \in results' : r.state = "disputed" => r \in results
    PROVE  ClaimsAreEvidenced' /\ DisputesAreEvidenced'
<1>1. ClaimsAreEvidenced'
  BY DEF EvidenceInv, Grows, ClaimsAreEvidenced, SameCall, SameClaim
<1>2. DisputesAreEvidenced'
  BY DEF EvidenceInv, Grows, DisputesAreEvidenced
<1> QED BY <1>1, <1>2

-----------------------------------------------------------------------------
(* What a statement does to the worker that executes it                    *)

(* Nothing is held once a transaction is rolled back or committed.         *)
LEMMA NothingHeld ==
    ASSUME TypeOK, NEW w \in Workers, Forget(w)
    PROVE  /\ staged'[w].claims = {} /\ staged'[w].results = {} /\ staged'[w].audit = {}
           /\ read'[w].results = {}
  BY DEF TypeOK, Forget, NoRows, NoRead

LEMMA GivenUp ==
    ASSUME TypeOK, NEW w \in Workers, Abort(w) \/ Crash(w)
    PROVE  Evident(w)'
<1>1. /\ staged'[w].claims = {} /\ staged'[w].results = {} /\ staged'[w].audit = {}
      /\ pc'[w] = "idle" /\ outcome'[w] \in {"raised", "crashed"}
  BY NothingHeld DEF Abort, Crash, TypeOK
<1> QED BY <1>1 DEF Evident, ClaimsHeld, ResultsHeld, RowHeld, OutcomeAudited

(* A worker at rest, or about to begin its action, holds nothing.          *)
LEMMA BeginHeld ==
    ASSUME EvidenceInv, NEW w \in Workers, NEW f \in Findings, Begin(w, f)
    PROVE  Evident(w)'
<1>1. staged[w].claims = {} /\ staged[w].results = {} /\ staged[w].audit = {}
  BY DEF EvidenceInv, Evident, ClaimsHeld, ResultsHeld, RowHeld, Begin, Recording
<1>2. /\ staged' = staged /\ outcome'[w] = "none"
      /\ pc'[w] \in {"escalate", "tail", "reserve", "scan"}
  BY DEF Begin, Record, Goto, EvidenceInv, TypeOK
<1> QED BY <1>1, <1>2 DEF Evident, ClaimsHeld, ResultsHeld, RowHeld, OutcomeAudited

(* The statements of create_commission_claim.                              *)
LEMMA ReserveClaimHeld ==
    ASSUME EvidenceInv, NEW w \in Workers, ReserveClaim(w)
    PROVE  Evident(w)'
<1> DEFINE new == NewClaim(w)
<1>1. /\ new.call = call[w] /\ SameClaim(new, finding[w])
  BY DEF NewClaim, SameClaim
<1> HIDE DEF new
<1>2. /\ staged'[w].claims = {new} /\ pc'[w] = "submit"
      /\ staged'[w].results = staged[w].results /\ staged'[w].audit = staged[w].audit
      /\ UNCHANGED <<audit, finding, call, outcome>>
  BY DEF ReserveClaim, Goto, EvidenceInv, TypeOK, tables, new
<1>3. staged[w].results = {} /\ staged[w].audit = {}
  BY DEF EvidenceInv, Evident, ResultsHeld, RowHeld, ReserveClaim, Recording
<1>4. ClaimsHeld(w)'
  BY <1>1, <1>2 DEF ClaimsHeld, SameClaim
<1> QED BY <1>2, <1>3, <1>4
        DEF EvidenceInv, Evident, ResultsHeld, RowHeld, OutcomeAudited

(* The statements that only read, of all three actions.                    *)
LEMMA ReadingHeld ==
    ASSUME EvidenceInv, NEW w \in Workers,
           LoseReservation(w) \/ LookUpClaim(w) \/ ScanResults(w)
    PROVE  Evident(w)'
<1>1. staged[w].claims = {} /\ staged[w].results = {} /\ staged[w].audit = {}
  BY DEF EvidenceInv, Evident, ClaimsHeld, ResultsHeld, RowHeld, LoseReservation,
     LookUpClaim, ScanResults, Recording
<1>2. /\ UNCHANGED <<audit, staged, call, outcome, finding>>
      /\ pc'[w] \in {"lookup", "amend", "tail", "flip"}
  BY DEF LoseReservation, LookUpClaim, ScanResults, Record, Goto, EvidenceInv, TypeOK,
     tables
<1>3. pc'[w] = "flip" => \A r \in read'[w].results : r.policy = finding[w].policy
  BY DEF LoseReservation, LookUpClaim, ScanResults, Record, Goto, EvidenceInv, TypeOK
<1> QED BY <1>1, <1>2, <1>3
        DEF EvidenceInv, Evident, ClaimsHeld, ResultsHeld, RowHeld, OutcomeAudited

LEMMA AmendClaimHeld ==
    ASSUME EvidenceInv, NEW w \in Workers, AmendClaim(w)
    PROVE  Evident(w)'
<1> DEFINE found == {c \in claims : \E d \in read[w].claims : c.call = d.call}
           amended == {[c EXCEPT !.amount = finding[w].amount] : c \in found}
<1>1. CASE Abort(w)
  BY <1>1, GivenUp DEF EvidenceInv
<1>2. CASE /\ staged' = [staged EXCEPT ![w].claims = amended]
           /\ Record(w, "claim:IDEMPOTENT")
           /\ UNCHANGED <<tables, external, finding, call, read, outcome, counters>>
  <2>1. ASSUME NEW c \in amended
        PROVE  /\ c.status = "submitted"
               /\ \E x \in insurerCalls : SameCall(x, c) /\ SameClaim(x, c)
               /\ \E r \in audit : r.event.act = "claim" /\ r.event.call = c.call
    <3>1. PICK b \in claims : c = [b EXCEPT !.amount = finding[w].amount]
      OBVIOUS
    <3>2. /\ c.status = b.status /\ c.call = b.call /\ c.policy = b.policy
          /\ c.reason = b.reason
      BY <3>1 DEF EvidenceInv, TypeOK, Claim
    <3> QED BY <3>2 DEF EvidenceInv, ClaimsAreEvidenced, SameCall, SameClaim
  <2> HIDE DEF amended
  <2>2. /\ staged'[w].claims = amended /\ pc'[w] = "tail"
        /\ staged'[w].results = staged[w].results /\ staged'[w].audit = staged[w].audit
        /\ UNCHANGED <<audit, insurerCalls, call, outcome>>
    BY <1>2 DEF EvidenceInv, TypeOK, Record, Goto, tables, external
  <2>3. staged[w].results = {} /\ staged[w].audit = {}
    BY DEF EvidenceInv, Evident, ResultsHeld, RowHeld, AmendClaim, Recording
  <2>4. ClaimsHeld(w)'
    BY <2>1, <2>2 DEF ClaimsHeld, Recording, SameCall, SameClaim
  <2> QED BY <2>2, <2>3, <2>4
          DEF EvidenceInv, Evident, ResultsHeld, RowHeld, OutcomeAudited
<1> QED BY <1>1, <1>2 DEF AmendClaim

LEMMA SubmitClaimHeld ==
    ASSUME EvidenceInv, NEW w \in Workers, SubmitClaim(w)
    PROVE  Evident(w)'
<1> DEFINE lodged == {[c EXCEPT !.status = "submitted"] : c \in staged[w].claims}
           sent   == [call |-> call[w], policy |-> finding[w].policy,
                      reason |-> finding[w].reason, amount |-> finding[w].amount]
<1>1. ASSUME NEW c \in lodged
      PROVE  c.status = "submitted" /\ c.call = call[w] /\ SameCall(sent, c) /\ SameClaim(sent, c)
  <2>1. PICK b \in staged[w].claims : c = [b EXCEPT !.status = "submitted"]
    OBVIOUS
  <2>2. b \in Claim /\ b.call = call[w] /\ SameClaim(b, finding[w])
    BY DEF EvidenceInv, TypeOK, Evident, ClaimsHeld, SubmitClaim, Recording
  <2> QED BY <2>1, <2>2 DEF Claim, SameCall, SameClaim
<1>2. staged' = [staged EXCEPT ![w].claims = lodged] /\ sent \in insurerCalls'
  BY DEF SubmitClaim
<1> HIDE DEF lodged, sent
<1>3. /\ staged'[w].claims = lodged /\ pc'[w] = "tail" /\ event'[w] = "claim"
      /\ staged'[w].results = staged[w].results /\ staged'[w].audit = staged[w].audit
      /\ UNCHANGED <<audit, call, outcome>>
  BY <1>2 DEF SubmitClaim, Record, Goto, EvidenceInv, TypeOK, tables
<1>4. staged[w].results = {} /\ staged[w].audit = {}
  BY DEF EvidenceInv, Evident, ResultsHeld, RowHeld, SubmitClaim, Recording
<1>5. ClaimsHeld(w)'
  BY <1>1, <1>2, <1>3 DEF ClaimsHeld, Recording, SameCall, SameClaim
<1> QED BY <1>3, <1>4, <1>5
        DEF EvidenceInv, Evident, ResultsHeld, RowHeld, OutcomeAudited

(* The statements of flag_for_rebilling.                                   *)
LEMMA FlipResultsHeld ==
    ASSUME EvidenceInv, NEW w \in Workers, FlipResults(w)
    PROVE  Evident(w)'
<1> DEFINE dirty == {r \in read[w].results : r.state # "disputed"}
           found == {r \in results : \E d \in dirty : SameResult(r, d)}
           flipped == {[r EXCEPT !.state = "disputed"] : r \in found}
<1>1. ASSUME NEW r \in flipped PROVE r.policy = finding[w].policy
  <2>1. PICK b \in results : /\ r = [b EXCEPT !.state = "disputed"]
                             /\ \E d \in read[w].results : SameResult(b, d)
    OBVIOUS
  <2>2. b.policy = finding[w].policy
    BY <2>1 DEF FlipResults, EvidenceInv, Evident, ResultsHeld, SameResult
  <2> QED BY <2>1, <2>2 DEF EvidenceInv, TypeOK, ResultRow
<1>2. \/ staged' = [staged EXCEPT ![w].results = flipped] /\ pc'[w] = "rebill"
      \/ staged' = staged /\ pc'[w] = "tail"
  BY DEF FlipResults, Record, Goto, EvidenceInv, TypeOK
<1> HIDE DEF flipped
<1>3. staged[w].claims = {} /\ staged[w].results = {} /\ staged[w].audit = {}
  BY DEF EvidenceInv, Evident, ClaimsHeld, ResultsHeld, RowHeld, FlipResults, Recording
<1>4. /\ staged'[w].claims = {} /\ staged'[w].audit = {}
      /\ \A r \in staged'[w].results : r \in flipped /\ pc'[w] = "rebill"
      /\ pc'[w] \in {"rebill", "tail"}
      /\ UNCHANGED <<audit, call, outcome, finding>>
  BY <1>2, <1>3 DEF EvidenceInv, TypeOK, FlipResults, tables
<1> QED BY <1>1, <1>4
        DEF EvidenceInv, Evident, ClaimsHeld, ResultsHeld, RowHeld, OutcomeAudited

LEMMA RequestRebillingHeld ==
    ASSUME EvidenceInv, NEW w \in Workers, RequestRebilling(w)
    PROVE  Evident(w)'
<1> DEFINE asked == [call |-> call[w], policy |-> finding[w].policy,
                     reason |-> finding[w].reason]
<1>1. \E b \in billingCalls' : b.call = call[w] /\ b.policy = finding[w].policy
  <2>1. asked \in billingCalls'
    BY DEF RequestRebilling
  <2> QED BY <2>1
<1>2. /\ pc'[w] = "tail" /\ event'[w] = "rebill"
      /\ UNCHANGED <<audit, staged, call, outcome, finding>>
  BY DEF RequestRebilling, Record, Goto, EvidenceInv, TypeOK, tables
<1>3. staged[w].claims = {} /\ staged[w].audit = {}
  BY DEF EvidenceInv, Evident, ClaimsHeld, RowHeld, RequestRebilling, Recording
<1>4. ResultsHeld(w)'
  BY <1>1, <1>2 DEF EvidenceInv, Evident, ResultsHeld, Recording
<1> QED BY <1>2, <1>3, <1>4
        DEF EvidenceInv, Evident, ClaimsHeld, RowHeld, OutcomeAudited

LEMMA InsertEscalationHeld ==
    ASSUME EvidenceInv, NEW w \in Workers, InsertEscalation(w)
    PROVE  Evident(w)'
<1>1. staged[w].claims = {} /\ staged[w].results = {} /\ staged[w].audit = {}
  BY DEF EvidenceInv, Evident, ClaimsHeld, ResultsHeld, RowHeld, InsertEscalation, Recording
<1>2. /\ staged'[w].claims = staged[w].claims /\ staged'[w].results = staged[w].results
      /\ staged'[w].audit = staged[w].audit
      /\ pc'[w] = "tail" /\ UNCHANGED <<audit, call, outcome>>
  BY DEF InsertEscalation, Record, Goto, EvidenceInv, TypeOK, tables
<1> QED BY <1>1, <1>2
        DEF EvidenceInv, Evident, ClaimsHeld, ResultsHeld, RowHeld, OutcomeAudited

(* The statements of record_audit.                                         *)
LEMMA ReadTailHeld ==
    ASSUME EvidenceInv, NEW w \in Workers, ReadTail(w)
    PROVE  Evident(w)'
<1>1. /\ pc[w] = "tail" /\ pc'[w] = "append"
      /\ UNCHANGED <<audit, insurerCalls, billingCalls, staged, call, outcome, finding, event>>
  BY DEF ReadTail, Goto, EvidenceInv, TypeOK, tables, external
<1>2. ClaimsHeld(w)'
  BY <1>1 DEF EvidenceInv, Evident, ClaimsHeld, Recording, SameCall, SameClaim
<1>3. ResultsHeld(w)'
  BY <1>1 DEF EvidenceInv, Evident, ResultsHeld, Recording
<1>4. RowHeld(w)'
  BY <1>1 DEF EvidenceInv, Evident, RowHeld
<1> QED BY <1>1, <1>2, <1>3, <1>4 DEF EvidenceInv, Evident, OutcomeAudited

LEMMA NextRowEvent ==
    ASSUME NEW w \in Workers PROVE NextRow(w).event = Payload(w)
<1>1. \A seq, prev, payload : Link(seq, prev, payload).event = payload
  BY DEF Link
<1> QED BY <1>1 DEF NextRow

LEMMA AppendAuditHeld ==
    ASSUME EvidenceInv, NEW w \in Workers, AppendAudit(w)
    PROVE  Evident(w)'
<1>1. CASE Abort(w)
  BY <1>1, GivenUp DEF EvidenceInv
<1>2. CASE /\ staged' = [staged EXCEPT ![w].audit = {NextRow(w)}]
           /\ Goto(w, "commit")
           /\ UNCHANGED <<tables, external, finding, call, event, read, outcome, counters>>
  <2> DEFINE new == {NextRow(w)}
  <2>1. staged' = [staged EXCEPT ![w].audit = new]
    BY <1>2
  <2>2. \A r \in new : r.event = Payload(w)
    BY NextRowEvent
  <2>3. new # {}
    OBVIOUS
  <2> HIDE DEF new
  <2>4. /\ pc[w] = "append" /\ pc'[w] = "commit"
        /\ staged'[w].claims = staged[w].claims /\ staged'[w].results = staged[w].results
        /\ staged'[w].audit = new
        /\ UNCHANGED <<audit, insurerCalls, billingCalls, call, outcome, finding, event>>
    BY <1>2, <2>1 DEF AppendAudit, Goto, EvidenceInv, TypeOK, tables, external
  <2>5. ClaimsHeld(w)'
    BY <2>4 DEF EvidenceInv, Evident, ClaimsHeld, Recording, SameCall, SameClaim
  <2>6. ResultsHeld(w)'
    BY <2>4 DEF EvidenceInv, Evident, ResultsHeld, Recording
  <2>7. RowHeld(w)'
    BY <2>2, <2>3, <2>4 DEF RowHeld, Payload
  <2> QED BY <2>4, <2>5, <2>6, <2>7 DEF EvidenceInv, Evident, OutcomeAudited
<1> QED BY <1>1, <1>2 DEF AppendAudit

(* The row that commits with what w holds.                                 *)
LEMMA CommittedRow ==
    ASSUME EvidenceInv, NEW w \in Workers, Commit(w)
    PROVE  \E r \in audit' : r.event = Payload(w)
  BY DEF EvidenceInv, Evident, RowHeld, Commit

LEMMA CommitHeld ==
    ASSUME EvidenceInv, NEW w \in Workers, Commit(w)
    PROVE  Evident(w)'
<1>1. /\ staged'[w].claims = {} /\ staged'[w].results = {} /\ staged'[w].audit = {}
  BY NothingHeld DEF EvidenceInv, Commit
<1>2. /\ pc'[w] \in {"idle", "escalate"} /\ audit \subseteq audit' /\ call' = call
      /\ outcome'[w] \in {outcome[w], Result(event[w])}
  BY DEF Commit, Goto, EvidenceInv, TypeOK
<1>3. PICK r \in audit' : r.event = Payload(w)
  BY CommittedRow
<1>4. r.event.act = event[w] /\ r.event.call = call[w]
  BY <1>3 DEF Payload
<1>5. OutcomeAudited(w)'
  <2>1. CASE outcome'[w] = Result(event[w])
    BY <1>2, <1>4, <2>1 DEF OutcomeAudited
  <2>2. CASE outcome'[w] = outcome[w]
    BY <1>2, <2>2 DEF EvidenceInv, Evident, OutcomeAudited
  <2> QED BY <1>2, <2>1, <2>2
<1> QED BY <1>1, <1>2, <1>5 DEF Evident, ClaimsHeld, ResultsHeld, RowHeld

-----------------------------------------------------------------------------
(* The tables *)

LEMMA CommitTables ==
    ASSUME EvidenceInv, NEW w \in Workers, Commit(w), Grows
    PROVE  ClaimsAreEvidenced' /\ DisputesAreEvidenced'
<1>1. PICK row \in audit' : row.event = Payload(w)
  BY CommittedRow
<1>2. row.event.act = event[w] /\ row.event.call = call[w]
  BY <1>1 DEF Payload
<1>3. pc[w] = "commit" /\ UNCHANGED <<insurerCalls, billingCalls>>
  BY DEF Commit, external
<1>4. ASSUME NEW c \in claims'
      PROVE  /\ c.status = "submitted"
             /\ \E x \in insurerCalls : SameCall(x, c) /\ SameClaim(x, c)
             /\ \E r \in audit' : r.event.act = "claim" /\ r.event.call = c.call
  <2>1. CASE c \in staged[w].claims
    BY <1>2, <1>3, <2>1 DEF EvidenceInv, Evident, ClaimsHeld, Grows
  <2>2. CASE c \in claims
    BY <2>2 DEF EvidenceInv, ClaimsAreEvidenced, Grows
  <2> QED BY <2>1, <2>2 DEF Commit
<1>5. ASSUME NEW r \in results', r.state = "disputed"
      PROVE  \E b \in billingCalls : \E a \in audit' :
                /\ b.policy = r.policy
                /\ a.event.act = "rebill"
                /\ a.event.call = b.call
  <2>1. CASE r \in staged[w].results
    BY <1>2, <1>3, <2>1 DEF EvidenceInv, Evident, ResultsHeld
  <2>2. CASE r \in results
    BY <1>5, <2>2 DEF EvidenceInv, DisputesAreEvidenced, Grows
  <2> QED BY <2>1, <2>2 DEF Commit
<1> QED BY <1>3, <1>4, <1>5
        DEF ClaimsAreEvidenced, DisputesAreEvidenced, SameCall, SameClaim

LEMMA MoveHeld ==
    ASSUME EvidenceInv, NEW w \in Workers, Moves(w)
    PROVE  Evident(w)'
<1>1. CASE Step(w)
  BY <1>1, ReserveClaimHeld, ReadingHeld, AmendClaimHeld, SubmitClaimHeld,
     FlipResultsHeld, RequestRebillingHeld, InsertEscalationHeld, ReadTailHeld,
     AppendAuditHeld, CommitHeld DEF Step
<1>2. CASE Crash(w)
  BY <1>2, GivenUp DEF EvidenceInv
<1>3. CASE \E f \in Findings : Begin(w, f)
  BY <1>3, BeginHeld
<1> QED BY <1>1, <1>2, <1>3 DEF Moves

LEMMA EvidenceNext == EvidenceInv /\ [Next]_vars => EvidenceInv'
<1> SUFFICES ASSUME EvidenceInv, [Next]_vars
             PROVE  /\ ClaimsAreEvidenced' /\ DisputesAreEvidenced'
                    /\ \A v \in Workers : Evident(v)'
  BY NextType DEF EvidenceInv
<1>1. Grows
  BY EvidenceGrows
<1>2. ASSUME NEW w \in Workers, Moves(w)
      PROVE  \A v \in Workers : Evident(v)'
  <2>1. Evident(w)'
    BY <1>2, MoveHeld
  <2>2. \A v \in Others(w) : Evident(v)'
    BY <1>1, <1>2, OthersSame, EvidentStays DEF EvidenceInv, Others
  <2> QED BY <2>1, <2>2 DEF Others
<1>3. ASSUME NEW w \in Workers, Moves(w)
      PROVE  ClaimsAreEvidenced' /\ DisputesAreEvidenced'
  <2>1. CASE Commit(w)
    BY <1>1, <2>1, CommitTables
  <2>2. CASE ~Commit(w)
    <3>1. UNCHANGED <<claims, results>>
      BY <1>3, <2>2 DEF Moves, Step, Begin, Crash, ReserveClaim, LoseReservation,
         LookUpClaim, AmendClaim, Abort, SubmitClaim, ScanResults, FlipResults,
         RequestRebilling, InsertEscalation, ReadTail, AppendAudit, tables
    <3> QED BY <1>1, <3>1, TablesStay
  <2> QED BY <2>1, <2>2
<1>4. CASE ResetActionTables \/ RewriteResults \/ UNCHANGED vars
  <2>1. \A v \in Workers : Same(v)
    BY <1>4 DEF ResetActionTables, RewriteResults, vars, Same
  <2>2. claims' \subseteq claims
    BY <1>4 DEF ResetActionTables, RewriteResults, vars, tables
  <2>3. \A r \in results' : r.state = "disputed" => r \in results
    <3>1. CASE ResetActionTables \/ UNCHANGED vars
      BY <3>1 DEF ResetActionTables, vars, tables
    <3>2. CASE RewriteResults
      <4>1. ASSUME NEW r \in results' PROVE r.state \in {"", "open"}
        <5>1. PICK P \in SUBSET Policies : \E values \in [P -> {"", "open"}] :
                 results' = {[policy |-> p, gen |-> generation + 1,
                              state |-> values[p]] : p \in P}
          BY <3>2 DEF RewriteResults
        <5>2. PICK values \in [P -> {"", "open"}] :
                 results' = {[policy |-> p, gen |-> generation + 1,
                              state |-> values[p]] : p \in P}
          BY <5>1
        <5>3. PICK p \in P : r = [policy |-> p, gen |-> generation + 1, state |-> values[p]]
          BY <5>2
        <5> QED BY <5>3
      <4> QED BY <4>1
    <3> QED BY <1>4, <3>1, <3>2
  <2>4. \A v \in Workers : Evident(v)'
    BY <1>1, <2>1, EvidentStays DEF EvidenceInv
  <2> QED BY <1>1, <2>2, <2>3, <2>4, TablesStay
<1> QED BY <1>2, <1>3, <1>4 DEF Next, Done, Moves

LEMMA EvidenceInit == Init => EvidenceInv
<1> SUFFICES ASSUME Init PROVE EvidenceInv
  OBVIOUS
<1>1. ClaimsAreEvidenced /\ DisputesAreEvidenced
  BY DEF Init, ClaimsAreEvidenced, DisputesAreEvidenced
<1>2. ASSUME NEW w \in Workers PROVE Evident(w)
  BY DEF Init, NoRows, Evident, ClaimsHeld, ResultsHeld, RowHeld, OutcomeAudited
<1> QED BY <1>1, <1>2, InitType DEF EvidenceInv

LEMMA EvidenceInvariance == Spec => []EvidenceInv
  BY EvidenceInit, EvidenceNext, PTL DEF Spec

(* Every visible claim was lodged with the insurer and audited by the call *)
(* that made it: no reservation is ever committed before                   *)
(* create_commission_claim has done both, whatever is rolled back.         *)
THEOREM ClaimsAreAlwaysEvidenced == Spec => []ClaimsAreEvidenced
  BY EvidenceInvariance, PTL DEF EvidenceInv

(* A result row reads disputed only after billing was asked and the flag   *)
(* audited, even if flips overlap and rows are rewritten under them        *)
(* (flag_for_rebilling).                                                   *)
THEOREM DisputesAreAlwaysEvidenced == Spec => []DisputesAreEvidenced
  BY EvidenceInvariance, PTL DEF EvidenceInv

(* Whatever route answers is in the audit trail, for every way through it. *)
THEOREM EveryOutcomeIsAudited == Spec => []EveryOutcomeAudited
<1>1. EvidenceInv => EveryOutcomeAudited
  BY DEF EvidenceInv, Evident, OutcomeAudited, EveryOutcomeAudited
<1> QED BY <1>1, EvidenceInvariance, PTL

-----------------------------------------------------------------------------
(* Refusals and the escalations that follow them: two transactions of one  *)
(* call of route.                                                          *)

Handoff(r, n) == r.event.act = "escalation" /\ r.event.call = n

Refusal(r, n) ==
    /\ r.event.act \in Refusals /\ r.event.call = n
    /\ r.event.gate \in {"NOT_CONFIRMED", "INVALID_REASON"}

(* Calls are numbered as they begin: two workers are never in the same     *)
(* call, and no row of a call precedes it.                                 *)
CallsNumbered ==
    /\ \A w \in Workers : call[w] <= begun
    /\ \A r \in audit : r.event.call <= begun
    /\ \A w \in Workers : \A v \in Others(w) :
          pc[w] # "idle" /\ pc[v] # "idle" => call[w] # call[v]

(* A call hands over at most once, at its end.                             *)
OneHandoff ==
    /\ \A r, s \in audit : r.event.act = "escalation" /\ Handoff(s, r.event.call) => r = s
    /\ \A w \in Workers : pc[w] # "idle" => \A r \in audit : ~Handoff(r, call[w])

(* A worker on its way to a human found the finding of high value, or has  *)
(* committed the refusal.                                                  *)
RefusedFirst(w) ==
    /\ pc[w] \in Recording /\ event[w] \in Refusals => ValidateAction(finding[w]) # "OK"
    /\ pc[w] = "escalate" =>
          HighValue(finding[w]) \/ \E b \in audit : Refusal(b, call[w])
    /\ \A e \in staged[w].escalations :
          /\ pc[w] \in Recording /\ event[w] = "escalation" /\ e.call = call[w]
          /\ e.why # "HIGH_VALUE" => \E b \in audit : Refusal(b, call[w])

(* An escalation has its audit row, which follows the refusal.             *)
HandedOver ==
    \A e \in escalations :
        /\ \E h \in audit : Handoff(h, e.call)
        /\ e.why # "HIGH_VALUE" =>
              \E b \in audit : /\ Refusal(b, e.call)
                               /\ \A h \in audit : Handoff(h, e.call) => b.seq < h.seq

HandoverInv ==
    /\ ChainInv /\ EvidenceInv
    /\ CallsNumbered /\ OneHandoff /\ HandedOver
    /\ \A w \in Workers : RefusedFirst(w)

-----------------------------------------------------------------------------
LEMMA RefusedStays ==
    ASSUME NEW v \in Workers, RefusedFirst(v), Same(v), Grows
    PROVE  RefusedFirst(v)'
  BY DEF RefusedFirst, Same, Grows, Refusal

LEMMA BeginRefused ==
    ASSUME HandoverInv, NEW w \in Workers, NEW f \in Findings, Begin(w, f)
    PROVE  RefusedFirst(w)'
<1>1. staged' = staged /\ staged[w].escalations = {} /\ finding'[w] = f
  BY DEF Begin, HandoverInv, RefusedFirst, ChainInv, TypeOK, Recording
<1>2. \/ HighValue(f) /\ pc'[w] = "escalate"
      \/ ValidateAction(f) # "OK" /\ pc'[w] = "tail"
      \/ pc'[w] \in {"reserve", "scan"}
  BY DEF Begin, Record, Goto, HandoverInv, ChainInv, TypeOK
<1> QED BY <1>1, <1>2 DEF RefusedFirst, Recording

(* The statements before record_audit, but for the INSERT of an escalation.*)
LEMMA WorkRefused ==
    ASSUME HandoverInv, NEW w \in Workers,
           \/ ReserveClaim(w) \/ LoseReservation(w) \/ LookUpClaim(w) \/ AmendClaim(w)
           \/ SubmitClaim(w) \/ ScanResults(w) \/ FlipResults(w) \/ RequestRebilling(w)
    PROVE  RefusedFirst(w)'
<1> USE DEF HandoverInv, ChainInv
<1>1. staged[w].escalations = {}
  BY DEF RefusedFirst, Recording, ReserveClaim, LoseReservation, LookUpClaim, AmendClaim,
     SubmitClaim, ScanResults, FlipResults, RequestRebilling
<1>2. staged'[w].escalations = staged[w].escalations \/ staged'[w].escalations = {}
  <2>1. CASE ReserveClaim(w) \/ LoseReservation(w) \/ LookUpClaim(w) \/ ScanResults(w)
             \/ RequestRebilling(w)
    BY <2>1 DEF TypeOK, ReserveClaim, LoseReservation, LookUpClaim, ScanResults,
       RequestRebilling
  <2>2. CASE AmendClaim(w)
    BY <2>2 DEF TypeOK, AmendClaim, Abort, Forget, NoRows
  <2>3. CASE SubmitClaim(w)
    BY <2>3 DEF TypeOK, SubmitClaim
  <2>4. CASE FlipResults(w)
    BY <2>4 DEF TypeOK, FlipResults
  <2> QED BY <2>1, <2>2, <2>3, <2>4
<1>3. /\ pc'[w] # "escalate"
      /\ pc'[w] \in Recording => event'[w] \notin Refusals
  <2>1. CASE ReserveClaim(w) \/ LoseReservation(w)
    BY <2>1 DEF TypeOK, ReserveClaim, LoseReservation, Goto, Recording
  <2>2. CASE LookUpClaim(w) \/ SubmitClaim(w) \/ ScanResults(w) \/ RequestRebilling(w)
    BY <2>2 DEF TypeOK, LookUpClaim, SubmitClaim, ScanResults, RequestRebilling, Record,
       Goto, Recording, Refusals
  <2>3. CASE AmendClaim(w)
    BY <2>3 DEF TypeOK, AmendClaim, Abort, Record, Goto, Recording, Refusals
  <2>4. CASE FlipResults(w)
    BY <2>4 DEF TypeOK, FlipResults, Record, Goto, Recording, Refusals
  <2> QED BY <2>1, <2>2, <2>3, <2>4
<1> QED BY <1>1, <1>2, <1>3 DEF RefusedFirst

LEMMA InsertEscalationRefused ==
    ASSUME HandoverInv, NEW w \in Workers, InsertEscalation(w)
    PROVE  RefusedFirst(w)'
<1> DEFINE new == EscalationOf(w)
<1>1. /\ new.call = call[w]
      /\ new.why # "HIGH_VALUE" => ~HighValue(finding[w])
  BY DEF EscalationOf, RouteEscalationReason
<1> HIDE DEF new
<1>2. /\ pc[w] = "escalate" /\ pc'[w] = "tail" /\ event'[w] = "escalation"
      /\ staged'[w].escalations = {new}
      /\ UNCHANGED <<audit, call, finding>>
  BY DEF InsertEscalation, Record, Goto, HandoverInv, ChainInv, TypeOK, tables, new
<1> QED BY <1>1, <1>2 DEF HandoverInv, RefusedFirst, Recording, Refusals, Refusal

LEMMA RecordRefused ==
    ASSUME HandoverInv, NEW w \in Workers, ReadTail(w) \/ AppendAudit(w)
    PROVE  RefusedFirst(w)'
<1> USE DEF HandoverInv, ChainInv
<1>1. CASE Abort(w)
  BY <1>1 DEF TypeOK, Abort, Forget, NoRows, RefusedFirst, Recording
<1>2. CASE ~Abort(w)
  <2>1. /\ pc[w] \in Recording /\ pc'[w] \in Recording \ {"tail"}
        /\ staged'[w].escalations = staged[w].escalations
        /\ UNCHANGED <<audit, call, finding, event>>
    BY <1>2 DEF TypeOK, ReadTail, AppendAudit, Goto, Recording, tables
  <2> QED BY <2>1 DEF RefusedFirst, Recording, Refusal
<1> QED BY <1>1, <1>2

(* A committed refusal that needs a human is there before the escalation.  *)
LEMMA CommitRefused ==
    ASSUME HandoverInv, NEW w \in Workers, Commit(w)
    PROVE  RefusedFirst(w)'
<1> USE DEF HandoverInv, ChainInv
<1>1. staged'[w].escalations = {} /\ UNCHANGED <<call, finding, event>>
  BY DEF TypeOK, Commit, Forget, NoRows
<1>2. CASE pc'[w] = "idle"
  BY <1>1, <1>2 DEF RefusedFirst, Recording
<1>3. CASE pc'[w] # "idle"
  <2>1. /\ pc[w] = "commit" /\ pc'[w] = "escalate" /\ event[w] \in Refusals
        /\ ~BlockEndsRoute(ValidateAction(finding[w]))
    BY <1>3 DEF TypeOK, Commit, Goto, Refusals
  <2>2. ValidateAction(finding[w]) \in {"NOT_CONFIRMED", "INVALID_REASON"}
    BY <2>1 DEF RefusedFirst, Recording, BlockEndsRoute, ValidateAction
  <2>3. PICK r \in audit' : r.event = Payload(w)
    BY CommittedRow
  <2>4. Refusal(r, call[w])
    BY <2>1, <2>2, <2>3 DEF Payload, Refusal
  <2> QED BY <1>1, <2>1, <2>3, <2>4 DEF RefusedFirst, Recording, Refusal
<1> QED BY <1>2, <1>3

LEMMA CrashRefused ==
    ASSUME HandoverInv, NEW w \in Workers, Crash(w)
    PROVE  RefusedFirst(w)'
  BY DEF HandoverInv, ChainInv, TypeOK, Crash, Forget, NoRows, RefusedFirst, Recording

LEMMA RefusedNext ==
    ASSUME HandoverInv, NEW w \in Workers, Moves(w), Grows
    PROVE  \A v \in Workers : RefusedFirst(v)'
<1>1. RefusedFirst(w)'
  BY BeginRefused, WorkRefused, InsertEscalationRefused, RecordRefused, CommitRefused,
     CrashRefused DEF Moves, Step
<1>2. \A v \in Others(w) : RefusedFirst(v)'
  BY OthersSame, RefusedStays DEF HandoverInv, ChainInv, Others
<1> QED BY <1>1, <1>2 DEF Others

-----------------------------------------------------------------------------
(* Calls and their audit rows *)

(* A commit publishes one row, the next of the log, about its own call.    *)
PublishesRow(w, row) ==
    /\ audit' = audit \cup {row}
    /\ row.event.act = event[w] /\ row.event.call = call[w]
    /\ \A b \in audit : b.seq < row.seq

LEMMA CommitPublishes ==
    ASSUME HandoverInv, NEW w \in Workers, Commit(w)
    PROVE  /\ \E row \in audit' : PublishesRow(w, row)
           /\ pc[w] = "commit" /\ escalations' = escalations \cup staged[w].escalations
           /\ UNCHANGED <<call, begun, event>>
           /\ pc'[w] # "idle" => event[w] \in Refusals
           /\ \A v \in Others(w) : pc'[v] = pc[v]
<1> USE DEF HandoverInv, ChainInv
<1>1. PICK row \in staged[w].audit : row.event = Payload(w)
  BY DEF EvidenceInv, Evident, RowHeld, Commit
<1>2. audit' = audit \cup {row}
  BY <1>1 DEF Commit, OpenRowsContinue
<1>3. row.event.act = event[w] /\ row.event.call = call[w]
  BY <1>1 DEF Payload
<1>4. \A b \in audit : b.seq < row.seq
  <2>1. row.seq = Cardinality(audit) + 1
    BY <1>1, OpenRowIsNext
  <2>2. Cardinality(audit) \in Nat /\ \A b \in audit : b.seq \in 1..Cardinality(audit)
    BY FS_CardinalityType DEF ChainIntact, VerifyAuditChain
  <2> QED BY <2>1, <2>2
<1>5. \E r \in audit' : PublishesRow(w, r)
  BY <1>2, <1>3, <1>4 DEF PublishesRow
<1>6. /\ pc[w] = "commit" /\ escalations' = escalations \cup staged[w].escalations
      /\ UNCHANGED <<call, begun, event>>
  BY DEF Commit, counters
<1>7. /\ pc'[w] # "idle" => event[w] \in Refusals
      /\ \A v \in Others(w) : pc'[v] = pc[v]
  BY DEF Commit, Goto, TypeOK, Refusals, Others
<1> QED BY <1>5, <1>6, <1>7

(* Between its beginning and its commit, a call publishes nothing.         *)
Silent(w) ==
    /\ UNCHANGED <<audit, escalations, call, begun>>
    /\ pc'[w] # "idle" => pc[w] # "idle"
    /\ \A v \in Others(w) : pc'[v] = pc[v]

LEMMA BetweenSilent ==
    ASSUME TypeOK, NEW w \in Workers, Step(w) \/ Crash(w), ~Commit(w)
    PROVE  Silent(w)
<1>1. UNCHANGED <<audit, escalations, call, begun>> /\ pc[w] # "idle"
  <2>1. CASE Crash(w)
    BY <2>1 DEF Crash, tables, counters
  <2>2. CASE ReserveClaim(w) \/ LoseReservation(w) \/ LookUpClaim(w) \/ SubmitClaim(w)
    BY <2>2 DEF ReserveClaim, LoseReservation, LookUpClaim, SubmitClaim, tables, counters
  <2>3. CASE AmendClaim(w) \/ AppendAudit(w)
    BY <2>3 DEF AmendClaim, AppendAudit, Abort, tables, counters
  <2>4. CASE ScanResults(w) \/ FlipResults(w) \/ RequestRebilling(w) \/ InsertEscalation(w)
             \/ ReadTail(w)
    BY <2>4 DEF ScanResults, FlipResults, RequestRebilling, InsertEscalation, ReadTail,
       tables, counters
  <2> QED BY <2>1, <2>2, <2>3, <2>4 DEF Step
<1>2. \A v \in Others(w) : pc'[v] = pc[v]
  BY OthersSame DEF Moves, Same
<1> QED BY <1>1, <1>2 DEF Silent

LEMMA SilentKeeps ==
    ASSUME HandoverInv, NEW w \in Workers, Silent(w)
    PROVE  CallsNumbered' /\ OneHandoff' /\ HandedOver'
<1>1. \A v \in Workers : pc'[v] # "idle" => pc[v] # "idle"
  BY DEF Silent, Others
<1>2. CallsNumbered'
  BY <1>1 DEF HandoverInv, CallsNumbered, Silent, Others
<1>3. OneHandoff'
  BY <1>1 DEF HandoverInv, OneHandoff, Silent, Handoff
<1>4. HandedOver'
  BY DEF HandoverInv, HandedOver, Silent, Handoff, Refusal
<1> QED BY <1>2, <1>3, <1>4

LEMMA BeginKeeps ==
    ASSUME HandoverInv, NEW w \in Workers, NEW f \in Findings, Begin(w, f)
    PROVE  CallsNumbered' /\ OneHandoff' /\ HandedOver'
<1> USE DEF HandoverInv
<1>1. /\ UNCHANGED <<audit, escalations>> /\ begun' = begun + 1 /\ begun \in Nat
      /\ call'[w] = begun + 1
      /\ \A v \in Others(w) : call'[v] = call[v] /\ pc'[v] = pc[v]
  BY DEF Begin, ChainInv, TypeOK, Goto, Record, tables, Others
<1>2. /\ \A v \in Workers : call[v] \in Nat /\ call[v] <= begun
      /\ \A r \in audit : r.event.call \in Nat /\ r.event.call <= begun
  BY DEF ChainInv, TypeOK, CallsNumbered, AuditRow, Event
<1>3. CallsNumbered'
  <2>1. \A v \in Workers : call'[v] <= begun'
    BY <1>1, <1>2 DEF Others
  <2>2. \A r \in audit' : r.event.call <= begun'
    BY <1>1, <1>2
  <2>3. ASSUME NEW u \in Workers, NEW v \in Others(u), pc'[u] # "idle", pc'[v] # "idle"
        PROVE  call'[u] # call'[v]
    <3>1. CASE u = w \/ v = w
      BY <1>1, <1>2, <3>1 DEF Others
    <3>2. CASE u # w /\ v # w
      BY <1>1, <2>3, <3>2 DEF CallsNumbered, Others
    <3> QED BY <3>1, <3>2
  <2> QED BY <2>1, <2>2, <2>3 DEF CallsNumbered, Others
<1>4. OneHandoff'
  <2>1. \A r, s \in audit' :
           r.event.act = "escalation" /\ Handoff(s, r.event.call)' => r = s
    BY <1>1 DEF OneHandoff, Handoff
  <2>2. \A r \in audit' : ~Handoff(r, call'[w])
    BY <1>1, <1>2 DEF Handoff
  <2>3. \A v \in Others(w) : pc'[v] # "idle" => \A r \in audit' : ~Handoff(r, call'[v])
    BY <1>1 DEF OneHandoff, Others
  <2> QED BY <2>1, <2>2, <2>3 DEF OneHandoff, Others, Handoff
<1>5. HandedOver'
  BY <1>1 DEF HandedOver, Handoff, Refusal
<1> QED BY <1>3, <1>4, <1>5

LEMMA CommitKeeps ==
    ASSUME HandoverInv, NEW w \in Workers, Commit(w)
    PROVE  CallsNumbered' /\ OneHandoff' /\ HandedOver'
<1> USE DEF HandoverInv
<1>1. /\ pc[w] = "commit" /\ escalations' = escalations \cup staged[w].escalations
      /\ UNCHANGED <<call, begun, event>>
      /\ pc'[w] # "idle" => event[w] \in Refusals
      /\ \A v \in Others(w) : pc'[v] = pc[v]
  BY CommitPublishes
<1>2. PICK row \in audit' : PublishesRow(w, row)
  BY CommitPublishes
<1>3. audit' = audit \cup {row} /\ row.event.act = event[w] /\ row.event.call = call[w]
  BY <1>2 DEF PublishesRow
<1>4. \A v \in Workers : pc'[v] # "idle" => pc[v] # "idle"
  BY <1>1 DEF Others
<1>5. CallsNumbered'
  BY <1>1, <1>3, <1>4 DEF CallsNumbered, Others
<1>6. \A b \in audit : ~Handoff(b, call[w])
  BY <1>1 DEF OneHandoff
<1>7. \A r, n : Handoff(r, n)' <=> Handoff(r, n)
  BY DEF Handoff
<1>8. OneHandoff'
  <2>1. ASSUME NEW r \in audit', NEW s \in audit', r.event.act = "escalation",
               Handoff(s, r.event.call)
        PROVE  r = s
    <3>1. CASE r \in audit /\ s \in audit
      BY <2>1, <3>1 DEF OneHandoff
    <3>2. CASE r = row /\ s \in audit
      BY <1>3, <1>6, <2>1, <3>2
    <3>3. CASE r \in audit /\ s = row
      BY <1>3, <1>6, <2>1, <3>3 DEF Handoff
    <3> QED BY <1>3, <3>1, <3>2, <3>3
  <2>2. ASSUME NEW v \in Workers, pc'[v] # "idle", NEW r \in audit'
        PROVE  ~Handoff(r, call'[v])
    <3>1. CASE r \in audit
      BY <1>1, <1>4, <2>2, <3>1 DEF OneHandoff
    <3>2. CASE r = row /\ v = w
      BY <1>1, <1>3, <2>2, <3>2 DEF Handoff, Refusals
    <3>3. CASE r = row /\ v # w
      BY <1>1, <1>3, <1>4, <2>2, <3>3 DEF Handoff, CallsNumbered, Others
    <3> QED BY <1>3, <3>1, <3>2, <3>3
  <2> QED BY <1>7, <2>1, <2>2 DEF OneHandoff
<1>9. ASSUME NEW e \in escalations'
      PROVE  /\ \E h \in audit' : Handoff(h, e.call)
             /\ e.why # "HIGH_VALUE" =>
                   \E b \in audit' : /\ Refusal(b, e.call)
                                     /\ \A h \in audit' : Handoff(h, e.call) => b.seq < h.seq
  <2>1. CASE e \in escalations
    <3>1. PICK h \in audit : Handoff(h, e.call)
      BY <2>1 DEF HandedOver
    <3>2. ~Handoff(row, e.call)
      BY <1>3, <1>6, <3>1 DEF Handoff
    <3> QED BY <1>3, <2>1, <3>1, <3>2 DEF HandedOver
  <2>2. CASE e \in staged[w].escalations
    <3>1. event[w] = "escalation" /\ e.call = call[w]
      BY <2>2 DEF RefusedFirst
    <3>2. Handoff(row, e.call)
      BY <1>3, <3>1 DEF Handoff
    <3>3. ASSUME e.why # "HIGH_VALUE"
          PROVE  \E b \in audit' : /\ Refusal(b, e.call)
                                   /\ \A h \in audit' : Handoff(h, e.call) => b.seq < h.seq
      <4>1. PICK b \in audit : Refusal(b, call[w])
        BY <2>2, <3>3 DEF RefusedFirst
      <4>2. b.seq < row.seq
        BY <1>2 DEF PublishesRow
      <4>3. \A h \in audit' : Handoff(h, e.call) => h = row
        BY <1>3, <1>6, <3>1
      <4> QED BY <1>3, <3>1, <4>1, <4>2, <4>3
    <3> QED BY <1>3, <3>2, <3>3
  <2> QED BY <1>1, <2>1, <2>2
<1>10. HandedOver'
  <2>1. \A r, n : Refusal(r, n)' <=> Refusal(r, n)
    BY DEF Refusal
  <2> QED BY <1>7, <1>9, <2>1 DEF HandedOver
<1> QED BY <1>5, <1>8, <1>10

LEMMA HandoverNext == HandoverInv /\ [Next]_vars => HandoverInv'
<1> SUFFICES ASSUME HandoverInv, [Next]_vars
             PROVE  /\ CallsNumbered' /\ OneHandoff' /\ HandedOver'
                    /\ \A v \in Workers : RefusedFirst(v)'
  BY ChainNext, EvidenceNext DEF HandoverInv
<1>1. Grows
  BY EvidenceGrows
<1>2. ASSUME NEW w \in Workers, Moves(w)
      PROVE  CallsNumbered' /\ OneHandoff' /\ HandedOver'
  <2>1. CASE Commit(w)
    BY <2>1, CommitKeeps
  <2>2. CASE ~Commit(w) /\ (Step(w) \/ Crash(w))
    BY <2>2, BetweenSilent, SilentKeeps DEF HandoverInv, ChainInv
  <2>3. CASE \E f \in Findings : Begin(w, f)
    BY <2>3, BeginKeeps
  <2> QED BY <1>2, <2>1, <2>2, <2>3 DEF Moves
<1>3. CASE ResetActionTables \/ RewriteResults \/ UNCHANGED vars
  <2>1. /\ UNCHANGED <<audit, call, begun, pc>> /\ escalations' \subseteq escalations
        /\ \A v \in Workers : Same(v)
    BY <1>3 DEF ResetActionTables, RewriteResults, vars, tables, counters, Same
  <2>2. CallsNumbered'
    BY <2>1 DEF HandoverInv, CallsNumbered, Others
  <2>3. OneHandoff'
    BY <2>1 DEF HandoverInv, OneHandoff, Handoff
  <2>4. HandedOver'
    BY <2>1 DEF HandoverInv, HandedOver, Handoff, Refusal
  <2>5. \A v \in Workers : RefusedFirst(v)'
    BY <1>1, <2>1, RefusedStays DEF HandoverInv
  <2> QED BY <2>2, <2>3, <2>4, <2>5
<1>4. ASSUME NEW w \in Workers, Moves(w) PROVE \A v \in Workers : RefusedFirst(v)'
  BY <1>1, <1>4, RefusedNext
<1> QED BY <1>2, <1>3, <1>4 DEF Next, Done, Moves

LEMMA HandoverInit == Init => HandoverInv
<1> SUFFICES ASSUME Init
             PROVE  CallsNumbered /\ OneHandoff /\ HandedOver /\ \A w \in Workers : RefusedFirst(w)
  BY ChainInit, EvidenceInit DEF HandoverInv
<1>1. CallsNumbered
  BY DEF Init, CallsNumbered, Others
<1>2. OneHandoff /\ HandedOver
  BY DEF Init, OneHandoff, HandedOver
<1>3. \A w \in Workers : RefusedFirst(w)
  BY DEF Init, NoRows, RefusedFirst, Recording
<1> QED BY <1>1, <1>2, <1>3

(* Every escalation has exactly one audit row, and one that follows a      *)
(* refusal comes after the audit row of that refusal, whatever dies or is  *)
(* rolled back between the two transactions of route.                      *)
THEOREM EscalationsAreAlwaysEvidenced == Spec => []EscalationsAreEvidenced
<1>1. HandoverInv => EscalationsAreEvidenced
  <2> SUFFICES ASSUME HandoverInv, NEW e \in escalations
               PROVE  LET rows == {r \in audit : r.event.call = e.call}
                          handoffs == {r \in rows : r.event.act = "escalation"}
                      IN  /\ Cardinality(handoffs) = 1
                          /\ e.why # "HIGH_VALUE" =>
                                \E b \in rows :
                                   /\ b.event.act \in {"claim:BLOCKED", "rebill:BLOCKED"}
                                   /\ b.event.gate \in {"NOT_CONFIRMED", "INVALID_REASON"}
                                   /\ \A h \in handoffs : b.seq < h.seq
    BY DEF EscalationsAreEvidenced
  <2> DEFINE rows == {r \in audit : r.event.call = e.call}
             handoffs == {r \in rows : r.event.act = "escalation"}
  <2>1. PICK h \in audit : Handoff(h, e.call)
    BY DEF HandoverInv, HandedOver
  <2>2. handoffs = {h}
    BY <2>1 DEF HandoverInv, OneHandoff, Handoff
  <2>3. Cardinality(handoffs) = 1
    BY <2>2, FS_Singleton
  <2>4. ASSUME e.why # "HIGH_VALUE"
        PROVE  \E b \in rows : /\ b.event.act \in {"claim:BLOCKED", "rebill:BLOCKED"}
                                /\ b.event.gate \in {"NOT_CONFIRMED", "INVALID_REASON"}
                                /\ \A g \in handoffs : b.seq < g.seq
    <3>1. PICK b \in audit : Refusal(b, e.call) /\ b.seq < h.seq
      BY <2>1, <2>4 DEF HandoverInv, HandedOver
    <3> QED BY <2>2, <3>1 DEF Refusal, Refusals
  <2> QED BY <2>3, <2>4
<1> QED BY <1>1, HandoverInit, HandoverNext, PTL DEF Spec

-----------------------------------------------------------------------------
(* Nobody is stuck *)

(* What is held while something else is waited for goes one way: claims    *)
(* and result rows before the audit row, and nothing after that.           *)
LEMMA HeldInOrder ==
    ASSUME EvidenceInv, NEW w \in Workers
    PROVE  /\ staged[w].claims # {} => pc[w] \in Recording \cup {"submit"}
           /\ staged[w].results # {} => pc[w] \in Recording \cup {"rebill"}
           /\ staged[w].audit # {} => pc[w] = "commit"
  BY DEF EvidenceInv, Evident, ClaimsHeld, ResultsHeld, RowHeld

(* Any number of workers can wait for each other's claims, result rows and *)
(* audit rows, and some call always goes on: one at its commit waits for   *)
(* nothing; without one, a call about to write its audit row waits for     *)
(* nothing; and without either, no row is held that anyone waits for.      *)
THEOREM NobodyIsStuck == Spec => []NobodyStuck
<1>1. EvidenceInv => NobodyStuck
  <2> SUFFICES ASSUME EvidenceInv, NEW w \in Workers, pc[w] # "idle"
               PROVE  \E v \in Workers : pc[v] # "idle" /\ ~Waits(v)
    BY DEF NobodyStuck
  <2>1. CASE \E v \in Workers : pc[v] \in {"commit", "submit", "rebill", "tail"}
    BY <2>1 DEF Waits
  <2>2. CASE /\ \A v \in Workers : pc[v] \notin {"commit", "submit", "rebill", "tail"}
             /\ \E v \in Workers : pc[v] = "append"
    <3>1. PICK v \in Workers : pc[v] = "append"
      BY <2>2
    <3>2. \A u \in Workers : staged[u].audit = {}
      BY <2>2, HeldInOrder
    <3> QED BY <3>1, <3>2 DEF Waits, Others
  <2>3. CASE \A v \in Workers : pc[v] \notin {"commit", "submit", "rebill", "tail", "append"}
    <3>1. \A u \in Workers : staged[u].claims = {} /\ staged[u].results = {}
      BY <2>3, HeldInOrder DEF Recording
    <3> QED BY <2>3, <3>1 DEF Waits, Others
  <2> QED BY <2>1, <2>2, <2>3
<1> QED BY <1>1, EvidenceInvariance, PTL
-----------------------------------------------------------------------------
(* The action layer is a ledger: every action takes effect as one step     *)

(* What the call w is in is about: the action its finding was given to,    *)
(* the refusal, or the human it is handed to.                              *)
ForClaim(w) ==
    \/ pc[w] \in {"reserve", "lookup", "amend", "submit"}
    \/ pc[w] \in Recording /\ event[w] \in {"claim", "claim:IDEMPOTENT"}
ForRebill(w) ==
    \/ pc[w] \in {"scan", "flip", "rebill"}
    \/ pc[w] \in Recording /\ event[w] \in {"rebill", "rebill:IDEMPOTENT"}
ForRefusal(w) == pc[w] \in Recording /\ event[w] \in Refusals
ForHuman(w) == pc[w] = "escalate" \/ (pc[w] \in Recording /\ event[w] = "escalation")

Passes(action, f) == ~HighValue(f) /\ ValidateAction(f) = "OK" /\ RouteAction(f) = action
Blocked(f) == IF RouteAction(f) = "claim" THEN "claim:BLOCKED" ELSE "rebill:BLOCKED"
NeedsHuman(f) == HighValue(f) \/ ValidateAction(f) \in {"NOT_CONFIRMED", "INVALID_REASON"}

Routed(w) ==
    /\ finding[w] \in Findings
    /\ pc[w] # "idle" => call[w] \in 1..MaxCalls
    /\ ForClaim(w) => Passes("claim", finding[w])
    /\ ForRebill(w) => Passes("rebill", finding[w])
    /\ ForRefusal(w) => /\ ~HighValue(finding[w]) /\ ValidateAction(finding[w]) # "OK"
                        /\ event[w] = Blocked(finding[w])
    /\ ForHuman(w) => NeedsHuman(finding[w])

(* What the open transaction of w holds, exactly.                          *)
Recorded(w, act) == pc[w] \in Recording /\ event[w] = act

SubmittedClaim(w) == [NewClaim(w) EXCEPT !.status = "submitted"]
Amended(c, w) == [c EXCEPT !.amount = finding[w].amount]
Disputing(r) == [r EXCEPT !.state = "disputed"]

ClaimRows(w) ==
    /\ pc[w] = "submit" => staged[w].claims = {NewClaim(w)}
    /\ Recorded(w, "claim") => staged[w].claims = {SubmittedClaim(w)}
    /\ staged[w].claims # {} =>
          pc[w] = "submit" \/ Recorded(w, "claim") \/ Recorded(w, "claim:IDEMPOTENT")
    /\ Recorded(w, "claim:IDEMPOTENT") /\ staged[w].claims # {} =>
          \E c \in claims : SameClaim(c, finding[w]) /\ staged[w].claims = {Amended(c, w)}
    /\ pc[w] = "amend" => \A d \in read[w].claims :
          /\ SameClaim(d, finding[w])
          /\ \E x \in insurerCalls : SameCall(x, d) /\ SameClaim(x, d)

ResultRows(w) ==
    staged[w].results # {} =>
        /\ pc[w] = "rebill" \/ Recorded(w, "rebill")
        /\ \E r \in results : /\ r.policy = finding[w].policy
                              /\ staged[w].results = {Disputing(r)}

EscalationRows(w) ==
    staged[w].escalations = IF Recorded(w, "escalation") THEN {EscalationOf(w)} ELSE {}

(* What the outside systems have been told by the call w is in.            *)
External == insurerCalls \cup billingCalls
ToldInsurer(w) == [call |-> call[w], policy |-> finding[w].policy,
                   reason |-> finding[w].reason, amount |-> finding[w].amount]
ToldBilling(w) == [call |-> call[w], policy |-> finding[w].policy,
                   reason |-> finding[w].reason]

Told(w) ==
    /\ pc[w] # "idle" /\ ~Recorded(w, "claim") /\ ~Recorded(w, "rebill") =>
          \A x \in External : x.call # call[w]
    /\ Recorded(w, "claim") => ToldInsurer(w) \in insurerCalls
    /\ Recorded(w, "rebill") => /\ ToldBilling(w) \in billingCalls
                               /\ \A x \in insurerCalls : x.call # call[w]

(* What the audit log records of the call w is in.                         *)
EventsOf(n) == {r.event : r \in {s \in audit : s.event.call = n}}
RefusalOf(w) == [act |-> Blocked(finding[w]), call |-> call[w],
                 policy |-> finding[w].policy, reason |-> finding[w].reason,
                 gate |-> ValidateAction(finding[w])]

Accounted(w) ==
    pc[w] # "idle" =>
        EventsOf(call[w]) =
            IF ForHuman(w) /\ ~HighValue(finding[w]) THEN {RefusalOf(w)} ELSE {}

Whole(w) ==
    /\ Routed(w) /\ ClaimRows(w) /\ ResultRows(w) /\ EscalationRows(w)
    /\ Told(w) /\ Accounted(w)

CallsTold ==
    /\ begun <= MaxCalls
    /\ \A x \in External : x.call <= begun
    /\ \A x, y \in insurerCalls : SameCall(x, y) => x = y

RowPerPolicy == \A r, s \in results : r.policy = s.policy => r = s

RowsExclusive ==
    \A w, v \in Workers : \A r \in staged[w].results : \A s \in staged[v].results :
        SameResult(r, s) => w = v

LedgerInv ==
    /\ HandoverInv /\ OneClaimInv /\ SubmitHolds
    /\ CallsTold /\ RowPerPolicy /\ RowsExclusive
    /\ \A w \in Workers : Whole(w)

LEMMA LedgerTypes ==
    ASSUME LedgerInv
    PROVE  TypeOK
  BY DEF LedgerInv, OneClaimInv

(* The statement moves on with the finding it was given.                   *)
LEMMA MoveRouted ==
    ASSUME LedgerInv, NEW w \in Workers, Moves(w)
    PROVE  Routed(w)'
<1> USE LedgerTypes
<1>0. Routed(w)
  BY DEF LedgerInv, Whole
<1> USE <1>0 DEF Routed, ForClaim, ForRebill, ForRefusal, ForHuman, Recording, Refusals
<1>1. CASE pc'[w] = "idle" /\ UNCHANGED <<finding, call>>
  BY <1>1
<1>2. CASE ReserveClaim(w) \/ LoseReservation(w)
  BY <1>2 DEF ReserveClaim, LoseReservation, Goto, TypeOK
<1>3. CASE LookUpClaim(w)
  BY <1>3 DEF LookUpClaim, Goto, Record, TypeOK
<1>4. CASE AmendClaim(w)
  BY <1>4, <1>1 DEF AmendClaim, Abort, Goto, Record, TypeOK
<1>5. CASE SubmitClaim(w)
  BY <1>5 DEF SubmitClaim, Goto, Record, TypeOK
<1>6. CASE ScanResults(w)
  BY <1>6 DEF ScanResults, Goto, Record, TypeOK
<1>7. CASE FlipResults(w)
  BY <1>7 DEF FlipResults, Goto, Record, TypeOK
<1>8. CASE RequestRebilling(w)
  BY <1>8 DEF RequestRebilling, Goto, Record, TypeOK
<1>9. CASE InsertEscalation(w) \/ ReadTail(w)
  BY <1>9 DEF InsertEscalation, ReadTail, Goto, Record, TypeOK
<1>10. CASE AppendAudit(w)
  BY <1>10, <1>1 DEF AppendAudit, Abort, Goto, TypeOK
<1>11. CASE Commit(w)
  <2>1. CASE pc'[w] = "escalate"
    <3>1. /\ event[w] \in Refusals /\ pc[w] = "commit" /\ UNCHANGED <<finding, call>>
          /\ ~BlockEndsRoute(ValidateAction(finding[w]))
      BY <1>11, <2>1 DEF Commit, Goto, TypeOK
    <3>2. NeedsHuman(finding[w])
      BY <3>1 DEF NeedsHuman, BlockEndsRoute, ValidateAction
    <3> QED BY <2>1, <3>1, <3>2
  <2>2. CASE pc'[w] # "escalate"
    BY <1>1, <1>11, <2>2 DEF Commit, Goto, TypeOK
  <2> QED BY <2>1, <2>2
<1>12. CASE Crash(w)
  BY <1>1, <1>12 DEF Crash, TypeOK
<1>13. ASSUME NEW f \in Findings, Begin(w, f) PROVE Routed(w)'
  <2>1. /\ finding'[w] = f /\ call'[w] = begun + 1 /\ begun < MaxCalls /\ begun \in Nat
        /\ MaxCalls \in Nat
    BY <1>13, BoundsAssumption DEF Begin, TypeOK
  <2>2. call'[w] \in 1..MaxCalls
    BY <2>1
  <2>3. \/ HighValue(f) /\ pc'[w] = "escalate"
        \/ /\ ~HighValue(f) /\ ValidateAction(f) # "OK"
           /\ pc'[w] = "tail" /\ event'[w] = Blocked(f)
        \/ /\ ~HighValue(f) /\ ValidateAction(f) = "OK"
           /\ pc'[w] = IF RouteAction(f) = "claim" THEN "reserve" ELSE "scan"
    BY <1>13 DEF Begin, Record, Goto, Blocked, TypeOK
  <2>4. RouteAction(f) \in {"claim", "rebill"} /\ Blocked(f) \in Refusals
    BY DEF RouteAction, Blocked
  <2> QED BY <2>1, <2>2, <2>3, <2>4 DEF Passes, NeedsHuman
<1> QED BY <1>2, <1>3, <1>4, <1>5, <1>6, <1>7, <1>8, <1>9, <1>10, <1>11, <1>12, <1>13
        DEF Moves, Step

(* What the statements that write claims and result rows leave staged.     *)
LEMMA OnlyClaims ==
    ASSUME TypeOK, NEW w \in Workers, NEW new, staged' = [staged EXCEPT ![w].claims = new]
    PROVE  /\ staged'[w].claims = new
           /\ staged'[w].results = staged[w].results
           /\ staged'[w].escalations = staged[w].escalations
  BY DEF TypeOK

LEMMA OnlyResults ==
    ASSUME TypeOK, NEW w \in Workers, NEW new, staged' = [staged EXCEPT ![w].results = new]
    PROVE  /\ staged'[w].results = new
           /\ staged'[w].claims = staged[w].claims
           /\ staged'[w].escalations = staged[w].escalations
  BY DEF TypeOK

ClaimsToAmend(w) == {c \in claims : \E d \in read[w].claims : c.call = d.call}

LEMMA AmendShape ==
    ASSUME TypeOK, NEW w \in Workers, AmendClaim(w), ~Abort(w)
    PROVE  /\ staged'[w].claims = {Amended(c, w) : c \in ClaimsToAmend(w)}
           /\ staged'[w].results = staged[w].results
           /\ staged'[w].escalations = staged[w].escalations
           /\ pc[w] = "amend" /\ pc'[w] = "tail" /\ event'[w] = "claim:IDEMPOTENT"
           /\ UNCHANGED <<tables, external, finding, call, read>>
<1> DEFINE new == {Amended(c, w) : c \in ClaimsToAmend(w)}
<1>1. staged' = [staged EXCEPT ![w].claims = new]
  BY DEF AmendClaim, Amended, ClaimsToAmend
<1> HIDE DEF new
<1>2. /\ pc[w] = "amend" /\ pc'[w] = "tail" /\ event'[w] = "claim:IDEMPOTENT"
      /\ UNCHANGED <<tables, external, finding, call, read>>
  BY DEF AmendClaim, Goto, Record, TypeOK
<1>3. staged'[w].claims = new /\ staged'[w].results = staged[w].results
      /\ staged'[w].escalations = staged[w].escalations
  BY <1>1, OnlyClaims
<1> QED BY <1>2, <1>3 DEF new

LEMMA SubmitShape ==
    ASSUME TypeOK, NEW w \in Workers, SubmitClaim(w)
    PROVE  /\ staged'[w].claims = {[c EXCEPT !.status = "submitted"] : c \in staged[w].claims}
           /\ staged'[w].results = staged[w].results
           /\ staged'[w].escalations = staged[w].escalations
           /\ pc[w] = "submit" /\ pc'[w] = "tail" /\ event'[w] = "claim"
           /\ insurerCalls' = insurerCalls \cup {ToldInsurer(w)}
           /\ UNCHANGED <<tables, billingCalls, finding, call, read>>
<1> DEFINE new == {[c EXCEPT !.status = "submitted"] : c \in staged[w].claims}
<1>1. staged' = [staged EXCEPT ![w].claims = new]
  BY DEF SubmitClaim
<1> HIDE DEF new
<1>2. /\ pc[w] = "submit" /\ pc'[w] = "tail" /\ event'[w] = "claim"
      /\ insurerCalls' = insurerCalls \cup {ToldInsurer(w)}
      /\ UNCHANGED <<tables, billingCalls, finding, call, read>>
  BY DEF SubmitClaim, Goto, Record, TypeOK, ToldInsurer
<1>3. staged'[w].claims = new /\ staged'[w].results = staged[w].results
      /\ staged'[w].escalations = staged[w].escalations
  BY <1>1, OnlyClaims
<1> QED BY <1>2, <1>3 DEF new

RowsToFlip(w) ==
    {r \in results : \E d \in {d \in read[w].results : d.state # "disputed"} : SameResult(r, d)}

LEMMA FlipShape ==
    ASSUME TypeOK, NEW w \in Workers, FlipResults(w)
    PROVE  /\ staged'[w].claims = staged[w].claims
           /\ staged'[w].escalations = staged[w].escalations
           /\ pc[w] = "flip"
           /\ \/ /\ pc'[w] = "rebill"
                 /\ staged'[w].results = {Disputing(r) : r \in RowsToFlip(w)}
                 /\ \A v \in Others(w) : \A r \in staged[v].results :
                       \A d \in RowsToFlip(w) : ~SameResult(r, d)
              \/ /\ pc'[w] = "tail" /\ event'[w] = "rebill:IDEMPOTENT"
                 /\ staged'[w].results = staged[w].results
           /\ UNCHANGED <<tables, external, finding, call, read>>
<1> DEFINE new == {Disputing(r) : r \in RowsToFlip(w)}
<1>1. \/ /\ staged' = [staged EXCEPT ![w].results = new] /\ pc' = [pc EXCEPT ![w] = "rebill"]
         /\ \A v \in Others(w) : \A r \in staged[v].results :
               \A d \in RowsToFlip(w) : ~SameResult(r, d)
      \/ Record(w, "rebill:IDEMPOTENT") /\ UNCHANGED staged
  BY DEF FlipResults, RowsToFlip, Disputing, Goto
<1> HIDE DEF new
<1>2. pc[w] = "flip" /\ UNCHANGED <<tables, external, finding, call, read>>
  BY DEF FlipResults
<1>3. CASE staged' = [staged EXCEPT ![w].results = new] /\ pc' = [pc EXCEPT ![w] = "rebill"]
           /\ \A v \in Others(w) : \A r \in staged[v].results :
                 \A d \in RowsToFlip(w) : ~SameResult(r, d)
  <2>1. /\ staged'[w].results = new
        /\ staged'[w].claims = staged[w].claims
        /\ staged'[w].escalations = staged[w].escalations
    BY <1>3, OnlyResults
  <2>2. pc'[w] = "rebill"
    BY <1>3 DEF TypeOK
  <2> QED BY <1>2, <1>3, <2>1, <2>2 DEF new
<1>4. CASE Record(w, "rebill:IDEMPOTENT") /\ UNCHANGED staged
  BY <1>2, <1>4 DEF Record, Goto, TypeOK
<1> QED BY <1>1, <1>3, <1>4

(* A rolled back transaction holds nothing.                                *)
LEMMA NothingStaged ==
    ASSUME TypeOK, NEW w \in Workers, Forget(w)
    PROVE  /\ staged'[w].claims = {} /\ staged'[w].results = {}
           /\ staged'[w].escalations = {}
  BY DEF TypeOK, Forget, NoRows

LEMMA MoveEscalationRows ==
    ASSUME LedgerInv, NEW w \in Workers, Moves(w)
    PROVE  EscalationRows(w)'
<1> USE LedgerTypes DEF EscalationRows, Recorded, Recording
<1>0. EscalationRows(w)
  BY DEF LedgerInv, Whole
<1>1. CASE staged'[w].escalations = {} /\ pc'[w] \notin Recording
  BY <1>1
<1>2. CASE ReserveClaim(w) \/ LoseReservation(w)
  BY <1>0, <1>2 DEF ReserveClaim, LoseReservation, Goto, TypeOK
<1>3. CASE LookUpClaim(w) \/ ScanResults(w) \/ RequestRebilling(w)
  BY <1>0, <1>3 DEF LookUpClaim, ScanResults, RequestRebilling, Goto, Record, TypeOK
<1>4. CASE AmendClaim(w)
  <2>1. CASE Abort(w)
    BY <1>1, <2>1, NothingStaged DEF Abort, TypeOK
  <2>2. CASE ~Abort(w)
    BY <1>0, <1>4, <2>2, AmendShape
  <2> QED BY <2>1, <2>2
<1>5. CASE SubmitClaim(w)
  BY <1>0, <1>5, SubmitShape
<1>6. CASE FlipResults(w)
  BY <1>0, <1>6, FlipShape
<1>7. CASE InsertEscalation(w)
  <2> DEFINE new == EscalationOf(w)
  <2>1. new = EscalationOf(w)'
    BY <1>7 DEF InsertEscalation, EscalationOf, RouteEscalationReason, HighValue, ValidateAction
  <2> HIDE DEF new
  <2>2. /\ pc'[w] = "tail" /\ event'[w] = "escalation" /\ staged'[w].escalations = {new}
    BY <1>7 DEF InsertEscalation, Goto, Record, TypeOK, new
  <2> QED BY <2>1, <2>2
<1>8. CASE ReadTail(w) \/ AppendAudit(w)
  <2>1. CASE Abort(w)
    BY <1>1, <2>1, NothingStaged DEF Abort, TypeOK
  <2>2. CASE ~Abort(w)
    <3>1. /\ pc[w] \in Recording /\ pc'[w] \in Recording
          /\ staged'[w].escalations = staged[w].escalations
          /\ UNCHANGED <<call, finding, event>>
      BY <1>8, <2>2 DEF TypeOK, ReadTail, AppendAudit, Goto
    <3>2. EscalationOf(w)' = EscalationOf(w)
      BY <3>1 DEF EscalationOf, RouteEscalationReason, HighValue, ValidateAction
    <3> QED BY <1>0, <3>1, <3>2
  <2> QED BY <2>1, <2>2
<1>9. CASE Commit(w)
  BY <1>1, <1>9, NothingStaged DEF Commit, Goto, TypeOK
<1>10. CASE Crash(w)
  BY <1>1, <1>10, NothingStaged DEF Crash, TypeOK
<1>11. ASSUME NEW f \in Findings, Begin(w, f) PROVE EscalationRows(w)'
  <2>1. pc[w] = "idle" /\ staged' = staged
        /\ (pc'[w] \in Recording => event'[w] \in {"claim:BLOCKED", "rebill:BLOCKED"})
    BY <1>11 DEF Begin, Record, Goto, TypeOK
  <2> QED BY <1>0, <2>1
<1> QED BY <1>2, <1>3, <1>4, <1>5, <1>6, <1>7, <1>8, <1>9, <1>10, <1>11 DEF Moves, Step

LEMMA MoveTold ==
    ASSUME LedgerInv, NEW w \in Workers, Moves(w)
    PROVE  Told(w)'
<1> USE LedgerTypes DEF Told, Recorded, Recording
<1>0. Told(w)
  BY DEF LedgerInv, Whole
<1>1. CASE pc'[w] = "idle"
  BY <1>1
<1>2. ASSUME pc[w] # "idle", UNCHANGED <<finding, call, external>>,
             \A act \in {"claim", "rebill"} : Recorded(w, act)' <=> Recorded(w, act)
      PROVE  Told(w)'
  BY <1>0, <1>2 DEF External, external, ToldInsurer, ToldBilling
<1>3. CASE ReserveClaim(w) \/ LoseReservation(w)
  BY <1>2, <1>3 DEF ReserveClaim, LoseReservation, Goto, TypeOK
<1>4. CASE LookUpClaim(w)
  BY <1>2, <1>4 DEF LookUpClaim, Goto, Record, TypeOK
<1>5. CASE AmendClaim(w)
  <2>1. CASE Abort(w)
    BY <1>1, <2>1 DEF Abort, TypeOK
  <2>2. CASE ~Abort(w)
    BY <1>2, <1>5, <2>2, AmendShape
  <2> QED BY <2>1, <2>2
<1>6. CASE SubmitClaim(w)
  <2>1. insurerCalls' = insurerCalls \cup {ToldInsurer(w)} /\ UNCHANGED <<call, finding>>
        /\ pc'[w] = "tail" /\ event'[w] = "claim"
    BY <1>6 DEF SubmitClaim, Goto, Record, TypeOK, ToldInsurer
  <2> QED BY <2>1 DEF ToldInsurer
<1>7. CASE ScanResults(w)
  BY <1>2, <1>7 DEF ScanResults, Goto, Record, TypeOK
<1>8. CASE FlipResults(w)
  BY <1>2, <1>8 DEF FlipResults, Goto, Record, TypeOK
<1>9. CASE RequestRebilling(w)
  <2>1. billingCalls' = billingCalls \cup {ToldBilling(w)} /\ UNCHANGED <<call, finding>>
        /\ pc'[w] = "tail" /\ event'[w] = "rebill"
    BY <1>9 DEF RequestRebilling, Goto, Record, TypeOK, ToldBilling
  <2>2. pc[w] = "rebill" /\ insurerCalls' = insurerCalls
    BY <1>9 DEF RequestRebilling
  <2>3. \A x \in insurerCalls : x.call # call[w]
    BY <1>0, <2>2 DEF External
  <2> QED BY <2>1, <2>2, <2>3 DEF ToldBilling
<1>10. CASE InsertEscalation(w) \/ ReadTail(w)
  BY <1>2, <1>10 DEF InsertEscalation, ReadTail, Goto, Record, TypeOK
<1>11. CASE AppendAudit(w)
  <2>1. CASE Abort(w)
    BY <1>1, <2>1 DEF Abort, TypeOK
  <2>2. CASE ~Abort(w)
    BY <1>2, <1>11, <2>2 DEF AppendAudit, Goto, TypeOK
  <2> QED BY <2>1, <2>2
<1>12. CASE Commit(w)
  <2>1. CASE pc'[w] # "idle"
    BY <1>2, <1>12, <2>1, CommitPublishes DEF Commit, Goto, TypeOK, LedgerInv, Refusals
  <2> QED BY <1>1, <2>1
<1>13. CASE Crash(w)
  BY <1>1, <1>13 DEF Crash, TypeOK
<1>14. ASSUME NEW f \in Findings, Begin(w, f) PROVE Told(w)'
  <2>1. /\ call'[w] = begun + 1 /\ UNCHANGED external /\ begun \in Nat
        /\ pc'[w] \in Recording => event'[w] \in {"claim:BLOCKED", "rebill:BLOCKED"}
    BY <1>14 DEF Begin, Record, Goto, TypeOK
  <2>2. \A x \in External : x.call \in Nat /\ x.call <= begun
    BY DEF External, LedgerInv, CallsTold, TypeOK
  <2>3. External' = External
    BY <2>1 DEF External, external
  <2>4. ASSUME NEW x \in External PROVE x.call # begun + 1
    BY <2>1, <2>2
  <2> QED BY <2>1, <2>3, <2>4
<1> QED BY <1>3, <1>4, <1>5, <1>6, <1>7, <1>8, <1>9, <1>10, <1>11, <1>12, <1>13, <1>14
        DEF Moves, Step

(* A commit publishes the row about its own call, and no other.            *)
LEMMA CommitEvents ==
    ASSUME LedgerInv, NEW w \in Workers, Commit(w)
    PROVE  \E row \in staged[w].audit : row.event = Payload(w) /\ audit' = audit \cup {row}
<1>1. PICK row \in staged[w].audit : row.event = Payload(w)
  BY DEF LedgerInv, HandoverInv, EvidenceInv, Evident, RowHeld, Commit
<1>2. audit' = audit \cup {row}
  BY <1>1 DEF Commit, LedgerInv, HandoverInv, ChainInv, OpenRowsContinue
<1> QED BY <1>1, <1>2

LEMMA MoveAccounted ==
    ASSUME LedgerInv, NEW w \in Workers, Moves(w)
    PROVE  Accounted(w)'
<1> USE LedgerTypes
<1>0. Accounted(w) /\ Routed(w)
  BY DEF LedgerInv, Whole
<1>1. CASE pc'[w] = "idle"
  BY <1>1 DEF Accounted
<1>2. ASSUME pc[w] # "idle", UNCHANGED <<finding, call, audit>>,
             ForHuman(w)' <=> ForHuman(w)
      PROVE  Accounted(w)'
  <2>1. RefusalOf(w)' = RefusalOf(w) /\ EventsOf(call[w])' = EventsOf(call[w])
    BY <1>2 DEF RefusalOf, Blocked, ValidateAction, RouteAction, EventsOf
  <2> QED BY <1>0, <1>2, <2>1 DEF Accounted, HighValue
<1> USE DEF ForHuman, Recording
<1>3. CASE ReserveClaim(w) \/ LoseReservation(w)
  BY <1>2, <1>3 DEF ReserveClaim, LoseReservation, Goto, TypeOK, tables
<1>4. CASE LookUpClaim(w)
  BY <1>2, <1>4 DEF LookUpClaim, Goto, Record, TypeOK, tables
<1>5. CASE AmendClaim(w)
  <2>1. CASE Abort(w)
    BY <1>1, <2>1 DEF Abort, TypeOK
  <2>2. CASE ~Abort(w)
    BY <1>2, <1>5, <2>2, AmendShape DEF tables
  <2> QED BY <2>1, <2>2
<1>6. CASE SubmitClaim(w)
  BY <1>2, <1>6, SubmitShape DEF tables
<1>7. CASE ScanResults(w)
  BY <1>2, <1>7 DEF ScanResults, Goto, Record, TypeOK, tables
<1>8. CASE FlipResults(w)
  BY <1>2, <1>8, FlipShape DEF tables
<1>9. CASE RequestRebilling(w)
  BY <1>2, <1>9 DEF RequestRebilling, Goto, Record, TypeOK, tables
<1>10. CASE InsertEscalation(w) \/ ReadTail(w)
  BY <1>2, <1>10 DEF InsertEscalation, ReadTail, Goto, Record, TypeOK, tables
<1>11. CASE AppendAudit(w)
  <2>1. CASE Abort(w)
    BY <1>1, <2>1 DEF Abort, TypeOK
  <2>2. CASE ~Abort(w)
    BY <1>2, <1>11, <2>2 DEF AppendAudit, Goto, TypeOK, tables
  <2> QED BY <2>1, <2>2
<1>12. CASE Commit(w) /\ pc'[w] # "idle"
  <2>1. /\ pc[w] = "commit" /\ pc'[w] = "escalate" /\ event[w] \in Refusals
        /\ UNCHANGED <<finding, call, event>>
    BY <1>12 DEF Commit, Goto, TypeOK, Refusals
  <2>2. PICK row \in staged[w].audit : row.event = Payload(w) /\ audit' = audit \cup {row}
    BY <1>12, CommitEvents
  <2>3. Payload(w) = RefusalOf(w) /\ ~HighValue(finding[w])
    BY <1>0, <2>1 DEF Payload, RefusalOf, Routed, ForRefusal
  <2>4. EventsOf(call[w]) = {}
    BY <1>0, <2>1 DEF Accounted, Refusals
  <2>5. row.event.call = call[w]
    BY <2>2 DEF Payload
  <2>6. EventsOf(call[w])' = {row.event}
    BY <2>1, <2>2, <2>4, <2>5 DEF EventsOf
  <2>7. RefusalOf(w)' = RefusalOf(w) /\ call' = call /\ finding' = finding
    BY <2>1 DEF RefusalOf, Blocked, ValidateAction, RouteAction
  <2> QED BY <2>1, <2>2, <2>3, <2>6, <2>7 DEF Accounted, HighValue
<1>13. CASE Crash(w)
  BY <1>1, <1>13 DEF Crash, TypeOK
<1>14. ASSUME NEW f \in Findings, Begin(w, f) PROVE Accounted(w)'
  <2>1. /\ call'[w] = begun + 1 /\ UNCHANGED audit /\ begun \in Nat /\ finding'[w] = f
        /\ ~HighValue(f) => ~ForHuman(w)'
    BY <1>14 DEF Begin, Record, Goto, TypeOK, tables
  <2>2. \A r \in audit : r.event.call \in Nat /\ r.event.call <= begun
    BY DEF LedgerInv, HandoverInv, CallsNumbered, TypeOK, AuditRow, Event
  <2>3. \A r \in audit : r.event.call # begun + 1
    BY <2>1, <2>2
  <2>4. EventsOf(call[w])' = {}
    BY <2>1, <2>3 DEF EventsOf
  <2> QED BY <2>1, <2>4 DEF Accounted, HighValue
<1> QED BY <1>1, <1>3, <1>4, <1>5, <1>6, <1>7, <1>8, <1>9, <1>10, <1>11, <1>12, <1>13, <1>14
        DEF Moves, Step

LEMMA MoveResultRows ==
    ASSUME LedgerInv, NEW w \in Workers, Moves(w)
    PROVE  ResultRows(w)'
<1> USE LedgerTypes
<1>0. ResultRows(w)
  BY DEF LedgerInv, Whole
<1>1. CASE staged'[w].results = {}
  BY <1>1 DEF ResultRows
<1> USE DEF Recorded, Recording
<1>2. ASSUME UNCHANGED <<finding, results>>, staged'[w].results = staged[w].results,
             pc[w] = "rebill" \/ Recorded(w, "rebill") =>
                (pc[w] = "rebill" \/ Recorded(w, "rebill"))'
      PROVE  ResultRows(w)'
  BY <1>0, <1>2 DEF ResultRows, Disputing
<1>3. CASE ReserveClaim(w) \/ LoseReservation(w)
  BY <1>2, <1>3 DEF ReserveClaim, LoseReservation, Goto, TypeOK, tables
<1>4. CASE LookUpClaim(w) \/ ScanResults(w) \/ RequestRebilling(w)
  BY <1>2, <1>4 DEF LookUpClaim, ScanResults, RequestRebilling, Goto, Record, TypeOK, tables
<1>5. CASE AmendClaim(w)
  <2>1. CASE Abort(w)
    BY <1>1, <2>1, NothingStaged DEF Abort
  <2>2. CASE ~Abort(w)
    BY <1>2, <1>5, <2>2, AmendShape DEF tables
  <2> QED BY <2>1, <2>2
<1>6. CASE SubmitClaim(w)
  BY <1>2, <1>6, SubmitShape DEF tables
<1>7. CASE FlipResults(w)
  <2>1. UNCHANGED <<finding, results>> /\ pc[w] = "flip"
    BY <1>7, FlipShape DEF tables
  <2>2. CASE staged'[w].results = staged[w].results
    BY <1>0, <1>1, <2>1, <2>2 DEF ResultRows
  <2>3. CASE pc'[w] = "rebill" /\ staged'[w].results = {Disputing(r) : r \in RowsToFlip(w)}
    <3>1. \A r \in RowsToFlip(w) : r \in results /\ r.policy = finding[w].policy
      BY <2>1 DEF RowsToFlip, SameResult, LedgerInv, HandoverInv, EvidenceInv, Evident, ResultsHeld
    <3>2. \A r, s \in RowsToFlip(w) : r = s
      BY <3>1 DEF LedgerInv, RowPerPolicy
    <3>3. CASE RowsToFlip(w) # {}
      <4>1. PICK r \in RowsToFlip(w) : RowsToFlip(w) = {r}
        BY <3>2, <3>3
      <4>2. staged'[w].results = {Disputing(r)}
        BY <2>3, <4>1
      <4> QED BY <2>1, <2>3, <3>1, <4>1, <4>2 DEF ResultRows, Disputing
    <3> QED BY <1>1, <2>3, <3>3
  <2> QED BY <1>7, <2>2, <2>3, FlipShape
<1>8. CASE InsertEscalation(w) \/ ReadTail(w)
  BY <1>2, <1>8 DEF InsertEscalation, ReadTail, Goto, Record, TypeOK, tables
<1>9. CASE AppendAudit(w)
  <2>1. CASE Abort(w)
    BY <1>1, <2>1, NothingStaged DEF Abort
  <2>2. CASE ~Abort(w)
    BY <1>2, <1>9, <2>2 DEF AppendAudit, Goto, TypeOK, tables
  <2> QED BY <2>1, <2>2
<1>10. CASE Commit(w) \/ Crash(w)
  BY <1>1, <1>10, NothingStaged DEF Commit, Crash
<1>11. ASSUME NEW f \in Findings, Begin(w, f) PROVE ResultRows(w)'
  BY <1>0, <1>1, <1>11 DEF Begin, ResultRows
<1> QED BY <1>3, <1>4, <1>5, <1>6, <1>7, <1>8, <1>9, <1>10, <1>11 DEF Moves, Step

LEMMA MoveClaimRows ==
    ASSUME LedgerInv, NEW w \in Workers, Moves(w)
    PROVE  ClaimRows(w)'
<1> USE LedgerTypes
<1>0. ClaimRows(w)
  BY DEF LedgerInv, Whole
<1> USE DEF Recorded, Recording
<1>1. CASE staged'[w].claims = {} /\ pc'[w] \in {"idle", "escalate"}
  BY <1>1 DEF ClaimRows
(* A statement that leaves the claims of w alone.                          *)
<1>2. ASSUME UNCHANGED <<finding, call, claims, insurerCalls>>,
             staged'[w].claims = staged[w].claims,
             pc[w] # "submit", pc'[w] \notin {"submit", "amend"},
             \A act \in {"claim", "claim:IDEMPOTENT"} :
                 /\ Recorded(w, act) => Recorded(w, act)'
                 /\ Recorded(w, act)' => Recorded(w, act) \/ staged[w].claims = {},
             Recorded(w, "claim")' => Recorded(w, "claim")
      PROVE  ClaimRows(w)'
  <2>1. SubmittedClaim(w)' = SubmittedClaim(w) /\ \A c : Amended(c, w)' = Amended(c, w)
    BY <1>2 DEF SubmittedClaim, NewClaim, Amended
  <2> QED BY <1>0, <1>2, <2>1 DEF ClaimRows, SameClaim
<1>3. CASE ReserveClaim(w)
  <2> DEFINE new == {NewClaim(w)}
  <2>1. staged' = [staged EXCEPT ![w].claims = new]
    BY <1>3 DEF ReserveClaim
  <2>2. new = {NewClaim(w)}' /\ new # {} /\ pc'[w] = "submit"
    BY <1>3 DEF ReserveClaim, NewClaim, Goto, TypeOK
  <2> HIDE DEF new
  <2>3. staged'[w].claims = new
    BY <2>1, OnlyClaims
  <2> QED BY <2>2, <2>3 DEF ClaimRows
<1>4. CASE LoseReservation(w)
  BY <1>2, <1>4 DEF LoseReservation, Goto, TypeOK, tables, external
<1>5. CASE LookUpClaim(w)
  <2> DEFINE existing == ExistingClaims(w)
  <2>1. \A d \in existing : d \in claims /\ SameClaim(d, finding[w])
    BY DEF ExistingClaims, SameClaim, NewClaim
  <2>2. \A d \in existing : \E x \in insurerCalls : SameCall(x, d) /\ SameClaim(x, d)
    BY <2>1 DEF LedgerInv, HandoverInv, EvidenceInv, ClaimsAreEvidenced
  <2>3. read' = [read EXCEPT ![w].claims = existing]
    BY <1>5 DEF LookUpClaim
  <2>4. /\ UNCHANGED <<finding, call, staged, claims, insurerCalls>> /\ pc[w] = "lookup"
        /\ \/ pc'[w] = "amend"
           \/ pc'[w] = "tail" /\ event'[w] = "claim:IDEMPOTENT"
    BY <1>5 DEF LookUpClaim, Goto, Record, TypeOK, tables, external
  <2> HIDE DEF existing
  <2>5. read'[w].claims = existing
    BY <2>3 DEF TypeOK
  <2>6. staged[w].claims = {}
    BY <1>0, <2>4 DEF ClaimRows
  <2> QED BY <2>1, <2>2, <2>4, <2>5, <2>6 DEF ClaimRows, SameClaim, SameCall
<1>6. CASE AmendClaim(w) /\ Abort(w)
  BY <1>1, <1>6, NothingStaged DEF Abort, TypeOK
<1>7. CASE AmendClaim(w) /\ ~Abort(w)
  <2>1. /\ staged'[w].claims = {Amended(c, w) : c \in ClaimsToAmend(w)}
        /\ pc[w] = "amend" /\ pc'[w] = "tail" /\ event'[w] = "claim:IDEMPOTENT"
        /\ UNCHANGED <<claims, insurerCalls, finding, call>>
    BY <1>7, AmendShape DEF tables, external
  <2>2. ASSUME NEW c \in ClaimsToAmend(w) PROVE c \in claims /\ SameClaim(c, finding[w])
    <3>1. PICK d \in read[w].claims : c \in claims /\ c.call = d.call
      BY DEF ClaimsToAmend
    <3>2. PICK x \in insurerCalls : SameCall(x, d) /\ SameClaim(x, d)
      BY <1>0, <2>1 DEF ClaimRows
    <3>3. PICK y \in insurerCalls : SameCall(y, c) /\ SameClaim(y, c)
      BY <3>1 DEF LedgerInv, HandoverInv, EvidenceInv, ClaimsAreEvidenced
    <3>4. x = y
      BY <3>1, <3>2, <3>3 DEF LedgerInv, CallsTold, SameCall
    <3>5. SameClaim(d, finding[w])
      BY <1>0, <2>1 DEF ClaimRows
    <3> QED BY <3>1, <3>2, <3>3, <3>4, <3>5 DEF SameClaim
  <2>3. \A c, d \in ClaimsToAmend(w) : c = d
    BY <2>2 DEF LedgerInv, OneClaimInv, OneActiveClaim, SameClaim
  <2>4. CASE ClaimsToAmend(w) = {}
    <3>1. staged'[w].claims = {}
      BY <2>1, <2>4
    <3> QED BY <2>1, <3>1 DEF ClaimRows
  <2>5. CASE ClaimsToAmend(w) # {}
    <3>1. PICK c \in ClaimsToAmend(w) : ClaimsToAmend(w) = {c}
      BY <2>3, <2>5
    <3>2. staged'[w].claims = {Amended(c, w)} /\ Amended(c, w)' = Amended(c, w)
      BY <2>1, <3>1 DEF Amended
    <3>3. c \in claims' /\ SameClaim(c, finding[w])'
      BY <2>1, <2>2 DEF SameClaim
    <3> QED BY <2>1, <3>2, <3>3 DEF ClaimRows
  <2> QED BY <2>4, <2>5
<1>8. CASE SubmitClaim(w)
  <2>1. staged[w].claims = {NewClaim(w)}
    BY <1>0, <1>8, SubmitShape DEF ClaimRows
  <2>2. /\ staged'[w].claims = {SubmittedClaim(w)} /\ UNCHANGED <<finding, call>>
        /\ pc'[w] = "tail" /\ event'[w] = "claim"
    BY <1>8, <2>1, SubmitShape DEF SubmittedClaim
  <2>3. SubmittedClaim(w)' = SubmittedClaim(w)
    BY <2>2 DEF SubmittedClaim, NewClaim
  <2> QED BY <2>2, <2>3 DEF ClaimRows
<1>9. CASE ScanResults(w) \/ RequestRebilling(w)
  BY <1>2, <1>9 DEF ScanResults, RequestRebilling, Goto, Record, TypeOK, tables, external
<1>10. CASE FlipResults(w)
  BY <1>2, <1>10, FlipShape DEF tables, external
<1>11. CASE InsertEscalation(w) \/ ReadTail(w)
  BY <1>2, <1>11 DEF InsertEscalation, ReadTail, Goto, Record, TypeOK, tables, external
<1>12. CASE AppendAudit(w)
  <2>1. CASE Abort(w)
    BY <1>1, <2>1, NothingStaged DEF Abort, TypeOK
  <2>2. CASE ~Abort(w)
    BY <1>2, <1>12, <2>2 DEF AppendAudit, Goto, TypeOK, tables, external
  <2> QED BY <2>1, <2>2
<1>13. CASE Commit(w) \/ Crash(w)
  BY <1>1, <1>13, NothingStaged DEF Commit, Crash, Goto, TypeOK
<1>14. ASSUME NEW f \in Findings, Begin(w, f) PROVE ClaimRows(w)'
  <2>1. /\ pc[w] = "idle" /\ staged' = staged /\ pc'[w] \notin {"submit", "amend"}
        /\ pc'[w] \in Recording => event'[w] \in {"claim:BLOCKED", "rebill:BLOCKED"}
    BY <1>14 DEF Begin, Record, Goto, TypeOK
  <2> QED BY <1>0, <2>1 DEF ClaimRows
<1> QED BY <1>3, <1>4, <1>5, <1>6, <1>7, <1>8, <1>9, <1>10, <1>11, <1>12, <1>13, <1>14
        DEF Moves, Step

-----------------------------------------------------------------------------
(* What another run does *)

(* What the rewriting of the results by another run leaves alone.          *)
LEMMA RewriteShape ==
    ASSUME RewriteResults
    PROVE  /\ \A v \in Workers : staged[v].results = {}
           /\ UNCHANGED <<claims, escalations, audit, external, begun>>
           /\ UNCHANGED <<pc, finding, call, event, read, staged, outcome>>
  BY Zenon DEF RewriteResults

(* What a result row reads before anybody flags it.                        *)
Undisputed == {"", "open"}

LEMMA RewrittenRows ==
    ASSUME RewriteResults
    PROVE  /\ \A r \in results' : r.state \in Undisputed /\ r.policy \in Policies
           /\ RowPerPolicy'
<1> DEFINE Rows(P, values) ==
               {[policy |-> p, gen |-> generation + 1, state |-> values[p]] : p \in P}
<1>1. \E P \in SUBSET Policies : \E values \in [P -> Undisputed] : results' = Rows(P, values)
  BY Zenon DEF RewriteResults, Undisputed
<1>2. PICK P \in SUBSET Policies : \E values \in [P -> Undisputed] : results' = Rows(P, values)
  BY <1>1, Zenon
<1>3. PICK values \in [P -> Undisputed] : results' = Rows(P, values)
  BY <1>2, Zenon
<1>4. ASSUME NEW r \in results'
      PROVE  \E p \in P : r = [policy |-> p, gen |-> generation + 1, state |-> values[p]]
  BY <1>3
<1>5. \A r \in results' : /\ r.state \in Undisputed /\ r.policy \in Policies
                          /\ r = [policy |-> r.policy, gen |-> generation + 1,
                                  state |-> values[r.policy]]
  BY <1>4
<1>6. RowPerPolicy'
  BY <1>5 DEF RowPerPolicy
<1> QED BY <1>5, <1>6

-----------------------------------------------------------------------------
(* What a step of one worker leaves to the others *)

(* The rows the open transaction of v builds on stay, and nothing is said  *)
(* about the call v is in but by v.                                        *)
LeavesAlone(v) ==
    /\ \A d \in claims : (\E c \in staged[v].claims : SameCall(c, d)) => d \in claims'
    /\ \A r \in results : (\E s \in staged[v].results : SameResult(s, r)) => r \in results'
    /\ pc[v] # "idle" =>
          /\ \A r \in audit' \ audit : r.event.call # call[v]
          /\ \A x \in External' \ External : x.call # call[v]
          /\ \A x \in insurerCalls' \ insurerCalls : x.call # call[v]

LEMMA WholeStays ==
    ASSUME NEW v \in Workers, Whole(v), Same(v), Grows, LeavesAlone(v)
    PROVE  Whole(v)'
<1> USE DEF Same, Recorded, Recording, Refusals
<1>1. Routed(v)'
  BY DEF Whole, Routed, ForClaim, ForRebill, ForRefusal, ForHuman
<1>2. ClaimRows(v)'
  <2>1. /\ NewClaim(v)' = NewClaim(v) /\ SubmittedClaim(v)' = SubmittedClaim(v)
        /\ \A c : Amended(c, v)' = Amended(c, v)
    BY DEF NewClaim, SubmittedClaim, Amended
  <2>2. ASSUME NEW c \in claims, staged[v].claims = {Amended(c, v)} PROVE c \in claims'
    <3>1. SameCall(Amended(c, v), c)
      BY DEF SameCall, Amended
    <3> QED BY <2>2, <3>1 DEF LeavesAlone
  <2> QED BY <2>1, <2>2 DEF Whole, ClaimRows, SameClaim, SameCall, Grows
<1>3. ResultRows(v)'
  <2>1. ASSUME NEW r \in results, staged[v].results = {Disputing(r)} PROVE r \in results'
    <3>1. SameResult(Disputing(r), r)
      BY DEF SameResult, Disputing
    <3> QED BY <2>1, <3>1 DEF LeavesAlone
  <2> QED BY <2>1 DEF Whole, ResultRows, Disputing
<1>4. EscalationRows(v)'
  BY DEF Whole, EscalationRows, EscalationOf, RouteEscalationReason, HighValue, ValidateAction
<1>5. Told(v)'
  BY DEF Whole, Told, ToldInsurer, ToldBilling, Grows, LeavesAlone
<1>6. Accounted(v)'
  <2>1. pc[v] # "idle" => EventsOf(call[v])' = EventsOf(call[v])
    BY DEF EventsOf, Grows, LeavesAlone
  <2>2. RefusalOf(v)' = RefusalOf(v)
    BY DEF RefusalOf, Blocked, ValidateAction, RouteAction
  <2> QED BY <2>1, <2>2 DEF Whole, Accounted, ForHuman, HighValue
<1> QED BY <1>1, <1>2, <1>3, <1>4, <1>5, <1>6 DEF Whole

(* What the statements other than a commit change of what is shared.       *)
LEMMA BetweenShared ==
    ASSUME TypeOK, NEW w \in Workers, Moves(w), ~Commit(w)
    PROVE  /\ UNCHANGED <<claims, results, audit>>
           /\ \/ UNCHANGED <<insurerCalls, billingCalls>>
              \/ /\ pc[w] = "submit" /\ UNCHANGED <<billingCalls, begun>>
                 /\ insurerCalls' = insurerCalls \cup {ToldInsurer(w)}
              \/ /\ pc[w] = "rebill" /\ UNCHANGED <<insurerCalls, begun>>
                 /\ billingCalls' = billingCalls \cup {ToldBilling(w)}
           /\ begun' = begun \/ (begun < MaxCalls /\ begun' = begun + 1)
<1> USE DEF tables, external, counters
<1>1. CASE SubmitClaim(w)
  BY <1>1 DEF SubmitClaim, ToldInsurer
<1>2. CASE RequestRebilling(w)
  BY <1>2 DEF RequestRebilling, ToldBilling
<1>3. CASE ReserveClaim(w) \/ LoseReservation(w) \/ LookUpClaim(w) \/ ScanResults(w)
           \/ FlipResults(w) \/ InsertEscalation(w) \/ ReadTail(w)
  BY <1>3 DEF ReserveClaim, LoseReservation, LookUpClaim, ScanResults, FlipResults,
     InsertEscalation, ReadTail
<1>4. CASE AmendClaim(w) \/ AppendAudit(w)
  BY <1>4 DEF AmendClaim, AppendAudit, Abort
<1>5. CASE Crash(w) \/ \E f \in Findings : Begin(w, f)
  BY <1>5 DEF Crash, Begin
<1> QED BY <1>1, <1>2, <1>3, <1>4, <1>5 DEF Moves, Step

(* Two open transactions never build on the same claim.                    *)
LEMMA ClaimsApart ==
    ASSUME LedgerInv, NEW w \in Workers, NEW v \in Others(w), pc[w] = "commit",
           NEW c \in staged[w].claims, NEW e \in staged[v].claims, NEW d \in claims,
           SameCall(d, c)
    PROVE  ~SameCall(e, d)
<1> SUFFICES ASSUME SameCall(e, d) PROVE FALSE
  OBVIOUS
<1>1. PICK y \in insurerCalls : SameCall(y, d) /\ SameClaim(y, d)
  BY DEF LedgerInv, HandoverInv, EvidenceInv, ClaimsAreEvidenced
<1>2. PICK x \in insurerCalls : SameCall(x, c) /\ SameClaim(x, c)
  BY DEF LedgerInv, HandoverInv, EvidenceInv, Evident, ClaimsHeld
<1>3. x = y
  BY <1>1, <1>2 DEF LedgerInv, CallsTold, SameCall
<1>4. v \in Workers /\ v # w
  BY DEF Others
<1>5. CASE pc[v] = "submit"
  <2>1. y.call # call[v]
    BY <1>4, <1>5 DEF LedgerInv, Whole, Told, Recorded, Recording, External
  <2>2. e.call = call[v]
    BY <1>4, <1>5 DEF LedgerInv, Whole, ClaimRows, NewClaim
  <2> QED BY <1>1, <2>1, <2>2 DEF SameCall
<1>6. CASE pc[v] # "submit"
  <2>1. PICK z \in insurerCalls : SameCall(z, e) /\ SameClaim(z, e)
    BY <1>4, <1>6 DEF LedgerInv, HandoverInv, EvidenceInv, Evident, ClaimsHeld
  <2>2. z = y
    BY <1>1, <2>1 DEF LedgerInv, CallsTold, SameCall
  <2>3. SameClaim(c, e)
    BY <1>2, <1>3, <2>1, <2>2 DEF SameClaim
  <2> QED BY <1>4, <2>3 DEF LedgerInv, OneClaimInv, ReservationsExclusive
<1> QED BY <1>5, <1>6

LEMMA OthersLeftAlone ==
    ASSUME LedgerInv, NEW w \in Workers, Moves(w), NEW v \in Others(w)
    PROVE  LeavesAlone(v)
<1> USE LedgerTypes
<1>0. v \in Workers /\ v # w /\ (pc[w] # "idle" /\ pc[v] # "idle" => call[w] # call[v])
  BY DEF Others, LedgerInv, HandoverInv, CallsNumbered
<1>1. CASE Commit(w)
  <2>1. /\ pc[w] = "commit" /\ UNCHANGED <<insurerCalls, billingCalls>>
        /\ claims' = {c \in claims : \A d \in staged[w].claims : ~SameCall(c, d)}
                        \cup staged[w].claims
        /\ results' = {r \in results : \A s \in staged[w].results : ~SameResult(r, s)}
                         \cup staged[w].results
    BY <1>1 DEF Commit, external
  <2>2. ASSUME NEW d \in claims, NEW e \in staged[v].claims, SameCall(e, d)
        PROVE  d \in claims'
    <3>1. \A c \in staged[w].claims : ~SameCall(d, c)
      BY <2>1, <2>2, ClaimsApart
    <3> QED BY <2>1, <3>1
  <2>3. ASSUME NEW r \in results, NEW s \in staged[v].results, SameResult(s, r)
        PROVE  r \in results'
    <3>1. \A t \in staged[w].results : ~SameResult(r, t)
      BY <1>0, <2>3 DEF LedgerInv, RowsExclusive, SameResult
    <3> QED BY <2>1, <3>1
  <2>4. ASSUME NEW r \in audit' \ audit PROVE r.event.call = call[w]
    <3>1. PICK row \in staged[w].audit : row.event = Payload(w) /\ audit' = audit \cup {row}
      BY <1>1, CommitEvents
    <3> QED BY <3>1 DEF Payload
  <2>5. External' = External
    BY <2>1 DEF External
  <2> QED BY <1>0, <2>1, <2>2, <2>3, <2>4, <2>5 DEF LeavesAlone
<1>2. CASE ~Commit(w)
  <2>1. UNCHANGED <<claims, results, audit>>
    BY <1>2, BetweenShared
  <2>2. ASSUME NEW x \in External' \ External PROVE pc[w] # "idle" /\ x.call = call[w]
    BY <1>2, <2>2, BetweenShared DEF External, ToldInsurer, ToldBilling
  <2>3. ASSUME NEW x \in insurerCalls' \ insurerCalls PROVE pc[w] # "idle" /\ x.call = call[w]
    BY <1>2, <2>3, BetweenShared DEF ToldInsurer
  <2> QED BY <1>0, <2>1, <2>2, <2>3 DEF LeavesAlone
<1> QED BY <1>1, <1>2

-----------------------------------------------------------------------------
(* The invariant *)

LEMMA LedgerShared ==
    ASSUME LedgerInv, NEW w \in Workers, Moves(w)
    PROVE  CallsTold' /\ RowPerPolicy'
<1> USE LedgerTypes
<1>0. RowPerPolicy
  BY DEF LedgerInv
<1>1. CASE Commit(w)
  <2>1. /\ UNCHANGED <<insurerCalls, billingCalls, begun>>
        /\ results' = {r \in results : \A s \in staged[w].results : ~SameResult(r, s)}
                         \cup staged[w].results
    BY <1>1 DEF Commit, external, counters
  <2>2. CallsTold'
    BY <2>1 DEF LedgerInv, CallsTold, External, SameCall
  <2>3. CASE staged[w].results = {}
    <3>1. \A s \in results' : s \in results
      BY <2>1, <2>3
    <3> QED BY <1>0, <2>2, <3>1 DEF RowPerPolicy
  <2>4. CASE staged[w].results # {}
    <3>1. PICK r \in results : staged[w].results = {Disputing(r)}
      BY <2>4 DEF LedgerInv, Whole, ResultRows
    <3>2. SameResult(r, Disputing(r)) /\ Disputing(r).policy = r.policy
      BY DEF SameResult, Disputing
    <3> HIDE DEF Disputing
    <3>3. \A s \in results' : s = Disputing(r) \/ (s \in results /\ s # r)
      BY <2>1, <3>1, <3>2
    <3> DEFINE flipped == Disputing(r)
    <3> HIDE DEF flipped
    <3>4. \A s \in results' : s = flipped \/ (s \in results /\ s.policy # r.policy)
      BY <1>0, <3>3 DEF RowPerPolicy, flipped
    <3>5. flipped.policy = r.policy
      BY <3>2 DEF flipped
    <3> QED BY <1>0, <2>2, <3>4, <3>5 DEF RowPerPolicy
  <2> QED BY <2>2, <2>3, <2>4
<1>2. CASE ~Commit(w)
  <2>1. /\ UNCHANGED results /\ begun \in Nat /\ MaxCalls \in Nat
        /\ begun <= begun' /\ begun' <= MaxCalls /\ begun' \in Nat
    BY <1>2, BetweenShared, BoundsAssumption DEF LedgerInv, CallsTold, TypeOK
  <2>2. RowPerPolicy'
    BY <2>1 DEF LedgerInv, RowPerPolicy
  <2>3. \A x \in External : x.call \in Nat /\ x.call <= begun
    BY DEF LedgerInv, CallsTold, External, TypeOK
  <2>4. call[w] \in Nat /\ call[w] <= begun
    BY DEF LedgerInv, HandoverInv, CallsNumbered, TypeOK
  <2>5. \A x \in External' : x \in External \/ x.call = call[w]
    BY <1>2, BetweenShared DEF External, ToldInsurer, ToldBilling
  <2>6. \A x \in External' : x.call <= begun'
    BY <2>1, <2>3, <2>4, <2>5
  <2>7. \A x, y \in insurerCalls' : SameCall(x, y) => x = y
    <3>1. CASE insurerCalls' = insurerCalls
      BY <3>1 DEF LedgerInv, CallsTold
    <3>2. CASE pc[w] = "submit" /\ insurerCalls' = insurerCalls \cup {ToldInsurer(w)}
      <4>1. \A x \in insurerCalls : x.call # call[w]
        BY <3>2 DEF LedgerInv, Whole, Told, Recorded, Recording, External
      <4>2. ToldInsurer(w).call = call[w]
        BY DEF ToldInsurer
      <4> HIDE DEF ToldInsurer
      <4> QED BY <3>2, <4>1, <4>2 DEF LedgerInv, CallsTold, SameCall
    <3> QED BY <1>2, <3>1, <3>2, BetweenShared
  <2>8. CallsTold'
    BY <2>1, <2>6, <2>7 DEF CallsTold, SameCall
  <2> QED BY <2>2, <2>8
<1> QED BY <1>1, <1>2

(* A row is flipped only when no other open transaction has flipped it.    *)
LEMMA FlippedApart ==
    ASSUME LedgerInv, NEW w \in Workers, Moves(w)
    PROVE  RowsExclusive'
<1> USE LedgerTypes
<1>1. \A v \in Others(w) : staged'[v] = staged[v]
  BY OthersSame DEF Same
<1>2. CASE staged'[w].results \subseteq staged[w].results
  BY <1>1, <1>2 DEF LedgerInv, RowsExclusive, SameResult, Others
<1>3. CASE /\ staged'[w].results = {Disputing(r) : r \in RowsToFlip(w)}
           /\ \A v \in Others(w) : \A r \in staged[v].results :
                 \A d \in RowsToFlip(w) : ~SameResult(r, d)
  <2>1. ASSUME NEW r \in staged'[w].results, NEW v \in Others(w), NEW s \in staged[v].results
        PROVE  ~SameResult(r, s) /\ ~SameResult(s, r)
    <3>1. PICK d \in RowsToFlip(w) : r = Disputing(d)
      BY <1>3
    <3> QED BY <1>3, <3>1 DEF SameResult, Disputing
  <2> QED BY <1>1, <2>1 DEF LedgerInv, RowsExclusive, SameResult, Others
<1>4. CASE FlipResults(w)
  BY <1>2, <1>3, <1>4, FlipShape
<1>5. CASE AmendClaim(w) \/ AppendAudit(w)
  <2>1. CASE Abort(w)
    BY <1>2, <2>1, NothingStaged DEF Abort
  <2>2. CASE ~Abort(w)
    BY <1>2, <1>5, <2>2, AmendShape DEF AppendAudit, TypeOK
  <2> QED BY <2>1, <2>2
<1>6. CASE SubmitClaim(w)
  BY <1>2, <1>6, SubmitShape
<1>7. CASE Commit(w) \/ Crash(w)
  BY <1>2, <1>7, NothingStaged DEF Commit, Crash
<1>8. CASE ReserveClaim(w) \/ LoseReservation(w) \/ LookUpClaim(w) \/ ScanResults(w)
           \/ RequestRebilling(w) \/ InsertEscalation(w) \/ ReadTail(w)
  BY <1>2, <1>8 DEF ReserveClaim, LoseReservation, LookUpClaim, ScanResults,
     RequestRebilling, InsertEscalation, ReadTail, TypeOK
<1>9. CASE \E f \in Findings : Begin(w, f)
  BY <1>2, <1>9 DEF Begin
<1> QED BY <1>4, <1>5, <1>6, <1>7, <1>8, <1>9 DEF Moves, Step

LEMMA MoveLedger ==
    ASSUME LedgerInv, NEW w \in Workers, Moves(w), Grows
    PROVE  /\ CallsTold' /\ RowPerPolicy' /\ RowsExclusive'
           /\ \A v \in Workers : Whole(v)'
<1>1. Whole(w)'
  BY MoveRouted, MoveClaimRows, MoveResultRows, MoveEscalationRows, MoveTold, MoveAccounted
  DEF Whole
<1>2. ASSUME NEW v \in Others(w) PROVE Whole(v)'
  BY OthersSame, OthersLeftAlone, WholeStays, LedgerTypes DEF LedgerInv, Others
<1> QED BY <1>1, <1>2, LedgerShared, FlippedApart DEF Others

(* Another run clears or rewrites no row an open transaction builds on.    *)
LEMMA RunsLeaveAlone ==
    ASSUME LedgerInv, ResetActionTables \/ RewriteResults, NEW v \in Workers
    PROVE  LeavesAlone(v)
<1> USE LedgerTypes DEF LeavesAlone, External, external, tables
<1>1. CASE ResetActionTables
  <2>1. \A c \in staged[v].claims : \A d \in claims : ~SameCall(c, d)
    BY <1>1 DEF ResetActionTables
  <2> QED BY <1>1, <2>1 DEF ResetActionTables
<1>2. CASE RewriteResults
  BY <1>2, RewriteShape
<1> QED BY <1>1, <1>2

LEMMA LedgerNext == LedgerInv /\ [Next]_vars => LedgerInv'
<1> SUFFICES ASSUME LedgerInv, [Next]_vars
             PROVE  /\ CallsTold' /\ RowPerPolicy' /\ RowsExclusive'
                    /\ \A w \in Workers : Whole(w)'
  BY HandoverNext, OneClaimNext, SubmitHoldsNext DEF LedgerInv
<1>1. Grows
  BY EvidenceGrows
<1>2. ASSUME NEW w \in Workers, Moves(w)
      PROVE  /\ CallsTold' /\ RowPerPolicy' /\ RowsExclusive'
             /\ \A v \in Workers : Whole(v)'
  BY <1>1, <1>2, MoveLedger
<1>3. CASE ResetActionTables \/ RewriteResults
  <2>1. \A v \in Workers : Same(v)
    BY <1>3, RewriteShape DEF ResetActionTables, Same
  <2>2. UNCHANGED <<insurerCalls, billingCalls, begun, staged>>
    BY <1>3, RewriteShape DEF ResetActionTables, external
  <2>3. CallsTold' /\ RowsExclusive'
    BY <2>2 DEF LedgerInv, CallsTold, External, SameCall, RowsExclusive, SameResult
  <2>4. RowPerPolicy'
    BY <1>3, RewrittenRows DEF ResetActionTables, LedgerInv, RowPerPolicy
  <2>5. \A v \in Workers : Whole(v)'
    BY <1>1, <1>3, <2>1, RunsLeaveAlone, WholeStays DEF LedgerInv
  <2> QED BY <2>3, <2>4, <2>5
<1>4. CASE UNCHANGED vars
  <2>1. \A v \in Workers : Same(v) /\ LeavesAlone(v)
    BY <1>4 DEF vars, tables, external, Same, LeavesAlone, External
  <2>2. \A v \in Workers : Whole(v)'
    BY <1>1, <2>1, WholeStays DEF LedgerInv
  <2>3. CallsTold' /\ RowPerPolicy' /\ RowsExclusive'
    BY <1>4 DEF vars, tables, external, counters, LedgerInv, CallsTold, External,
       SameCall, RowPerPolicy, RowsExclusive, SameResult
  <2> QED BY <2>2, <2>3
<1> QED BY <1>2, <1>3, <1>4 DEF Next, Done, Moves

LEMMA LedgerInit == Init => LedgerInv
<1> SUFFICES ASSUME Init PROVE LedgerInv
  OBVIOUS
<1>1. HandoverInv /\ TypeOK
  BY HandoverInit, InitType
<1>2. OneClaimInv /\ SubmitHolds
  BY <1>1 DEF Init, OneClaimInv, OneActiveClaim, ReservationsExclusive, SubmitHolds, NoRows
<1>3. CallsTold /\ RowsExclusive
  BY BoundsAssumption DEF Init, CallsTold, External, RowsExclusive, NoRows
<1>4. RowPerPolicy
  BY DEF Init, RowPerPolicy
<1>5. ASSUME NEW w \in Workers PROVE Whole(w)
  <2>1. /\ pc[w] = "idle" /\ staged[w] = NoRows /\ finding[w] \in Findings
    BY FindingsAssumption DEF Init
  <2> QED BY <2>1 DEF Whole, Routed, ClaimRows, ResultRows, EscalationRows, Told, Accounted,
          ForClaim, ForRebill, ForRefusal, ForHuman, Recorded, Recording, NoRows
<1> QED BY <1>1, <1>2, <1>3, <1>4, <1>5 DEF LedgerInv

-----------------------------------------------------------------------------
(* A step of the action layer is a step of the ledger *)

(* The ledger judges a finding as the action layer does.                   *)
LEMMA SameJudgement ==
    ASSUME NEW f
    PROVE  /\ Ledger!HighValue(f) <=> HighValue(f)
           /\ Ledger!ValidateAction(f) = ValidateAction(f)
           /\ Ledger!RouteEscalationReason(f) = RouteEscalationReason(f)
           /\ Ledger!Refusal(f) = Blocked(f)
           /\ \A action : Ledger!GivenTo(action, f) <=> Passes(action, f)
<1>1. /\ Ledger!HighValue(f) <=> HighValue(f)
      /\ Ledger!ValidateAction(f) = ValidateAction(f)
      /\ Ledger!RouteAction(f) = RouteAction(f)
  BY DEF Ledger!HighValue, HighValue, Ledger!ValidateAction, ValidateAction,
     Ledger!RouteAction, RouteAction, Ledger!ValidReasonCodes, ValidReasonCodes,
     Ledger!Claimable, Claimable
<1> QED BY <1>1 DEF Ledger!RouteEscalationReason, RouteEscalationReason,
        Ledger!Refusal, Blocked, Ledger!GivenTo, Passes

(* The entries of a call are what its audit rows record.                   *)
LEMMA EntriesOfCall ==
    ASSUME ChainInv, NEW n
    PROVE  Ledger!Entries(n) = EventsOf(n)
<1> DEFINE size == Cardinality(audit)
           event_(i) == AuditInOrder[i].event
<1>1. /\ \A r \in audit : r.seq \in 1..size /\ AuditInOrder[r.seq] = r
      /\ \A i \in 1..size : AuditInOrder[i] \in audit
  BY InOrder DEF Ordered
<1>2. DOMAIN EventsInOrder = 1..size /\ \A i \in 1..size : EventsInOrder[i] = event_(i)
  BY DEF EventsInOrder
<1> HIDE DEF size
<1>3. Ledger!Entries(n) = {EventsInOrder[i] : i \in {i \in 1..size : EventsInOrder[i].call = n}}
  BY <1>2 DEF Ledger!Entries
<1>4. ASSUME NEW x \in Ledger!Entries(n) PROVE x \in EventsOf(n)
  <2>1. PICK i \in 1..size : x = AuditInOrder[i].event /\ x.call = n
    BY <1>2, <1>3, <1>4
  <2> QED BY <1>1, <2>1 DEF EventsOf
<1>5. ASSUME NEW x \in EventsOf(n) PROVE x \in Ledger!Entries(n)
  <2>1. PICK r \in audit : x = r.event /\ x.call = n
    BY <1>5 DEF EventsOf
  <2>2. r.seq \in 1..size /\ EventsInOrder[r.seq] = x
    BY <1>1, <1>2, <2>1
  <2> QED BY <1>3, <2>1, <2>2
<1> QED BY <1>4, <1>5

(* The numbers, findings and judgements a call of w has in the ledger.     *)
LEMMA CallInLedger ==
    ASSUME LedgerInv, NEW w \in Workers, pc[w] # "idle"
    PROVE  /\ call[w] \in 1..MaxCalls /\ finding[w] \in Findings
           /\ ~Recorded(w, "claim") /\ ~Recorded(w, "rebill") => Ledger!Untold(call[w])
           /\ ~ForHuman(w) \/ HighValue(finding[w]) => Ledger!Entries(call[w]) = {}
           /\ ForHuman(w) /\ ~HighValue(finding[w]) => Ledger!Entries(call[w]) = {RefusalOf(w)}
<1>1. Routed(w) /\ Told(w) /\ Accounted(w)
  BY DEF LedgerInv, Whole
<1>2. Ledger!Entries(call[w]) = EventsOf(call[w])
  BY EntriesOfCall DEF LedgerInv, HandoverInv
<1>3. ~Recorded(w, "claim") /\ ~Recorded(w, "rebill") => Ledger!Untold(call[w])
  BY <1>1 DEF Told, External, Ledger!Untold
<1> QED BY <1>1, <1>2, <1>3 DEF Routed, Accounted

LEMMA CommitRecords ==
    ASSUME LedgerInv, ChainInv', NEW w \in Workers, Commit(w)
    PROVE  Ledger!Record(call[w], finding[w], event[w])
<1>1. PICK row \in staged[w].audit : row.event = Payload(w)
  BY CommitEvents
<1>2. Publishes(w)
  BY ForgetKeepsChain, LedgerTypes DEF Commit, Publishes
<1> DEFINE size == Cardinality(audit)
<1>3. Cardinality(audit') = size + 1 /\ AuditInOrder' = Append(AuditInOrder, row)
  BY <1>2, RowAppended DEF LedgerInv, HandoverInv
<1>4. /\ AuditInOrder \in Seq(AuditRow) /\ size \in Nat /\ Len(AuditInOrder) = size
      /\ \A i \in 1..size : AuditInOrder[i] \in audit
  BY InOrder DEF Ordered, LedgerInv, HandoverInv
<1>5. /\ EventsInOrder = [i \in 1..size |-> AuditInOrder[i].event]
      /\ EventsInOrder' = [i \in 1..(size + 1) |-> Append(AuditInOrder, row)[i].event]
  BY <1>3 DEF EventsInOrder
<1>6. row \in AuditRow
  BY LedgerTypes DEF TypeOK
<1> HIDE DEF size
<1> DEFINE rows == AuditInOrder
<1> HIDE DEF rows
<1>7. /\ \A i \in 1..size : Append(rows, row)[i] = rows[i]
      /\ Append(rows, row)[size + 1] = row
  BY <1>4, <1>6 DEF rows
<1> DEFINE old == EventsInOrder
           new == EventsInOrder'
<1>8. /\ old = [i \in 1..size |-> rows[i].event]
      /\ new = [i \in 1..(size + 1) |-> Append(rows, row)[i].event]
  BY <1>5 DEF rows
<1>9. \A r \in AuditRow : r.event \in Event
  BY DEF AuditRow
<1>10. row.event \in Event /\ \A i \in 1..size : rows[i].event \in Event
  BY <1>4, <1>6, <1>9, LedgerTypes DEF TypeOK, rows
<1> HIDE DEF old, new
<1>11. \A i \in 1..(size + 1) : i \in 1..size \/ i = size + 1
  BY <1>4
<1>12. /\ \A i \in 1..size : new[i] = rows[i].event /\ i \in 1..(size + 1)
       /\ new[size + 1] = row.event /\ size + 1 \in 1..(size + 1)
  <2>1. (\A i \in 1..size : i \in 1..(size + 1)) /\ size + 1 \in 1..(size + 1)
    BY <1>4
  <2>2. \A i \in 1..(size + 1) : new[i] = Append(rows, row)[i].event
    BY <1>8
  <2> QED BY <1>7, <2>1, <2>2
<1>13. old \in Seq(Event) /\ Len(old) = size
  BY <1>4, <1>8, <1>10
<1>14. new \in Seq(Event) /\ Len(new) = size + 1
  <2>1. \A i \in 1..(size + 1) : new[i] \in Event
    BY <1>10, <1>11, <1>12
  <2>2. new = [i \in 1..(size + 1) |-> new[i]]
    BY <1>8
  <2>3. new \in [1..(size + 1) -> Event]
    BY <2>1, <2>2
  <2> QED BY <1>4, <2>3
<1>15. new = Append(old, row.event)
  <2>1. /\ \A i \in 1..size : Append(old, row.event)[i] = old[i]
        /\ Append(old, row.event)[size + 1] = row.event
    BY <1>4, <1>10, <1>13
  <2>3. \A i \in 1..size : old[i] = rows[i].event
    BY <1>8
  <2>4. \A i \in 1..(size + 1) : new[i] = Append(old, row.event)[i]
    BY <1>11, <1>12, <2>1, <2>3
  <2>2. Append(old, row.event) \in Seq(Event) /\ Len(Append(old, row.event)) = size + 1
    BY <1>10, <1>13
  <2> QED BY <1>14, <2>2, <2>4, SeqEqual
<1>16. Payload(w) = Ledger!Entry(call[w], finding[w], event[w])
  BY SameJudgement DEF Payload, Ledger!Entry
<1> QED BY <1>1, <1>15, <1>16 DEF Ledger!Record, old, new

(* What a commit makes of the tables.                                      *)
LEMMA CommitShape ==
    ASSUME LedgerInv, NEW w \in Workers, Commit(w)
    PROVE  /\ pc[w] = "commit" /\ UNCHANGED <<insurerCalls, billingCalls>>
           /\ claims' = {c \in claims : \A d \in staged[w].claims : ~SameCall(c, d)}
                            \cup staged[w].claims
           /\ results' = {r \in results : \A s \in staged[w].results : ~SameResult(r, s)}
                             \cup staged[w].results
           /\ escalations' = escalations \cup staged[w].escalations
           /\ staged[w].claims = {} => claims' = claims
           /\ staged[w].results = {} => results' = results
           /\ ~Recorded(w, "escalation") => escalations' = escalations
<1>1. /\ pc[w] = "commit" /\ UNCHANGED <<insurerCalls, billingCalls>>
      /\ claims' = {c \in claims : \A d \in staged[w].claims : ~SameCall(c, d)}
                       \cup staged[w].claims
      /\ results' = {r \in results : \A s \in staged[w].results : ~SameResult(r, s)}
                        \cup staged[w].results
      /\ escalations' = escalations \cup staged[w].escalations
  BY DEF Commit, external
<1>2. ~Recorded(w, "escalation") => staged[w].escalations = {}
  BY DEF LedgerInv, Whole, EscalationRows
<1> QED BY <1>1, <1>2

(* A commit is the step its event names.                                   *)
LEMMA CommitCreates ==
    ASSUME LedgerInv, ChainInv', NEW w \in Workers, Commit(w), event[w] = "claim"
    PROVE  Ledger!CreateClaim(call[w], finding[w])
<1> DEFINE new == SubmittedClaim(w)
<1>1. pc[w] = "commit" /\ Recorded(w, "claim") /\ ForClaim(w) /\ ~ForHuman(w)
  BY DEF Commit, Recorded, Recording, ForClaim, ForHuman
<1>2. Routed(w) /\ ClaimRows(w) /\ ResultRows(w) /\ Told(w)
  BY DEF LedgerInv, Whole
<1>3. /\ staged[w].claims = {new} /\ staged[w].results = {}
      /\ ToldInsurer(w) \in insurerCalls /\ Passes("claim", finding[w])
      /\ ~Recorded(w, "escalation")
  BY <1>1, <1>2 DEF ClaimRows, ResultRows, Recorded, Told, Routed
<1>4. Ledger!Entries(call[w]) = {}
  BY <1>1, CallInLedger
<1>5. /\ new = [call |-> call[w], policy |-> finding[w].policy, reason |-> finding[w].reason,
                amount |-> finding[w].amount, status |-> "submitted"]
      /\ ToldInsurer(w) = Ledger!Lodged(call[w], finding[w])
  BY DEF SubmittedClaim, NewClaim, ToldInsurer, Ledger!Lodged
<1>6. \A c \in claims : c.call # call[w]
  <2>1. \A c \in claims : \E r \in audit : r.event.call = c.call
    BY DEF LedgerInv, HandoverInv, EvidenceInv, ClaimsAreEvidenced
  <2>2. EventsOf(call[w]) = {}
    BY <1>1 DEF LedgerInv, Whole, Accounted
  <2> QED BY <2>1, <2>2 DEF EventsOf
<1>7. \A c \in claims : ~Ledger!SameLeak(c, finding[w])
  <2>1. \A c \in claims : SameClaim(new, c) => SameCall(new, c)
    BY <1>3 DEF LedgerInv, OneClaimInv, ReservationsExclusive
  <2> QED BY <1>5, <1>6, <2>1 DEF SameClaim, SameCall, Ledger!SameLeak
<1>8. claims' = claims \cup {new}
  <2>1. claims' = {c \in claims : \A d \in staged[w].claims : ~SameCall(c, d)}
                     \cup staged[w].claims
    BY CommitShape
  <2>2. \A c \in claims : ~SameCall(c, new)
    BY <1>5, <1>6 DEF SameCall
  <2> HIDE DEF new
  <2> QED BY <1>3, <2>1, <2>2
<1>9. Ledger!GivenTo("claim", finding[w])
  BY <1>3, SameJudgement
<1>10. Ledger!Record(call[w], finding[w], "claim")
  BY CommitRecords
<1>11. UNCHANGED <<escalations, results, insurerCalls, billingCalls>>
  BY <1>3, CommitShape
<1> QED BY <1>3, <1>4, <1>5, <1>7, <1>8, <1>9, <1>10, <1>11 DEF Ledger!CreateClaim

(* Two claims of one leak, or of one call, are the same claim.             *)
LEMMA OneRowPerCall ==
    ASSUME LedgerInv, NEW c \in claims, NEW d \in claims, SameCall(c, d) \/ SameClaim(c, d)
    PROVE  c = d
<1>1. SUFFICES ASSUME SameCall(c, d) PROVE  SameClaim(c, d)
  BY DEF LedgerInv, OneClaimInv, OneActiveClaim, SameClaim
<1>2. PICK x \in insurerCalls : SameCall(x, c) /\ SameClaim(x, c)
  BY DEF LedgerInv, HandoverInv, EvidenceInv, ClaimsAreEvidenced
<1>3. PICK y \in insurerCalls : SameCall(y, d) /\ SameClaim(y, d)
  BY DEF LedgerInv, HandoverInv, EvidenceInv, ClaimsAreEvidenced
<1>4. x = y
  BY <1>1, <1>2, <1>3 DEF LedgerInv, CallsTold, SameCall
<1> QED BY <1>2, <1>3, <1>4 DEF SameClaim

LEMMA CommitFinds ==
    ASSUME LedgerInv, ChainInv', NEW w \in Workers, Commit(w), event[w] = "claim:IDEMPOTENT"
    PROVE  Ledger!FindClaim(call[w], finding[w])
<1>1. /\ pc[w] = "commit" /\ Recorded(w, "claim:IDEMPOTENT") /\ ForClaim(w) /\ ~ForHuman(w)
      /\ ~Recorded(w, "claim") /\ ~Recorded(w, "rebill") /\ ~Recorded(w, "escalation")
  BY DEF Commit, Recorded, Recording, ForClaim, ForHuman
<1>2. Routed(w) /\ ClaimRows(w) /\ ResultRows(w)
  BY DEF LedgerInv, Whole
<1>3. staged[w].results = {} /\ Passes("claim", finding[w])
  BY <1>1, <1>2 DEF ResultRows, Recorded, Routed
<1>4. Ledger!Untold(call[w]) /\ Ledger!Entries(call[w]) = {}
  BY <1>1, CallInLedger
<1>5. claims' \in {claims, Ledger!Corrected(finding[w])}
  <2>1. CASE staged[w].claims = {}
    BY <2>1, CommitShape
  <2>2. CASE staged[w].claims # {}
    <3>1. PICK c \in claims : SameClaim(c, finding[w]) /\ staged[w].claims = {Amended(c, w)}
      BY <1>1, <1>2, <2>2 DEF ClaimRows
    <3>2. \A d \in claims : Ledger!SameLeak(d, finding[w]) <=> d = c
      BY <3>1, OneRowPerCall DEF SameClaim, Ledger!SameLeak
    <3>3. \A d \in claims : SameCall(d, Amended(c, w)) <=> d = c
      <4>1. \A d \in claims : SameCall(d, Amended(c, w)) <=> SameCall(d, c)
        BY DEF SameCall, Amended
      <4>2. SameCall(c, c)
        BY DEF SameCall
      <4> QED BY <4>1, <4>2, OneRowPerCall
    <3> DEFINE new == Amended(c, w)
    <3>4. new = [c EXCEPT !.amount = finding[w].amount]
      BY DEF Amended
    <3>5. claims' = {d \in claims : ~SameCall(d, new)} \cup {new}
      BY <3>1, CommitShape
    <3>6. Ledger!Corrected(finding[w]) = {IF d = c THEN new ELSE d : d \in claims}
      BY <3>2, <3>4, Zenon DEF Ledger!Corrected
    <3> HIDE DEF new
    <3>7. claims' = {d \in claims : d # c} \cup {new}
      BY <3>3, <3>5 DEF new
    <3> QED BY <3>6, <3>7
  <2> QED BY <2>1, <2>2
<1>6. Ledger!GivenTo("claim", finding[w])
  BY <1>3, SameJudgement
<1>7. Ledger!Record(call[w], finding[w], "claim:IDEMPOTENT")
  BY CommitRecords
<1>8. UNCHANGED <<escalations, results, insurerCalls, billingCalls>>
  BY <1>1, <1>3, CommitShape
<1> QED BY <1>4, <1>5, <1>6, <1>7, <1>8 DEF Ledger!FindClaim

LEMMA CommitFlags ==
    ASSUME LedgerInv, ChainInv', NEW w \in Workers, Commit(w), event[w] = "rebill"
    PROVE  Ledger!Flag(call[w], finding[w])
<1>1. /\ pc[w] = "commit" /\ Recorded(w, "rebill") /\ ForRebill(w) /\ ~ForHuman(w)
      /\ ~Recorded(w, "claim") /\ ~Recorded(w, "claim:IDEMPOTENT")
      /\ ~Recorded(w, "escalation")
  BY DEF Commit, Recorded, Recording, ForRebill, ForHuman
<1>2. Routed(w) /\ ClaimRows(w) /\ ResultRows(w) /\ Told(w)
  BY DEF LedgerInv, Whole
<1>3. /\ staged[w].claims = {} /\ Passes("rebill", finding[w])
      /\ ToldBilling(w) \in billingCalls
  BY <1>1, <1>2 DEF ClaimRows, Routed, Told
<1>4. Ledger!Entries(call[w]) = {}
  BY <1>1, CallInLedger
<1>5. Ledger!Asked(call[w], finding[w]) \in billingCalls
  BY <1>3 DEF ToldBilling, Ledger!Asked
<1>6. results' \in {results, Ledger!Disputed(finding[w])}
  <2>1. CASE staged[w].results = {}
    BY <2>1, CommitShape
  <2>2. CASE staged[w].results # {}
    <3>1. PICK r \in results : r.policy = finding[w].policy /\ staged[w].results = {Disputing(r)}
      BY <1>2, <2>2 DEF ResultRows
    <3>2. \A s \in results : s.policy = finding[w].policy <=> s = r
      BY <3>1 DEF LedgerInv, RowPerPolicy
    <3>3. \A s \in results : SameResult(s, Disputing(r)) <=> s = r
      <4>1. \A s \in results : SameResult(s, Disputing(r)) <=> SameResult(s, r)
        BY DEF SameResult, Disputing
      <4> QED BY <3>1, <3>2, <4>1 DEF SameResult
    <3> DEFINE new == Disputing(r)
    <3>4. new = [r EXCEPT !.state = "disputed"]
      BY DEF Disputing
    <3>5. results' = {s \in results : ~SameResult(s, new)} \cup {new}
      BY <3>1, CommitShape
    <3>6. Ledger!Disputed(finding[w]) = {IF s = r THEN new ELSE s : s \in results}
      BY <3>2, <3>4, Zenon DEF Ledger!Disputed
    <3> HIDE DEF new
    <3>7. results' = {s \in results : s # r} \cup {new}
      BY <3>3, <3>5 DEF new
    <3> QED BY <3>6, <3>7
  <2> QED BY <2>1, <2>2
<1>7. Ledger!GivenTo("rebill", finding[w])
  BY <1>3, SameJudgement
<1>8. Ledger!Record(call[w], finding[w], "rebill")
  BY CommitRecords
<1>9. UNCHANGED <<claims, escalations, insurerCalls, billingCalls>>
  BY <1>1, <1>3, CommitShape
<1> QED BY <1>4, <1>5, <1>6, <1>7, <1>8, <1>9 DEF Ledger!Flag

LEMMA CommitFindsFlagged ==
    ASSUME LedgerInv, ChainInv', NEW w \in Workers, Commit(w), event[w] = "rebill:IDEMPOTENT"
    PROVE  Ledger!FindFlagged(call[w], finding[w])
<1>1. /\ pc[w] = "commit" /\ ForRebill(w) /\ ~ForHuman(w)
      /\ ~Recorded(w, "claim") /\ ~Recorded(w, "claim:IDEMPOTENT")
      /\ ~Recorded(w, "rebill") /\ ~Recorded(w, "escalation")
  BY DEF Commit, Recorded, Recording, ForRebill, ForHuman
<1>2. Routed(w) /\ ClaimRows(w) /\ ResultRows(w)
  BY DEF LedgerInv, Whole
<1>3. staged[w].claims = {} /\ staged[w].results = {} /\ Passes("rebill", finding[w])
  BY <1>1, <1>2 DEF ClaimRows, ResultRows, Routed
<1>4. Ledger!Untold(call[w]) /\ Ledger!Entries(call[w]) = {}
  BY <1>1, CallInLedger
<1>5. Ledger!GivenTo("rebill", finding[w])
  BY <1>3, SameJudgement
<1>6. Ledger!Record(call[w], finding[w], "rebill:IDEMPOTENT")
  BY CommitRecords
<1> QED BY <1>1, <1>3, <1>4, <1>5, <1>6, CommitShape DEF Ledger!FindFlagged, Ledger!tables

LEMMA CommitRefuses ==
    ASSUME LedgerInv, ChainInv', NEW w \in Workers, Commit(w), event[w] \in Refusals
    PROVE  Ledger!Refuse(call[w], finding[w])
<1>1. /\ pc[w] = "commit" /\ ForRefusal(w) /\ ~ForHuman(w)
      /\ ~Recorded(w, "claim") /\ ~Recorded(w, "claim:IDEMPOTENT")
      /\ ~Recorded(w, "rebill") /\ ~Recorded(w, "escalation")
  BY DEF Commit, Recorded, Recording, ForRefusal, ForHuman, Refusals
<1>2. Routed(w) /\ ClaimRows(w) /\ ResultRows(w)
  BY DEF LedgerInv, Whole
<1>3. /\ staged[w].claims = {} /\ staged[w].results = {}
      /\ ~HighValue(finding[w]) /\ ValidateAction(finding[w]) # "OK"
      /\ event[w] = Blocked(finding[w])
  BY <1>1, <1>2 DEF ClaimRows, ResultRows, Routed
<1>4. Ledger!Untold(call[w]) /\ Ledger!Entries(call[w]) = {}
  BY <1>1, CallInLedger
<1>5. Ledger!Record(call[w], finding[w], Ledger!Refusal(finding[w]))
  BY <1>3, CommitRecords, SameJudgement
<1> QED BY <1>1, <1>3, <1>4, <1>5, CommitShape, SameJudgement
        DEF Ledger!Refuse, Ledger!tables

LEMMA CommitHandsOver ==
    ASSUME LedgerInv, ChainInv', NEW w \in Workers, Commit(w), event[w] = "escalation"
    PROVE  Ledger!HandOver(call[w], finding[w])
<1>1. /\ pc[w] = "commit" /\ ForHuman(w) /\ Recorded(w, "escalation")
      /\ ~Recorded(w, "claim") /\ ~Recorded(w, "claim:IDEMPOTENT") /\ ~Recorded(w, "rebill")
  BY DEF Commit, Recorded, Recording, ForHuman
<1>2. Routed(w) /\ ClaimRows(w) /\ ResultRows(w) /\ EscalationRows(w)
  BY DEF LedgerInv, Whole
<1>3. /\ staged[w].claims = {} /\ staged[w].results = {}
      /\ staged[w].escalations = {EscalationOf(w)} /\ NeedsHuman(finding[w])
  BY <1>1, <1>2 DEF ClaimRows, ResultRows, EscalationRows, Routed
<1>4. /\ Ledger!Untold(call[w])
      /\ Ledger!Entries(call[w]) = IF HighValue(finding[w]) THEN {} ELSE {RefusalOf(w)}
  BY <1>1, CallInLedger
<1>5. RefusalOf(w) = Ledger!Entry(call[w], finding[w], Ledger!Refusal(finding[w]))
  BY SameJudgement DEF RefusalOf, Ledger!Entry
<1>6. Ledger!Record(call[w], finding[w], "escalation")
  BY CommitRecords
<1>7. EscalationOf(w) = [call |-> call[w], policy |-> finding[w].policy,
                         reason |-> finding[w].reason,
                         why |-> Ledger!RouteEscalationReason(finding[w]),
                         amount |-> finding[w].amount]
  BY SameJudgement DEF EscalationOf
<1>8. escalations' = escalations \cup {EscalationOf(w)}
  BY <1>3, CommitShape
<1>9. UNCHANGED <<claims, results, insurerCalls, billingCalls>>
  BY <1>3, CommitShape
<1> QED BY <1>3, <1>4, <1>5, <1>6, <1>7, <1>8, <1>9, SameJudgement
        DEF Ledger!HandOver, NeedsHuman

LEMMA CommitInLedger ==
    ASSUME LedgerInv, ChainInv', NEW w \in Workers, Commit(w)
    PROVE  Ledger!Next
<1>1. pc[w] # "idle" /\ event[w] \in Labels
  BY LedgerTypes DEF Commit, TypeOK
<1>2. call[w] \in 1..MaxCalls /\ finding[w] \in Findings
  BY <1>1, CallInLedger
<1>3. Ledger!Act(call[w], finding[w])
  BY <1>1, CommitCreates, CommitFinds, CommitFlags, CommitFindsFlagged, CommitRefuses,
     CommitHandsOver DEF Labels, Refusals, Ledger!Act
<1> QED BY <1>2, <1>3 DEF Ledger!Next

(* The insurer and billing are told by steps of the ledger.                *)
LEMMA SubmitInLedger ==
    ASSUME LedgerInv, NEW w \in Workers, SubmitClaim(w)
    PROVE  Ledger!Lodge(call[w], finding[w])
<1>1. /\ pc[w] = "submit" /\ insurerCalls' = insurerCalls \cup {ToldInsurer(w)}
      /\ UNCHANGED <<tables, billingCalls>>
  BY SubmitShape, LedgerTypes
<1>2. ForClaim(w) /\ ~ForHuman(w) /\ ~Recorded(w, "claim") /\ ~Recorded(w, "rebill")
  BY <1>1 DEF ForClaim, ForHuman, Recorded, Recording
<1>3. Passes("claim", finding[w])
  BY <1>2 DEF LedgerInv, Whole, Routed
<1>4. Ledger!Untold(call[w]) /\ Ledger!Entries(call[w]) = {}
  BY <1>1, <1>2, CallInLedger
<1>5. \A c \in claims : ~Ledger!SameLeak(c, finding[w])
  BY <1>1 DEF LedgerInv, SubmitHolds, SameClaim, Ledger!SameLeak
<1>6. ToldInsurer(w) = Ledger!Lodged(call[w], finding[w])
  BY DEF ToldInsurer, Ledger!Lodged
<1>7. Ledger!GivenTo("claim", finding[w])
  BY <1>3, SameJudgement
<1>8. UNCHANGED <<claims, escalations, results, EventsInOrder>>
  BY <1>1 DEF tables, EventsInOrder, AuditInOrder
<1> QED BY <1>1, <1>4, <1>5, <1>6, <1>7, <1>8 DEF Ledger!Lodge, Ledger!tables

LEMMA RebillInLedger ==
    ASSUME LedgerInv, NEW w \in Workers, RequestRebilling(w)
    PROVE  Ledger!AskBilling(call[w], finding[w])
<1>1. /\ pc[w] = "rebill" /\ billingCalls' = billingCalls \cup {ToldBilling(w)}
      /\ UNCHANGED <<tables, insurerCalls>>
  BY DEF RequestRebilling, ToldBilling
<1>2. ForRebill(w) /\ ~ForHuman(w) /\ ~Recorded(w, "claim") /\ ~Recorded(w, "rebill")
  BY <1>1 DEF ForRebill, ForHuman, Recorded, Recording
<1>3. Passes("rebill", finding[w])
  BY <1>2 DEF LedgerInv, Whole, Routed
<1>4. Ledger!Untold(call[w]) /\ Ledger!Entries(call[w]) = {}
  BY <1>1, <1>2, CallInLedger
<1>5. ToldBilling(w) = Ledger!Asked(call[w], finding[w])
  BY DEF ToldBilling, Ledger!Asked
<1>6. Ledger!GivenTo("rebill", finding[w])
  BY <1>3, SameJudgement
<1>7. UNCHANGED <<claims, escalations, results, EventsInOrder>>
  BY <1>1 DEF tables, EventsInOrder, AuditInOrder
<1> QED BY <1>1, <1>4, <1>5, <1>6, <1>7 DEF Ledger!AskBilling, Ledger!tables

(* Nothing else a call does before its commit is seen.                     *)
LEMMA BetweenUnseen ==
    ASSUME TypeOK, NEW w \in Workers, Moves(w), ~Commit(w), ~SubmitClaim(w),
           ~RequestRebilling(w)
    PROVE  UNCHANGED Ledger!shown
<1>1. UNCHANGED <<tables, external>>
  <2>1. CASE AmendClaim(w) \/ AppendAudit(w)
    BY <2>1 DEF AmendClaim, AppendAudit, Abort
  <2>2. CASE Crash(w) \/ \E f \in Findings : Begin(w, f)
    BY <2>2 DEF Crash, Begin
  <2>3. CASE ReserveClaim(w) \/ LoseReservation(w) \/ LookUpClaim(w) \/ ScanResults(w)
             \/ FlipResults(w) \/ InsertEscalation(w) \/ ReadTail(w)
    BY <2>3 DEF ReserveClaim, LoseReservation, LookUpClaim, ScanResults, FlipResults,
       InsertEscalation, ReadTail
  <2> QED BY <2>1, <2>2, <2>3 DEF Moves, Step
<1>2. UNCHANGED EventsInOrder
  BY <1>1 DEF tables, EventsInOrder, AuditInOrder
<1> QED BY <1>1, <1>2 DEF Ledger!shown, Ledger!tables, tables, external

LEMMA RunsInLedger ==
    ASSUME ResetActionTables \/ RewriteResults
    PROVE  Ledger!Next
<1>1. CASE ResetActionTables
  <2>1. /\ claims' = {} /\ escalations' = {}
        /\ UNCHANGED <<audit, results, insurerCalls, billingCalls>>
    BY <1>1 DEF ResetActionTables, external
  <2>2. UNCHANGED EventsInOrder
    BY <2>1 DEF EventsInOrder, AuditInOrder
  <2> QED BY <2>1, <2>2 DEF Ledger!ClearTables, Ledger!Next
<1>2. CASE RewriteResults
  <2>1. UNCHANGED <<claims, escalations, audit, external>>
    BY <1>2, RewriteShape
  <2>2. UNCHANGED EventsInOrder
    BY <2>1 DEF EventsInOrder, AuditInOrder
  <2>3. /\ \A r \in results' : r.state \in Undisputed /\ r.policy \in Policies
        /\ \A r, s \in results' : r.policy = s.policy => r = s
    BY <1>2, RewrittenRows DEF RowPerPolicy
  <2>4. {r.policy : r \in results'} \subseteq Policies
    BY <2>3
  <2>5. UNCHANGED <<claims, escalations, insurerCalls, billingCalls, EventsInOrder>>
    BY <2>1, <2>2 DEF external
  <2>6. Ledger!Reconcile
    BY <2>3, <2>4, <2>5, Zenon DEF Ledger!Reconcile, Undisputed
  <2> QED BY <2>6 DEF Ledger!Next
<1> QED BY <1>1, <1>2

LEMMA StepInLedger ==
    LedgerInv /\ ChainInv' /\ [Next]_vars => [Ledger!Next]_(Ledger!shown)
<1> SUFFICES ASSUME LedgerInv, ChainInv', [Next]_vars PROVE [Ledger!Next]_(Ledger!shown)
  OBVIOUS
<1>1. ASSUME NEW w \in Workers, Moves(w) PROVE [Ledger!Next]_(Ledger!shown)
  <2>1. CASE Commit(w)
    BY <2>1, CommitInLedger
  <2>2. CASE SubmitClaim(w) \/ RequestRebilling(w)
    <3>1. pc[w] # "idle"
      BY <2>2 DEF SubmitClaim, RequestRebilling
    <3>2. call[w] \in 1..MaxCalls /\ finding[w] \in Findings
      BY <3>1, CallInLedger
    <3>3. Ledger!Act(call[w], finding[w])
      BY <2>2, SubmitInLedger, RebillInLedger DEF Ledger!Act
    <3> QED BY <3>2, <3>3 DEF Ledger!Next
  <2>3. CASE ~Commit(w) /\ ~SubmitClaim(w) /\ ~RequestRebilling(w)
    BY <1>1, <2>3, BetweenUnseen, LedgerTypes
  <2> QED BY <2>1, <2>2, <2>3
<1>2. CASE ResetActionTables \/ RewriteResults
  BY <1>2, RunsInLedger
<1>3. CASE UNCHANGED vars
  <2>1. UNCHANGED <<claims, escalations, audit, results, insurerCalls, billingCalls>>
    BY <1>3 DEF vars, tables, external
  <2>2. UNCHANGED EventsInOrder
    BY <2>1 DEF EventsInOrder, AuditInOrder
  <2> QED BY <2>1, <2>2 DEF Ledger!shown, Ledger!tables
<1> QED BY <1>1, <1>2, <1>3 DEF Next, Done, Moves

LEMMA InitInLedger == Init => Ledger!Init
<1> SUFFICES ASSUME Init PROVE Ledger!Init
  OBVIOUS
<1>1. EventsInOrder = << >>
  <2>1. audit = {} /\ ChainInv
    BY ChainInit DEF Init
  <2>2. Cardinality(audit) = 0
    BY <2>1, FS_EmptySet
  <2>3. EventsInOrder = [i \in 1..0 |-> AuditInOrder[i].event]
    BY <2>2 DEF EventsInOrder
  <2>4. EventsInOrder \in Seq(Event) /\ Len(EventsInOrder) = 0
    BY <2>3
  <2> QED BY <2>4, EmptySeq
<1>2. \A r, s \in results : r.policy = s.policy => r = s
  BY DEF Init
<1> QED BY <1>1, <1>2 DEF Init, Ledger!Init

(* Every action of route takes effect as one step: its rows appear         *)
(* together with the one audit row that accounts for them, after the       *)
(* outside system it needs was told, by a call whose finding the gate let  *)
(* through; a call that loses a race, is rolled back or dies shows nothing *)
(* (create_commission_claim, flag_for_rebilling, create_escalation and     *)
(* record_audit under route, with any number of callers).                  *)
THEOREM ActionsAreAlwaysWhole == Spec => ActionsAreWhole
<1>1. LedgerInv => ChainInv
  BY DEF LedgerInv, HandoverInv
<1> QED BY <1>1, LedgerInit, LedgerNext, InitInLedger, StepInLedger, PTL
        DEF Spec, ActionsAreWhole, Ledger!Spec
-----------------------------------------------------------------------------
(* What is on record was lodged once per reset *)

(* The calls to the insurer about a leak that the audit log accounts for.  *)
OnRecord(p, d) ==
    {x \in insurerCalls : /\ x.policy = p /\ x.reason = d
                          /\ \E r \in audit : r.event.call = x.call}

ActiveFor(p, d) == \E c \in claims : c.policy = p /\ c.reason = d

(* A leak without an active claim has a reset ahead of its record.         *)
WithinResets(p, d) ==
    /\ Cardinality(OnRecord(p, d)) <= resets + 1
    /\ ~ActiveFor(p, d) => Cardinality(OnRecord(p, d)) <= resets

RecordInv ==
    /\ LedgerInv
    /\ IsFiniteSet(insurerCalls)
    /\ \A p \in Policies : \A d \in DetectionReason : WithinResets(p, d)

LEMMA RecordIsFinite ==
    ASSUME RecordInv, NEW p, NEW d
    PROVE  IsFiniteSet(OnRecord(p, d)) /\ Cardinality(OnRecord(p, d)) \in Nat /\ resets \in Nat
<1>1. IsFiniteSet(OnRecord(p, d))
  BY FS_Subset DEF RecordInv, OnRecord
<1> QED BY <1>1, FS_CardinalityType, LedgerTypes DEF TypeOK, RecordInv

(* No step of a worker counts as a reset.                                  *)
LEMMA ResetsStay ==
    ASSUME NEW w \in Workers, Moves(w)
    PROVE  resets' = resets
<1> USE DEF counters
<1>1. CASE Step(w)
  BY <1>1 DEF Step, ReserveClaim, LoseReservation, LookUpClaim, AmendClaim, Abort,
     SubmitClaim, ScanResults, FlipResults, RequestRebilling, InsertEscalation, ReadTail,
     AppendAudit, Commit
<1>2. CASE Crash(w) \/ \E f \in Findings : Begin(w, f)
  BY <1>2 DEF Crash, Begin
<1> QED BY <1>1, <1>2 DEF Moves

(* A commit keeps an active claim for every leak that has one.             *)
LEMMA CommitKeepsActive ==
    ASSUME LedgerInv, NEW w \in Workers, Commit(w), NEW c \in claims
    PROVE  \E d \in claims' : SameClaim(d, c)
<1>1. claims' = {d \in claims : \A e \in staged[w].claims : ~SameCall(d, e)}
                   \cup staged[w].claims
  BY CommitShape
<1>2. CASE \A e \in staged[w].claims : ~SameCall(c, e)
  BY <1>1, <1>2 DEF SameClaim
<1>3. ASSUME NEW e \in staged[w].claims, SameCall(c, e) PROVE \E d \in claims' : SameClaim(d, c)
  <2>1. pc[w] = "commit" /\ ClaimRows(w)
    BY DEF Commit, LedgerInv, Whole
  <2>2. CASE Recorded(w, "claim")
    <3>1. e.call = call[w] /\ ~ForHuman(w) /\ pc[w] # "idle"
      BY <2>1, <2>2 DEF ClaimRows, SubmittedClaim, NewClaim, Recorded, ForHuman, Recording
    <3>2. EventsOf(call[w]) = {}
      BY <3>1 DEF LedgerInv, Whole, Accounted
    <3>3. \E r \in audit : r.event.call = c.call
      BY DEF LedgerInv, HandoverInv, EvidenceInv, ClaimsAreEvidenced
    <3> QED BY <1>3, <3>1, <3>2, <3>3 DEF EventsOf, SameCall
  <2>3. CASE Recorded(w, "claim:IDEMPOTENT")
    <3>1. PICK b \in claims : staged[w].claims = {Amended(b, w)}
      BY <1>3, <2>1, <2>3 DEF ClaimRows
    <3>2. b \in Claim
      BY LedgerTypes DEF TypeOK
    <3>3. /\ Amended(b, w).call = b.call /\ Amended(b, w).policy = b.policy
          /\ Amended(b, w).reason = b.reason
      BY <3>2 DEF Amended, Claim
    <3>4. b = c
      BY <1>3, <3>1, <3>3, OneRowPerCall DEF SameCall
    <3> QED BY <1>1, <3>1, <3>3, <3>4 DEF SameClaim
  <2> QED BY <1>3, <2>1, <2>2, <2>3 DEF ClaimRows, Recorded
<1> QED BY <1>2, <1>3

(* What a commit adds to the record is what its own call told the insurer. *)
LEMMA CommitOnRecord ==
    ASSUME LedgerInv, NEW w \in Workers, Commit(w), NEW p, NEW d
    PROVE  /\ OnRecord(p, d) \subseteq OnRecord(p, d)'
           /\ \A x \in OnRecord(p, d)' \ OnRecord(p, d) :
                 event[w] = "claim" /\ x = ToldInsurer(w)
<1>1. PICK row \in staged[w].audit : row.event = Payload(w) /\ audit' = audit \cup {row}
  BY CommitEvents
<1>2. insurerCalls' = insurerCalls /\ pc[w] = "commit"
  BY CommitShape
<1>3. ASSUME NEW x \in OnRecord(p, d)' \ OnRecord(p, d)
      PROVE  event[w] = "claim" /\ x = ToldInsurer(w)
  <2>1. x \in insurerCalls /\ x.call = call[w]
    BY <1>1, <1>2, <1>3 DEF OnRecord, Payload
  <2>2. Told(w)
    BY DEF LedgerInv, Whole
  <2>3. event[w] = "claim" /\ ToldInsurer(w) \in insurerCalls
    BY <1>2, <2>1, <2>2 DEF Told, External, Recorded, Recording
  <2>4. SameCall(x, ToldInsurer(w))
    BY <2>1 DEF SameCall, ToldInsurer
  <2> QED BY <2>1, <2>3, <2>4 DEF LedgerInv, CallsTold
<1> QED BY <1>1, <1>2, <1>3 DEF OnRecord

LEMMA CommitWithinResets ==
    ASSUME RecordInv, ChainInv', NEW w \in Workers, Commit(w),
           NEW p \in Policies, NEW d \in DetectionReason
    PROVE  WithinResets(p, d)'
<1> DEFINE old == OnRecord(p, d)
           new == OnRecord(p, d)'
<1>1. LedgerInv /\ WithinResets(p, d)
  BY DEF RecordInv
<1>2. IsFiniteSet(old) /\ Cardinality(old) \in Nat /\ resets \in Nat
  BY RecordIsFinite
<1>3. resets' = resets
  BY ResetsStay DEF Moves, Step
<1>4. ActiveFor(p, d) => ActiveFor(p, d)'
  BY <1>1, CommitKeepsActive DEF ActiveFor, SameClaim
<1>5. old \subseteq new /\ \A x \in new \ old : event[w] = "claim" /\ x = ToldInsurer(w)
  BY <1>1, CommitOnRecord
<1>6. CASE new = old
  BY <1>1, <1>3, <1>4, <1>6 DEF WithinResets
<1>7. CASE new # old
  <2>1. PICK x \in new \ old : event[w] = "claim" /\ x = ToldInsurer(w)
    BY <1>5, <1>7
  <2>2. new = old \cup {ToldInsurer(w)}
    BY <1>5, <2>1
  <2>3. p = finding[w].policy /\ d = finding[w].reason
    BY <2>1 DEF OnRecord, ToldInsurer
  <2>4. Ledger!CreateClaim(call[w], finding[w])
    BY <1>1, <2>1, CommitCreates
  <2>5. ~ActiveFor(p, d) /\ ActiveFor(p, d)'
    <3>1. \A c \in claims : ~(c.policy = finding[w].policy /\ c.reason = finding[w].reason)
      BY <2>4 DEF Ledger!CreateClaim, Ledger!SameLeak
    <3> DEFINE filed == [call |-> call[w], policy |-> finding[w].policy,
                         reason |-> finding[w].reason, amount |-> finding[w].amount,
                         status |-> "submitted"]
    <3>2. claims' = claims \cup {filed}
      BY <2>4 DEF Ledger!CreateClaim
    <3>3. filed \in claims' /\ filed.policy = p /\ filed.reason = d
      BY <2>3, <3>2
    <3> HIDE DEF filed
    <3>4. ActiveFor(p, d)'
      BY <3>3 DEF ActiveFor
    <3> QED BY <2>3, <3>1, <3>4 DEF ActiveFor
  <2>6. Cardinality(new) = Cardinality(old) + 1
    <3> HIDE DEF old, new
    <3> QED BY <1>2, <2>1, <2>2, FS_AddElement
  <2>7. Cardinality(old) <= resets
    BY <1>1, <2>5 DEF WithinResets
  <2>8. Cardinality(new) <= resets + 1
    <3> HIDE DEF old, new
    <3> QED BY <1>2, <2>6, <2>7
  <2> QED BY <1>3, <2>5, <2>8 DEF WithinResets
<1> QED BY <1>6, <1>7

(* Nothing but a commit puts anything on record.                           *)
LEMMA BetweenOnRecord ==
    ASSUME LedgerInv, NEW w \in Workers, Moves(w), ~Commit(w), NEW p, NEW d
    PROVE  OnRecord(p, d)' = OnRecord(p, d) /\ (ActiveFor(p, d)' <=> ActiveFor(p, d))
<1>1. /\ UNCHANGED <<claims, audit>>
      /\ \/ insurerCalls' = insurerCalls
         \/ pc[w] = "submit" /\ insurerCalls' = insurerCalls \cup {ToldInsurer(w)}
  BY BetweenShared, LedgerTypes
<1>2. pc[w] = "submit" => \A r \in audit : r.event.call # call[w]
  BY DEF LedgerInv, Whole, Accounted, ForHuman, Recording, EventsOf
<1> QED BY <1>1, <1>2 DEF OnRecord, ActiveFor, ToldInsurer

LEMMA RecordNext == RecordInv /\ LedgerInv' /\ [Next]_vars => RecordInv'
<1> SUFFICES ASSUME RecordInv, LedgerInv', [Next]_vars
             PROVE  /\ IsFiniteSet(insurerCalls)'
                    /\ \A p \in Policies : \A d \in DetectionReason : WithinResets(p, d)'
  BY DEF RecordInv
<1>1. LedgerInv /\ ChainInv' /\ resets \in Nat
  BY LedgerTypes DEF RecordInv, LedgerInv, HandoverInv, TypeOK
<1>2. ASSUME NEW w \in Workers, Moves(w) PROVE IsFiniteSet(insurerCalls)'
  <2>1. insurerCalls' = insurerCalls \/ insurerCalls' = insurerCalls \cup {ToldInsurer(w)}
    BY <1>1, <1>2, BetweenShared, CommitShape, LedgerTypes
  <2> QED BY <2>1, FS_AddElement DEF RecordInv
<1>3. ASSUME NEW w \in Workers, Moves(w), NEW p \in Policies, NEW d \in DetectionReason
      PROVE  WithinResets(p, d)'
  <2>1. CASE Commit(w)
    BY <1>1, <2>1, CommitWithinResets
  <2>2. CASE ~Commit(w)
    BY <1>1, <1>3, <2>2, BetweenOnRecord, ResetsStay DEF RecordInv, WithinResets
  <2> QED BY <2>1, <2>2
<1>4. CASE ResetActionTables
  <2>1. UNCHANGED <<insurerCalls, audit>> /\ resets' = resets + 1 /\ claims' = {}
    BY <1>4 DEF ResetActionTables, external
  <2>2. ASSUME NEW p \in Policies, NEW d \in DetectionReason PROVE WithinResets(p, d)'
    <3>1. OnRecord(p, d)' = OnRecord(p, d)
      BY <2>1 DEF OnRecord
    <3>2. Cardinality(OnRecord(p, d)) \in Nat /\ Cardinality(OnRecord(p, d)) <= resets + 1
      BY RecordIsFinite DEF RecordInv, WithinResets
    <3>3. /\ Cardinality(OnRecord(p, d)) <= resets'
          /\ Cardinality(OnRecord(p, d)) <= resets' + 1
      BY <1>1, <2>1, <3>2
    <3> QED BY <3>1, <3>3 DEF WithinResets
  <2> QED BY <2>1, <2>2 DEF RecordInv
<1>5. CASE RewriteResults \/ UNCHANGED vars
  <2>1. UNCHANGED <<insurerCalls, audit, claims, resets>>
    BY <1>5 DEF RewriteResults, vars, tables, external, counters
  <2>2. ASSUME NEW p \in Policies, NEW d \in DetectionReason PROVE WithinResets(p, d)'
    BY <2>1 DEF RecordInv, WithinResets, OnRecord, ActiveFor
  <2> QED BY <2>1, <2>2 DEF RecordInv
<1> QED BY <1>2, <1>3, <1>4, <1>5 DEF Next, Done, Moves

LEMMA RecordInit == Init => RecordInv
<1> SUFFICES ASSUME Init PROVE RecordInv
  OBVIOUS
<1>1. insurerCalls = {} /\ resets = 0
  BY DEF Init
<1>2. ASSUME NEW p \in Policies, NEW d \in DetectionReason PROVE WithinResets(p, d)
  <2>1. OnRecord(p, d) = {}
    BY <1>1 DEF OnRecord
  <2>2. Cardinality(OnRecord(p, d)) = 0
    BY <2>1, FS_EmptySet
  <2> QED BY <1>1, <2>2 DEF WithinResets
<1> QED BY <1>1, <1>2, FS_EmptySet, LedgerInit DEF RecordInv

(* The insurer hears of a leak again only from a retry of a call that left *)
(* no record of itself, or after another run has cleared the claims: with  *)
(* any number of callers, retries and crashes, what is on record was       *)
(* lodged at most once more than the claims were cleared                   *)
(* (create_commission_claim, _reset_action_tables).                        *)
THEOREM ToldOncePerResetAlways == Spec => []ToldOncePerReset
<1>1. ASSUME RecordInv PROVE ToldOncePerReset
  <2>1. ASSUME NEW y \in insurerCalls
        PROVE  Cardinality({x \in insurerCalls :
                               /\ x.policy = y.policy /\ x.reason = y.reason
                               /\ \E r \in audit : r.event.call = x.call}) <= 1 + resets
    <3>1. y.policy \in Policies /\ y.reason \in DetectionReason
      BY <1>1, LedgerTypes DEF RecordInv, TypeOK
    <3>2. Cardinality(OnRecord(y.policy, y.reason)) <= resets + 1
      BY <1>1, <3>1 DEF RecordInv, WithinResets
    <3>3. resets \in Nat
      BY <1>1, RecordIsFinite
    <3> QED BY <3>2, <3>3 DEF OnRecord
  <2> QED BY <2>1 DEF ToldOncePerReset
<1> QED BY <1>1, LedgerInit, LedgerNext, RecordInit, RecordNext, PTL DEF Spec
=============================================================================
