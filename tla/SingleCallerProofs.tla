------------------------- MODULE SingleCallerProofs -------------------------
(***************************************************************************)
(* What a single caller of route may rely on that several may not: for     *)
(* every set of policies and findings, every number of calls, and as long  *)
(* as its process does not die.  A pipeline run is such a caller while no  *)
(* other run is active.                                                    *)
(***************************************************************************)
EXTENDS EvidenceProofs

(* The hypotheses: one caller, whose process does not die.                 *)
OneCaller == \A v, w \in Workers : v = w
Uninterrupted == OneCaller /\ ~MayCrash

ExternalCalls == insurerCalls \cup billingCalls

(* The tail that is read is the tail when the row is inserted.             *)
TailFresh(w) == pc[w] = "append" => read[w].audit = LastRows

(* A call contacts an outside system at most once, and nothing can make it *)
(* give up after that.                                                     *)
Before == {"reserve", "lookup", "amend", "submit", "scan", "flip", "rebill"}
NotYetCalled(w) == pc[w] \in Before => \A x \in ExternalCalls : x.call # call[w]

(* A call that has committed a refusal for a human is on its way there.    *)
Refused(b) == b.event.act \in Refusals /\ b.event.gate # "TOO_SMALL"
AfterRefusal(w) ==
    pc[w] # "idle" /\ (\E b \in audit : Refused(b) /\ b.event.call = call[w]) =>
        pc[w] = "escalate" \/ (pc[w] \in Recording /\ event[w] = "escalation")

SoleInv ==
    /\ Uninterrupted
    /\ HandoverInv
    /\ \A w \in Workers : TailFresh(w) /\ NotYetCalled(w) /\ AfterRefusal(w)
    /\ \A x \in ExternalCalls : x.call <= begun
    /\ EveryCallAudited
    /\ RefusedReachesHuman

-----------------------------------------------------------------------------
(* What the one caller does *)

(* The row follows the last row there is: its number is free.              *)
LEMMA NumberIsFree ==
    ASSUME SoleInv, NEW w \in Workers, AppendAudit(w)
    PROVE  ~SeqTaken(NextRow(w).seq)
<1> USE DEF SoleInv, HandoverInv, ChainInv
<1> DEFINE seqs == {r.seq : r \in audit}
           n == Cardinality(audit)
<1>1. read[w].audit = LastRows
  BY DEF AppendAudit, TailFresh
<1>2. n \in Nat /\ seqs = 1..n
  BY FS_CardinalityType DEF ChainIntact, VerifyAuditChain
<1>3. \A r \in audit : r.seq \in 1..n
  BY <1>2
<1>4. CASE audit = {}
  BY <1>4 DEF SeqTaken
<1>5. CASE audit # {}
  <2>1. n \in seqs
    BY <1>2, <1>3, <1>5
  <2>2. PICK last \in audit : last.seq = n
    BY <2>1
  <2>3. last \in LastRows
    BY <1>2, <1>3, <2>2 DEF LastRows
  <2>4. \A r \in LastRows : r.seq = n
    BY <1>2, <1>3, <2>2 DEF LastRows
  <2>5. NextRow(w).seq = n + 1
    BY <1>1, <2>3, <2>4, NextRowIs
  <2> QED BY <1>2, <1>3, <2>5 DEF SeqTaken
<1> QED BY <1>4, <1>5

(* The steps of a call: it begins, contacts an outside system, commits, or *)
(* does something in between.                                              *)
Begins(w) ==
    /\ pc[w] = "idle" /\ pc'[w] \in {"escalate", "tail", "reserve", "scan"}
    /\ begun' = begun + 1 /\ call'[w] = begun + 1
    /\ UNCHANGED <<audit, insurerCalls, billingCalls>>

Contacts(w) ==
    /\ pc[w] \in {"submit", "rebill"} /\ pc'[w] = "tail"
    /\ UNCHANGED <<audit, call, begun>>
    /\ ExternalCalls \subseteq ExternalCalls'
    /\ \A x \in ExternalCalls' \ ExternalCalls : x.call = call[w]

Works(w) ==
    /\ UNCHANGED <<audit, insurerCalls, billingCalls, call, begun>>
    /\ \/ pc[w] \in Before \ {"submit", "rebill"} /\ pc'[w] \in Before \cup {"idle", "tail"}
       \/ pc[w] = "escalate" /\ pc'[w] = "tail" /\ event'[w] = "escalation"
       \/ /\ pc[w] = "tail" /\ pc'[w] = "append" /\ event'[w] = event[w]
          /\ read'[w].audit = LastRows
       \/ pc[w] = "append" /\ pc'[w] = "commit" /\ event'[w] = event[w]

Ends(w) ==
    /\ pc[w] = "commit"
    /\ UNCHANGED <<insurerCalls, billingCalls, call, begun>>
    /\ \E row \in audit' : audit' = audit \cup {row} /\ row.event = Payload(w)
    /\ IF event[w] \in Refusals /\ ValidateAction(finding[w]) # "TOO_SMALL"
       THEN pc'[w] = "escalate" ELSE pc'[w] = "idle"

LEMMA CallSteps ==
    ASSUME SoleInv, NEW w \in Workers, Moves(w)
    PROVE  Begins(w) \/ Contacts(w) \/ Works(w) \/ Ends(w)
<1> USE DEF SoleInv, HandoverInv, ChainInv, tables, external, counters
<1>1. CASE \E f \in Findings : Begin(w, f)
  BY <1>1 DEF Begin, Goto, Record, TypeOK, Begins
<1>2. CASE SubmitClaim(w)
  <2>1. \A x \in ExternalCalls' \ ExternalCalls : x.call = call[w]
    BY <1>2 DEF SubmitClaim, ExternalCalls
  <2> QED BY <1>2, <2>1 DEF SubmitClaim, Record, Goto, TypeOK, ExternalCalls, Contacts
<1>3. CASE RequestRebilling(w)
  <2>1. \A x \in ExternalCalls' \ ExternalCalls : x.call = call[w]
    BY <1>3 DEF RequestRebilling, ExternalCalls
  <2> QED BY <1>3, <2>1 DEF RequestRebilling, Record, Goto, TypeOK, ExternalCalls, Contacts
<1>4. CASE ReserveClaim(w) \/ LoseReservation(w) \/ LookUpClaim(w) \/ ScanResults(w)
  BY <1>4 DEF ReserveClaim, LoseReservation, LookUpClaim, ScanResults, Record, Goto,
     TypeOK, Works, Before
<1>5. CASE AmendClaim(w)
  BY <1>5 DEF AmendClaim, Abort, Record, Goto, TypeOK, Works, Before
<1>6. CASE FlipResults(w)
  BY <1>6 DEF FlipResults, Record, Goto, TypeOK, Works, Before
<1>7. CASE InsertEscalation(w) \/ ReadTail(w)
  BY <1>7 DEF InsertEscalation, ReadTail, Record, Goto, TypeOK, Works, Before
<1>8. CASE AppendAudit(w)
  BY <1>8, NumberIsFree DEF AppendAudit, Goto, TypeOK, Works, Before
<1>9. CASE Commit(w)
  <2>1. PICK row \in staged[w].audit : row.event = Payload(w)
    BY <1>9 DEF EvidenceInv, Evident, RowHeld, Commit
  <2>2. audit' = audit \cup {row}
    BY <1>9, <2>1 DEF Commit, OpenRowsContinue
  <2>3. IF event[w] \in Refusals /\ ValidateAction(finding[w]) # "TOO_SMALL"
        THEN pc'[w] = "escalate" ELSE pc'[w] = "idle"
    BY <1>9 DEF Commit, Goto, TypeOK, Refusals, BlockEndsRoute
  <2> QED BY <1>9, <2>1, <2>2, <2>3 DEF Commit, Ends
<1>10. ~Crash(w)
  BY DEF Uninterrupted, Crash
<1> QED BY <1>1, <1>2, <1>3, <1>4, <1>5, <1>6, <1>7, <1>8, <1>9, <1>10 DEF Moves, Step

-----------------------------------------------------------------------------
(* The invariant is kept *)

LEMMA CallerKeeps ==
    ASSUME SoleInv, NEW w \in Workers, Begins(w) \/ Contacts(w) \/ Works(w) \/ Ends(w)
    PROVE  /\ TailFresh(w)' /\ NotYetCalled(w)'
           /\ \A x \in ExternalCalls' : x.call <= begun'
<1> USE DEF SoleInv
<1>1. /\ begun \in Nat /\ call[w] \in Nat /\ call[w] <= begun
      /\ \A x \in ExternalCalls : x.call \in Nat
  BY DEF HandoverInv, ChainInv, TypeOK, CallsNumbered, ExternalCalls
<1>2. TailFresh(w)'
  <2>1. pc'[w] = "append" => audit' = audit /\ read'[w].audit = LastRows
    BY DEF Begins, Contacts, Works, Ends, Before
  <2> QED BY <2>1 DEF TailFresh, LastRows
<1>3. CASE Begins(w)
  <2>1. ExternalCalls' = ExternalCalls
    BY <1>3 DEF Begins, ExternalCalls
  <2>2. \A x \in ExternalCalls' : x.call # call'[w] /\ x.call <= begun'
    BY <1>1, <1>3, <2>1 DEF Begins
  <2> QED BY <1>2, <2>2 DEF NotYetCalled, ExternalCalls
<1>4. CASE Contacts(w)
  BY <1>1, <1>2, <1>4 DEF Contacts, NotYetCalled, Before
<1>5. CASE Works(w) \/ Ends(w)
  <2>1. ExternalCalls' = ExternalCalls /\ UNCHANGED <<call, begun>>
    BY <1>5 DEF Works, Ends, ExternalCalls
  <2>2. pc'[w] \in Before => pc[w] \in Before
    BY <1>5 DEF Works, Ends, Before
  <2> QED BY <1>2, <2>1, <2>2 DEF NotYetCalled
<1> QED BY <1>3, <1>4, <1>5

(* The audit row of a call is there when it is over.                       *)
LEMMA CallerAudits ==
    ASSUME SoleInv, NEW w \in Workers, Begins(w) \/ Contacts(w) \/ Works(w) \/ Ends(w)
    PROVE  EveryCallAudited'
<1> USE DEF SoleInv
<1>1. \A v \in Workers : v = w
  BY DEF Uninterrupted, OneCaller
<1>2. SUFFICES ASSUME NEW x \in ExternalCalls'
               PROVE  \/ call'[w] = x.call /\ pc'[w] # "idle"
                      \/ \E r \in audit' : r.event.call = x.call
  BY DEF EveryCallAudited, ExternalCalls
<1>3. x \in ExternalCalls =>
         \/ call[w] = x.call /\ pc[w] # "idle"
         \/ \E r \in audit : r.event.call = x.call
  BY <1>1 DEF EveryCallAudited, ExternalCalls
<1>4. CASE Begins(w)
  BY <1>3, <1>4 DEF Begins, ExternalCalls
<1>5. CASE Contacts(w)
  BY <1>3, <1>5 DEF Contacts
<1>6. CASE Works(w)
  <2>1. x \in ExternalCalls
    BY <1>6 DEF Works, ExternalCalls
  <2>2. CASE pc'[w] # "idle"
    BY <1>3, <1>6, <2>1, <2>2 DEF Works
  <2>3. CASE pc'[w] = "idle"
    BY <1>3, <1>6, <2>1, <2>3 DEF Works, NotYetCalled, Before
  <2> QED BY <2>2, <2>3
<1>7. CASE Ends(w)
  <2>1. PICK row \in audit' : audit' = audit \cup {row} /\ row.event = Payload(w)
    BY <1>7 DEF Ends
  <2>2. row.event.call = call[w]
    BY <2>1 DEF Payload
  <2>3. x \in ExternalCalls
    BY <1>7 DEF Ends, ExternalCalls
  <2> QED BY <1>3, <2>1, <2>2, <2>3
<1> QED BY <1>4, <1>5, <1>6, <1>7

(* The escalation of a refusal is there when the call is over.             *)
LEMMA CallerEscalates ==
    ASSUME SoleInv, NEW w \in Workers, Begins(w) \/ Contacts(w) \/ Works(w) \/ Ends(w)
    PROVE  AfterRefusal(w)' /\ RefusedReachesHuman'
<1> USE DEF SoleInv
<1>1. \A v \in Workers : v = w
  BY DEF Uninterrupted, OneCaller
<1>2. ASSUME NEW b \in audit, Refused(b)
      PROVE  \/ call[w] = b.event.call /\ pc[w] # "idle"
             \/ \E r \in audit : Handoff(r, b.event.call)
  BY <1>1, <1>2 DEF RefusedReachesHuman, Refused, Refusals, Handoff
<1>3. SUFFICES ASSUME NEW b \in audit', Refused(b)
               PROVE  /\ \/ call'[w] = b.event.call /\ pc'[w] # "idle"
                         \/ \E r \in audit' : Handoff(r, b.event.call)
                      /\ pc'[w] # "idle" /\ b.event.call = call'[w] =>
                            \/ pc'[w] = "escalate"
                            \/ pc'[w] \in Recording /\ event'[w] = "escalation"
  <2>1. AfterRefusal(w)'
    BY <1>3 DEF AfterRefusal, Refused
  <2>2. RefusedReachesHuman'
    BY <1>3 DEF RefusedReachesHuman, Refused, Refusals, Handoff
  <2> QED BY <2>1, <2>2
<1>4. CASE Begins(w)
  <2>1. b \in audit /\ b.event.call \in Nat /\ b.event.call <= begun /\ begun \in Nat
    BY <1>4 DEF Begins, HandoverInv, ChainInv, TypeOK, CallsNumbered, AuditRow, Event
  <2>2. b.event.call # call'[w]
    BY <1>4, <2>1 DEF Begins
  <2> QED BY <1>2, <1>3, <1>4, <2>1, <2>2 DEF Begins
<1>5. CASE Contacts(w) \/ Works(w)
  <2>1. b \in audit /\ UNCHANGED <<audit, call>> /\ pc[w] # "idle"
    BY <1>5 DEF Contacts, Works, Before
  <2>2. b.event.call = call[w] =>
           pc[w] = "escalate" \/ (pc[w] \in Recording /\ event[w] = "escalation")
    BY <1>3, <2>1 DEF AfterRefusal
  <2>3. b.event.call = call[w] =>
           pc'[w] \in Recording /\ event'[w] = "escalation"
    BY <1>5, <2>2 DEF Contacts, Works, Recording, Before
  <2> QED BY <1>2, <1>3, <2>1, <2>3 DEF Recording
<1>6. CASE Ends(w)
  <2>1. PICK row \in audit' : audit' = audit \cup {row} /\ row.event = Payload(w)
    BY <1>6 DEF Ends
  <2>2. /\ row.event.call = call[w] /\ row.event.act = event[w]
        /\ row.event.gate = ValidateAction(finding[w])
    BY <2>1 DEF Payload
  <2>3. pc[w] = "commit" /\ call' = call
    BY <1>6 DEF Ends
  <2>4. CASE event[w] \in Refusals /\ ValidateAction(finding[w]) # "TOO_SMALL"
    <3>1. pc'[w] = "escalate"
      BY <1>6, <2>4 DEF Ends
    <3>2. CASE b = row
      BY <2>2, <2>3, <3>1, <3>2
    <3>3. CASE b \in audit
      BY <1>2, <1>3, <2>1, <2>3, <3>1, <3>3
    <3> QED BY <2>1, <3>2, <3>3
  <2>5. CASE ~(event[w] \in Refusals /\ ValidateAction(finding[w]) # "TOO_SMALL")
    <3>1. pc'[w] = "idle"
      BY <1>6, <2>5 DEF Ends
    <3>2. b # row
      BY <1>3, <2>2, <2>5 DEF Refused
    <3>3. b.event.call = call[w] => Handoff(row, b.event.call)
      BY <1>3, <2>1, <2>2, <2>3, <3>2 DEF AfterRefusal, Handoff
    <3> QED BY <1>2, <1>3, <2>1, <3>1, <3>2, <3>3
  <2> QED BY <2>4, <2>5
<1> QED BY <1>4, <1>5, <1>6

LEMMA SoleNext == SoleInv /\ [Next]_vars => SoleInv'
<1> SUFFICES ASSUME SoleInv, [Next]_vars
             PROVE  /\ \A w \in Workers : TailFresh(w)' /\ NotYetCalled(w)' /\ AfterRefusal(w)'
                    /\ \A x \in ExternalCalls' : x.call <= begun'
                    /\ EveryCallAudited' /\ RefusedReachesHuman'
  BY HandoverNext DEF SoleInv, Uninterrupted, OneCaller
<1>1. ASSUME NEW w \in Workers, Moves(w)
      PROVE  /\ TailFresh(w)' /\ NotYetCalled(w)' /\ AfterRefusal(w)'
             /\ \A x \in ExternalCalls' : x.call <= begun'
             /\ EveryCallAudited' /\ RefusedReachesHuman'
  BY <1>1, CallSteps, CallerKeeps, CallerAudits, CallerEscalates
<1>2. \A v, w \in Workers : v = w
  BY DEF SoleInv, Uninterrupted, OneCaller
<1>3. CASE ResetActionTables \/ RewriteResults \/ UNCHANGED vars
  <2>1. UNCHANGED <<audit, insurerCalls, billingCalls, pc, call, event, read, begun>>
    BY <1>3 DEF ResetActionTables, RewriteResults, vars, tables, external, counters
  <2>2. ExternalCalls' = ExternalCalls
    BY <2>1 DEF ExternalCalls
  <2>3. \A w \in Workers : TailFresh(w)' /\ NotYetCalled(w)' /\ AfterRefusal(w)'
    BY <2>1, <2>2 DEF SoleInv, TailFresh, LastRows, NotYetCalled, AfterRefusal, Refused
  <2>4. EveryCallAudited' /\ RefusedReachesHuman'
    BY <2>1 DEF SoleInv, EveryCallAudited, RefusedReachesHuman
  <2> QED BY <2>1, <2>2, <2>3, <2>4 DEF SoleInv
<1> QED BY <1>1, <1>2, <1>3 DEF Next, Done, Moves

LEMMA SoleInit == Init /\ Uninterrupted => SoleInv
<1> SUFFICES ASSUME Init, Uninterrupted PROVE SoleInv
  OBVIOUS
<1>1. HandoverInv
  BY HandoverInit
<1>2. \A w \in Workers : pc[w] = "idle"
  BY DEF Init
<1>3. audit = {} /\ ExternalCalls = {}
  BY DEF Init, ExternalCalls
<1>4. \A w \in Workers : TailFresh(w) /\ NotYetCalled(w) /\ AfterRefusal(w)
  BY <1>2, <1>3 DEF TailFresh, NotYetCalled, AfterRefusal, Before
<1>5. EveryCallAudited /\ RefusedReachesHuman
  BY <1>3 DEF EveryCallAudited, RefusedReachesHuman, ExternalCalls
<1> QED BY <1>1, <1>3, <1>4, <1>5 DEF SoleInv

LEMMA SoleInvariance == Uninterrupted /\ Spec => []SoleInv
  BY SoleInit, SoleNext, PTL DEF Spec

(* A single caller leaves no call to the insurer or to billing unaudited,  *)
(* however many runs reset and rewrite the tables meanwhile: its tail is   *)
(* never stale, so that nothing is rolled back after an external call      *)
(* (record_audit, after submit_claim and request_rebilling).               *)
THEOREM EveryCallIsAudited == Uninterrupted /\ Spec => []EveryCallAudited
<1>1. SoleInv => EveryCallAudited
  BY DEF SoleInv
<1> QED BY <1>1, SoleInvariance, PTL

(* A finding a single caller is refused for anything but its size is with  *)
(* a human when route returns: nothing undoes the second transaction.      *)
THEOREM RefusedAlwaysReachesHuman == Uninterrupted /\ Spec => []RefusedReachesHuman
<1>1. SoleInv => RefusedReachesHuman
  BY DEF SoleInv
<1> QED BY <1>1, SoleInvariance, PTL

-----------------------------------------------------------------------------
(* The insurer is called once *)

(* The leak of every call has an active claim, committed or about to be:   *)
(* what the next call for it will be refused by.                           *)
Reserved(x) ==
    \/ \E c \in claims : SameClaim(c, x)
    \/ \E w \in Workers : pc[w] \in Recording /\ \E c \in staged[w].claims : SameClaim(c, x)

CalledOnceInv ==
    /\ MaxResets = 0
    /\ SoleInv /\ OneClaimInv /\ SubmitHolds
    /\ \A x \in insurerCalls : Reserved(x)
    /\ \A x, y \in insurerCalls : SameCall(x, y) => x = y
    /\ InsurerCalledOnce

LEMMA SubmitClaimOnce ==
    ASSUME CalledOnceInv, NEW w \in Workers, SubmitClaim(w)
    PROVE  /\ \A x \in insurerCalls' : Reserved(x)'
           /\ \A x, y \in insurerCalls' : SameCall(x, y) => x = y
           /\ InsurerCalledOnce'
<1> DEFINE sent == [call |-> call[w], policy |-> finding[w].policy,
                    reason |-> finding[w].reason, amount |-> finding[w].amount]
           lodged == {[c EXCEPT !.status = "submitted"] : c \in staged[w].claims}
<1>1. /\ insurerCalls' = insurerCalls \cup {sent} /\ claims' = claims
      /\ pc[w] = "submit" /\ pc'[w] \in Recording /\ staged'[w].claims = lodged
  <2>1. staged' = [staged EXCEPT ![w].claims = lodged]
    BY DEF SubmitClaim
  <2> HIDE DEF lodged
  <2> QED BY <2>1 DEF SubmitClaim, Record, Goto, Recording, tables, CalledOnceInv,
             OneClaimInv, TypeOK
<1>2. sent.call = call[w] /\ SameClaim(sent, finding[w])
  BY DEF SameClaim
<1>3. PICK held \in staged[w].claims : SameClaim(held, finding[w])
  BY <1>1 DEF CalledOnceInv, SubmitHolds
<1>4. \E c \in lodged : SameClaim(c, sent)
  <2>1. [held EXCEPT !.status = "submitted"] \in lodged
    OBVIOUS
  <2>2. held \in Claim
    BY DEF CalledOnceInv, OneClaimInv, TypeOK
  <2>3. SameClaim([held EXCEPT !.status = "submitted"], sent)
    BY <1>2, <1>3, <2>2 DEF SameClaim, Claim
  <2> QED BY <2>1, <2>3
<1> HIDE DEF sent, lodged
<1>5. \A v \in Workers : v = w
  BY DEF CalledOnceInv, SoleInv, Uninterrupted, OneCaller
<1>6. \A x \in insurerCalls : \E c \in claims : SameClaim(c, x)
  BY <1>1, <1>5 DEF CalledOnceInv, Reserved, Recording
<1>7. \A x \in insurerCalls : ~SameClaim(x, sent) /\ x.call # call[w]
  BY <1>1, <1>2, <1>6 DEF CalledOnceInv, SubmitHolds, SoleInv, NotYetCalled, Before,
     ExternalCalls, SameClaim
<1>8. \A x \in insurerCalls' : Reserved(x)'
  BY <1>1, <1>4, <1>6 DEF Reserved, SameClaim
<1>9. \A x, y \in insurerCalls' : SameCall(x, y) => x = y
  BY <1>1, <1>2, <1>7 DEF CalledOnceInv, SameCall
<1>10. InsurerCalledOnce'
  BY <1>1, <1>7 DEF CalledOnceInv, InsurerCalledOnce, SameClaim, SameCall
<1> QED BY <1>8, <1>9, <1>10

(* A new version of a claim is a claim for the same leak.                  *)
LEMMA CommitReserves ==
    ASSUME CalledOnceInv, NEW w \in Workers, Commit(w)
    PROVE  \A x \in insurerCalls : Reserved(x)'
<1> USE DEF CalledOnceInv
<1>1. \A v \in Workers : v = w
  BY DEF SoleInv, Uninterrupted, OneCaller
<1>2. pc[w] \in Recording \ {"submit"}
  BY DEF Commit, Recording
<1>3. ASSUME NEW c \in claims, NEW d \in staged[w].claims, SameCall(c, d)
      PROVE  SameClaim(c, d)
  <2>1. PICK x \in insurerCalls : SameCall(x, c) /\ SameClaim(x, c)
    BY DEF SoleInv, HandoverInv, EvidenceInv, ClaimsAreEvidenced
  <2>2. PICK y \in insurerCalls : SameCall(y, d) /\ SameClaim(y, d)
    BY <1>2 DEF SoleInv, HandoverInv, EvidenceInv, Evident, ClaimsHeld, Recording
  <2>3. x = y
    BY <1>3, <2>1, <2>2 DEF SameCall
  <2> QED BY <2>1, <2>2, <2>3 DEF SameClaim
<1>4. ASSUME NEW x \in insurerCalls
      PROVE  \E c \in claims' : SameClaim(c, x)
  <2>1. CASE \E c \in claims : SameClaim(c, x)
    <3>1. PICK c \in claims : SameClaim(c, x)
      BY <2>1
    <3>2. CASE \E d \in staged[w].claims : SameCall(c, d)
      BY <1>3, <3>1, <3>2 DEF Commit, SameClaim
    <3>3. CASE \A d \in staged[w].claims : ~SameCall(c, d)
      BY <3>1, <3>3 DEF Commit
    <3> QED BY <3>2, <3>3
  <2>2. CASE \E c \in staged[w].claims : SameClaim(c, x)
    BY <2>2 DEF Commit
  <2> QED BY <1>1, <2>1, <2>2 DEF Reserved
<1> QED BY <1>4 DEF Reserved, SameClaim

(* The other steps keep the committed claims, and those that are recorded. *)
LEMMA OthersReserve ==
    ASSUME CalledOnceInv, [Next]_vars,
           \A w \in Workers : ~SubmitClaim(w) /\ ~Commit(w)
    PROVE  insurerCalls' = insurerCalls /\ \A x \in insurerCalls : Reserved(x)'
<1> USE DEF CalledOnceInv, OneClaimInv
<1>1. /\ insurerCalls' = insurerCalls /\ claims' = claims
      /\ \A w \in Workers : pc[w] \in Recording =>
             pc'[w] \in Recording /\ staged'[w].claims = staged[w].claims
  <2>1. ASSUME NEW w \in Workers, Moves(w)
        PROVE  /\ insurerCalls' = insurerCalls /\ claims' = claims
               /\ pc[w] \in Recording =>
                     pc'[w] \in Recording /\ staged'[w].claims = staged[w].claims
    <3>1. CASE \E f \in Findings : Begin(w, f)
      BY <3>1 DEF Begin, tables, external, Recording
    <3>2. CASE ReserveClaim(w) \/ LoseReservation(w) \/ LookUpClaim(w) \/ ScanResults(w)
               \/ RequestRebilling(w) \/ FlipResults(w) \/ InsertEscalation(w)
      BY <3>2 DEF ReserveClaim, LoseReservation, LookUpClaim, ScanResults,
         RequestRebilling, FlipResults, InsertEscalation, tables, external, Recording
    <3>3. CASE AmendClaim(w)
      BY <3>3 DEF AmendClaim, Abort, tables, external, Recording
    <3>4. CASE ReadTail(w)
      BY <3>4 DEF ReadTail, Goto, TypeOK, tables, external, Recording
    <3>5. CASE AppendAudit(w)
      <4> DEFINE new == {NextRow(w)}
      <4>1. /\ staged' = [staged EXCEPT ![w].audit = new] /\ Goto(w, "commit")
            /\ UNCHANGED <<tables, external>>
        BY <3>5, NumberIsFree DEF AppendAudit
      <4> HIDE DEF new
      <4> QED BY <4>1 DEF Goto, TypeOK, tables, external, Recording
    <3>6. ~Crash(w)
      BY DEF SoleInv, Uninterrupted, Crash
    <3> QED BY <2>1, <3>1, <3>2, <3>3, <3>4, <3>5, <3>6 DEF Moves, Step
  <2>2. \A v, w \in Workers : v = w
    BY DEF SoleInv, Uninterrupted, OneCaller
  <2>3. CASE RewriteResults \/ UNCHANGED vars
    BY <2>3 DEF RewriteResults, vars, tables, external
  <2>4. ~ResetActionTables
    BY DEF ResetActionTables, TypeOK
  <2> QED BY <2>1, <2>2, <2>3, <2>4 DEF Next, Done, Moves
<1> QED BY <1>1 DEF Reserved

LEMMA CalledOnceNext == CalledOnceInv /\ [Next]_vars => CalledOnceInv'
<1> SUFFICES ASSUME CalledOnceInv, [Next]_vars
             PROVE  /\ \A x \in insurerCalls' : Reserved(x)'
                    /\ \A x, y \in insurerCalls' : SameCall(x, y) => x = y
                    /\ InsurerCalledOnce'
  BY SoleNext, OneClaimNext, SubmitHoldsNext DEF CalledOnceInv, SameCall
<1>1. CASE \E w \in Workers : SubmitClaim(w)
  BY <1>1, SubmitClaimOnce
<1>2. CASE ~\E w \in Workers : SubmitClaim(w)
  <2>1. insurerCalls' = insurerCalls /\ \A x \in insurerCalls : Reserved(x)'
    <3>1. CASE \E w \in Workers : Commit(w)
      BY <3>1, CommitReserves DEF Commit, external
    <3> QED BY <1>2, <3>1, OthersReserve
  <2> QED BY <2>1 DEF CalledOnceInv, InsurerCalledOnce, SameCall
<1> QED BY <1>1, <1>2

(* Retries never pay twice: a single caller whose claims nobody clears     *)
(* contacts the insurer at most once about a leak, whatever amounts it is  *)
(* called with (the docstring of create_commission_claim).                 *)
THEOREM InsurerIsCalledOnce == Uninterrupted /\ MaxResets = 0 /\ Spec => []InsurerCalledOnce
<1>1. Init /\ Uninterrupted /\ MaxResets = 0 => CalledOnceInv
  <2> SUFFICES ASSUME Init, Uninterrupted, MaxResets = 0 PROVE CalledOnceInv
    OBVIOUS
  <2>1. SoleInv
    BY SoleInit
  <2>2. OneClaimInv /\ SubmitHolds
    BY InitType DEF Init, OneClaimInv, OneActiveClaim, ReservationsExclusive, NoRows,
       SubmitHolds
  <2>3. insurerCalls = {}
    BY DEF Init
  <2> QED BY <2>1, <2>2, <2>3 DEF CalledOnceInv, InsurerCalledOnce
<1>2. CalledOnceInv => InsurerCalledOnce
  BY DEF CalledOnceInv
<1> QED BY <1>1, <1>2, CalledOnceNext, PTL DEF Spec

-----------------------------------------------------------------------------
(* Billing is asked once *)

(* One row for every policy, the one the first reconciliation wrote.       *)
OneRowEach ==
    /\ \A p \in Policies : \E r \in results : r.policy = p
    /\ \A r, s \in results : r.policy = s.policy => r = s
    /\ \A r \in results : r.gen = 0

(* What a flag reads and writes is the row of its policy.                  *)
RowsOf(w) == {r \in results : r.policy = finding[w].policy}
Flagged(w) == [policy |-> finding[w].policy, gen |-> 0, state |-> "disputed"]

FlipsOpenRow(w) ==
    /\ staged[w].results \subseteq {Flagged(w)}
    /\ pc[w] = "flip" => read[w].results = RowsOf(w)
    /\ pc[w] = "rebill" => Flagged(w) \in staged[w].results
    /\ pc[w] \in {"flip", "rebill"} => \E r \in RowsOf(w) : r.state # "disputed"

(* The row of a policy that was re-billed is disputed, or about to be:     *)
(* what the next flag of it will be refused by.                            *)
Disputed(x) ==
    \/ \E r \in results : r.policy = x.policy /\ r.state = "disputed"
    \/ \E w \in Workers : pc[w] \in Recording /\ \E r \in staged[w].results : r.policy = x.policy

BilledOnceInv ==
    /\ MaxReconciles = 0
    /\ SoleInv
    /\ OneRowEach
    /\ \A w \in Workers : FlipsOpenRow(w)
    /\ \A x \in billingCalls : Disputed(x)
    /\ BilledOnce

(* What the steps owe, for the one worker there is.                        *)
StaysBilledOnce(w) ==
    /\ OneRowEach' /\ FlipsOpenRow(w)'
    /\ \A x \in billingCalls' : Disputed(x)'
    /\ BilledOnce'

(* A step that changes neither the rows nor what is staged for them.       *)
LEMMA RowsUntouched ==
    ASSUME BilledOnceInv, NEW w \in Workers,
           UNCHANGED <<results, billingCalls>>, staged'[w].results = staged[w].results,
           pc'[w] \notin {"flip", "rebill"},
           staged[w].results # {} =>
               pc[w] \in Recording /\ pc'[w] \in Recording /\ finding'[w] = finding[w]
    PROVE  StaysBilledOnce(w)
<1> USE DEF BilledOnceInv
<1>1. OneRowEach' /\ BilledOnce'
  BY DEF OneRowEach, BilledOnce
<1>2. FlipsOpenRow(w)'
  BY DEF FlipsOpenRow, Flagged
<1>3. \A v \in Workers : v = w
  BY DEF SoleInv, Uninterrupted, OneCaller
<1>4. \A x \in billingCalls' : Disputed(x)'
  BY <1>3 DEF Disputed
<1> QED BY <1>1, <1>2, <1>4 DEF StaysBilledOnce

LEMMA ScanKeeps ==
    ASSUME BilledOnceInv, NEW w \in Workers, ScanResults(w)
    PROVE  StaysBilledOnce(w)
<1> USE DEF BilledOnceInv, SoleInv, HandoverInv, ChainInv, TypeOK
<1>1. /\ pc[w] = "scan" /\ read'[w].results = RowsOf(w)
      /\ UNCHANGED <<results, billingCalls, staged, finding>>
  BY DEF ScanResults, RowsOf, tables, external
<1>2. staged[w].results = {}
  BY <1>1 DEF EvidenceInv, Evident, ResultsHeld, Recording
<1>3. CASE AlreadyFlagged(RowsOf(w))
  <2>1. pc'[w] = "tail"
    BY <1>3 DEF ScanResults, RowsOf, Record, Goto
  <2> QED BY <1>1, <1>2, <2>1, RowsUntouched
<1>4. CASE ~AlreadyFlagged(RowsOf(w))
  <2>1. pc'[w] = "flip"
    BY <1>4 DEF ScanResults, RowsOf, Goto
  <2>2. \E r \in RowsOf(w) : r.state # "disputed"
    <3>1. finding[w].policy \in Policies
      BY DEF Finding
    <3>2. RowsOf(w) # {}
      BY <3>1 DEF OneRowEach, RowsOf
    <3> QED BY <1>4, <3>2 DEF AlreadyFlagged
  <2>3. FlipsOpenRow(w)'
    BY <1>1, <1>2, <2>1, <2>2 DEF FlipsOpenRow, RowsOf
  <2>4. OneRowEach' /\ BilledOnce'
    BY <1>1 DEF OneRowEach, BilledOnce
  <2>5. \A v \in Workers : v = w
    BY DEF Uninterrupted, OneCaller
  <2>6. \A x \in billingCalls' : Disputed(x)'
    BY <1>1, <1>2, <2>5 DEF Disputed
  <2> QED BY <2>3, <2>4, <2>6 DEF StaysBilledOnce
<1> QED BY <1>3, <1>4

LEMMA FlipKeeps ==
    ASSUME BilledOnceInv, NEW w \in Workers, FlipResults(w)
    PROVE  StaysBilledOnce(w)
<1> USE DEF BilledOnceInv, SoleInv, HandoverInv, ChainInv
<1> DEFINE dirty == {r \in read[w].results : r.state # "disputed"}
           found == {r \in results : \E d \in dirty : SameResult(r, d)}
           flipped == {[r EXCEPT !.state = "disputed"] : r \in found}
<1>1. /\ pc[w] = "flip" /\ read[w].results = RowsOf(w)
      /\ UNCHANGED <<results, billingCalls, finding>>
  BY DEF FlipResults, FlipsOpenRow, tables, external
<1>2. staged[w].results = {}
  BY <1>1 DEF EvidenceInv, Evident, ResultsHeld, Recording
<1>3. PICK open \in RowsOf(w) : open.state # "disputed"
  BY <1>1 DEF FlipsOpenRow
<1>4. dirty = {open} /\ found = {open}
  BY <1>1, <1>3 DEF OneRowEach, RowsOf, SameResult
<1>5. [open EXCEPT !.state = "disputed"] = Flagged(w)
  BY <1>3 DEF OneRowEach, RowsOf, Flagged, TypeOK, ResultRow
<1>6. flipped = {Flagged(w)}
  BY <1>4, <1>5
<1>7. staged' = [staged EXCEPT ![w].results = flipped] /\ Goto(w, "rebill")
  <2>1. ~\E d \in dirty : \A r \in results : ~SameResult(r, d)
    BY <1>4 DEF RowsOf
  <2> QED BY <2>1 DEF FlipResults
<1> HIDE DEF dirty, found, flipped
<1>8. staged'[w].results = {Flagged(w)} /\ pc'[w] = "rebill"
  BY <1>6, <1>7 DEF TypeOK, Goto
<1>9. FlipsOpenRow(w)'
  BY <1>1, <1>3, <1>8 DEF FlipsOpenRow, RowsOf, Flagged
<1>10. OneRowEach' /\ BilledOnce'
  BY <1>1 DEF OneRowEach, BilledOnce
<1>11. \A v \in Workers : v = w
  BY DEF Uninterrupted, OneCaller
<1>12. \A x \in billingCalls' : Disputed(x)'
  BY <1>1, <1>2, <1>11 DEF Disputed
<1> QED BY <1>9, <1>10, <1>12 DEF StaysBilledOnce

LEMMA RebillKeeps ==
    ASSUME BilledOnceInv, NEW w \in Workers, RequestRebilling(w)
    PROVE  StaysBilledOnce(w)
<1> USE DEF BilledOnceInv, SoleInv, HandoverInv, ChainInv
<1> DEFINE sent == [call |-> call[w], policy |-> finding[w].policy,
                    reason |-> finding[w].reason]
<1>1. /\ pc[w] = "rebill" /\ pc'[w] = "tail" /\ billingCalls' = billingCalls \cup {sent}
      /\ UNCHANGED <<results, finding, staged>>
  BY DEF RequestRebilling, Record, Goto, TypeOK, tables
<1>2. sent.policy = finding[w].policy
  OBVIOUS
<1> HIDE DEF sent
<1>3. \A v \in Workers : v = w
  BY DEF Uninterrupted, OneCaller
<1>4. PICK open \in RowsOf(w) : open.state # "disputed"
  BY <1>1 DEF FlipsOpenRow
<1>5. \A x \in billingCalls : x.policy # sent.policy
  BY <1>1, <1>2, <1>3, <1>4 DEF Disputed, Recording, OneRowEach, RowsOf
<1>6. BilledOnce'
  BY <1>1, <1>5 DEF BilledOnce, SameCall
<1>7. \A x \in billingCalls' : Disputed(x)'
  <2>1. pc'[w] \in Recording /\ \E r \in staged'[w].results : r.policy = sent.policy
    BY <1>1, <1>2 DEF FlipsOpenRow, Flagged, Recording
  <2>2. \A x \in billingCalls : \E r \in results : r.policy = x.policy /\ r.state = "disputed"
    BY <1>1, <1>3 DEF Disputed, Recording
  <2> QED BY <1>1, <2>1, <2>2 DEF Disputed
<1>8. FlipsOpenRow(w)'
  BY <1>1 DEF FlipsOpenRow, Flagged
<1>9. OneRowEach'
  BY <1>1 DEF OneRowEach
<1> QED BY <1>6, <1>7, <1>8, <1>9 DEF StaysBilledOnce

LEMMA CommitDisputes ==
    ASSUME BilledOnceInv, NEW w \in Workers, Commit(w)
    PROVE  StaysBilledOnce(w)
<1> USE DEF BilledOnceInv
<1> TypeOK
  BY DEF SoleInv, HandoverInv, ChainInv
<1>1. /\ results' = {r \in results : \A s \in staged[w].results : ~SameResult(r, s)}
                         \cup staged[w].results
      /\ pc'[w] \in {"escalate", "idle"} /\ UNCHANGED <<billingCalls, finding>>
  BY DEF Commit, Goto, TypeOK, external
<1>2. staged'[w].results = {}
  BY NothingHeld DEF Commit
<1>3. staged[w].results \subseteq {Flagged(w)}
  BY DEF FlipsOpenRow
<1>4. /\ Flagged(w).policy = finding[w].policy
      /\ Flagged(w).gen = 0 /\ Flagged(w).state = "disputed"
  BY DEF Flagged
<1>5. \A v \in Workers : v = w
  BY DEF SoleInv, Uninterrupted, OneCaller
<1>6. CASE staged[w].results = {}
  <2>1. results' = results
    BY <1>1, <1>6
  <2>2. \A x \in billingCalls' : Disputed(x)'
    BY <1>1, <1>5, <1>6, <2>1 DEF Disputed
  <2> QED BY <1>1, <1>2, <2>1, <2>2 DEF StaysBilledOnce, OneRowEach, BilledOnce, FlipsOpenRow
<1>7. CASE staged[w].results # {}
  <2>1. staged[w].results = {Flagged(w)}
    BY <1>3, <1>7
  <2>2. results' = {r \in results : r.policy # finding[w].policy} \cup {Flagged(w)}
    BY <1>1, <1>4, <2>1 DEF OneRowEach, SameResult
  <2>3. OneRowEach'
    BY <1>4, <2>2 DEF OneRowEach
  <2>4. \A x \in billingCalls' : Disputed(x)'
    <3>1. ASSUME NEW x \in billingCalls
          PROVE  \E r \in results' : r.policy = x.policy /\ r.state = "disputed"
      <4>1. CASE x.policy = finding[w].policy
        BY <1>4, <2>2, <4>1
      <4>2. CASE x.policy # finding[w].policy
        BY <1>4, <1>5, <2>1, <2>2, <4>2 DEF Disputed
      <4> QED BY <4>1, <4>2
    <3> QED BY <1>1, <3>1 DEF Disputed
  <2> QED BY <1>1, <1>2, <2>3, <2>4 DEF StaysBilledOnce, BilledOnce, FlipsOpenRow
<1> QED BY <1>6, <1>7

LEMMA OthersKeep ==
    ASSUME BilledOnceInv, NEW w \in Workers, Moves(w),
           ~ScanResults(w), ~FlipResults(w), ~RequestRebilling(w), ~Commit(w)
    PROVE  StaysBilledOnce(w)
<1> USE DEF BilledOnceInv, SoleInv, HandoverInv, ChainInv
<1>1. staged[w].results # {} => pc[w] \in Recording \cup {"rebill"}
  BY DEF EvidenceInv, Evident, ResultsHeld
<1>2. SUFFICES /\ UNCHANGED <<results, billingCalls>>
               /\ staged'[w].results = staged[w].results
               /\ pc'[w] \notin {"flip", "rebill"}
               /\ pc[w] \in Recording =>
                     pc'[w] \in Recording /\ finding'[w] = finding[w]
               /\ pc[w] # "rebill"
  BY <1>1, RowsUntouched
<1>3. CASE \E f \in Findings : Begin(w, f)
  BY <1>3 DEF Begin, Record, Goto, TypeOK, tables, external, Recording
<1>4. CASE ReserveClaim(w)
  <2> DEFINE new == {NewClaim(w)}
  <2>1. staged' = [staged EXCEPT ![w].claims = new]
    BY <1>4 DEF ReserveClaim
  <2> HIDE DEF new
  <2> QED BY <1>4, <2>1 DEF ReserveClaim, Goto, TypeOK, tables, external, Recording
<1>5. CASE LoseReservation(w) \/ LookUpClaim(w)
  BY <1>5 DEF LoseReservation, LookUpClaim, Record, Goto, TypeOK, tables, external, Recording
<1>6. CASE AmendClaim(w)
  <2>1. staged'[w].results = staged[w].results
    <3>1. CASE Abort(w)
      BY <1>1, <1>6, <3>1, NothingHeld DEF Abort, AmendClaim, Recording
    <3>2. CASE \E new : staged' = [staged EXCEPT ![w].claims = new]
      BY <3>2 DEF TypeOK
    <3> QED BY <1>6, <3>1, <3>2 DEF AmendClaim
  <2> QED BY <1>6, <2>1 DEF AmendClaim, Abort, Record, Goto, TypeOK, tables, external, Recording
<1>7. CASE SubmitClaim(w)
  <2> DEFINE lodged == {[c EXCEPT !.status = "submitted"] : c \in staged[w].claims}
  <2>1. staged' = [staged EXCEPT ![w].claims = lodged]
    BY <1>7 DEF SubmitClaim
  <2> HIDE DEF lodged
  <2> QED BY <1>7, <2>1 DEF SubmitClaim, Record, Goto, TypeOK, tables, Recording
<1>8. CASE InsertEscalation(w)
  <2> DEFINE new == {EscalationOf(w)}
  <2>1. staged' = [staged EXCEPT ![w].escalations = new]
    BY <1>8 DEF InsertEscalation
  <2> HIDE DEF new
  <2> QED BY <1>8, <2>1 DEF InsertEscalation, Record, Goto, TypeOK, tables, external, Recording
<1>9. CASE ReadTail(w)
  BY <1>9 DEF ReadTail, Goto, TypeOK, tables, external, Recording
<1>10. CASE AppendAudit(w)
  <2> DEFINE new == {NextRow(w)}
  <2>1. /\ staged' = [staged EXCEPT ![w].audit = new] /\ Goto(w, "commit")
        /\ UNCHANGED <<tables, external, finding>>
    BY <1>10, NumberIsFree DEF AppendAudit
  <2> HIDE DEF new
  <2> QED BY <1>10, <2>1 DEF AppendAudit, Goto, TypeOK, tables, external, Recording
<1>11. ~Crash(w)
  BY DEF Uninterrupted, Crash
<1> QED BY <1>3, <1>4, <1>5, <1>6, <1>7, <1>8, <1>9, <1>10, <1>11 DEF Moves, Step

LEMMA BilledOnceNext == BilledOnceInv /\ [Next]_vars => BilledOnceInv'
<1> SUFFICES ASSUME BilledOnceInv, [Next]_vars
             PROVE  /\ OneRowEach' /\ (\A w \in Workers : FlipsOpenRow(w)')
                    /\ (\A x \in billingCalls' : Disputed(x)') /\ BilledOnce'
  BY SoleNext DEF BilledOnceInv
<1>1. ASSUME NEW w \in Workers, Moves(w) PROVE StaysBilledOnce(w)
  <2>1. CASE ScanResults(w)
    BY <2>1, ScanKeeps
  <2>2. CASE FlipResults(w)
    BY <2>2, FlipKeeps
  <2>3. CASE RequestRebilling(w)
    BY <2>3, RebillKeeps
  <2>4. CASE Commit(w)
    BY <2>4, CommitDisputes
  <2> QED BY <1>1, <2>1, <2>2, <2>3, <2>4, OthersKeep
<1>2. \A v, w \in Workers : v = w
  BY DEF BilledOnceInv, SoleInv, Uninterrupted, OneCaller
<1>3. CASE ResetActionTables \/ UNCHANGED vars
  <2>1. UNCHANGED <<results, billingCalls, pc, finding, read, staged>>
    BY <1>3 DEF ResetActionTables, vars, tables, external
  <2>2. \A w \in Workers : FlipsOpenRow(w)'
    BY <2>1 DEF BilledOnceInv, FlipsOpenRow, RowsOf, Flagged
  <2> QED BY <2>1, <2>2 DEF BilledOnceInv, OneRowEach, Disputed, BilledOnce
<1>4. ~RewriteResults
  <2>1. generation \in Nat /\ MaxReconciles = 0
    BY DEF BilledOnceInv, SoleInv, HandoverInv, ChainInv, TypeOK
  <2>2. RewriteResults => generation < MaxReconciles
    BY DEF RewriteResults
  <2> QED BY <2>1, <2>2
<1> QED BY <1>1, <1>2, <1>3, <1>4 DEF Next, Done, Moves, StaysBilledOnce

(* A policy is re-billed once while its result row lives: a single caller  *)
(* that meets no new reconciliation asks billing at most once per policy,  *)
(* however often it is called with the finding and whoever clears the      *)
(* action tables meanwhile (the idempotency of flag_for_rebilling).        *)
THEOREM PolicyIsBilledOnce == Uninterrupted /\ MaxReconciles = 0 /\ Spec => []BilledOnce
<1>1. Init /\ Uninterrupted /\ MaxReconciles = 0 => BilledOnceInv
  <2> SUFFICES ASSUME Init, Uninterrupted, MaxReconciles = 0 PROVE BilledOnceInv
    OBVIOUS
  <2>1. SoleInv
    BY SoleInit
  <2>2. OneRowEach
    <3>1. results = {[policy |-> p, gen |-> 0, state |-> "open"] : p \in Policies}
      BY DEF Init
    <3>2. ASSUME NEW p \in Policies PROVE \E r \in results : r.policy = p
      <4>1. [policy |-> p, gen |-> 0, state |-> "open"] \in results
        BY <3>1
      <4> QED BY <4>1
    <3> QED BY <3>1, <3>2 DEF OneRowEach
  <2>3. \A w \in Workers : FlipsOpenRow(w)
    BY DEF Init, NoRows, FlipsOpenRow
  <2>4. billingCalls = {}
    BY DEF Init
  <2> QED BY <2>1, <2>2, <2>3, <2>4 DEF BilledOnceInv, BilledOnce
<1>2. BilledOnceInv => BilledOnce
  BY DEF BilledOnceInv
<1> QED BY <1>1, <1>2, BilledOnceNext, PTL DEF Spec
=============================================================================
