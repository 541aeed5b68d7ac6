--------------------------- MODULE PipelineProofs ---------------------------
(***************************************************************************)
(* What a run accounts for, for every number of runs, in whatever order,   *)
(* overlapping, over any books and files, and whatever fails.              *)
(***************************************************************************)
EXTENDS Pipeline, TLAPS, FiniteSetTheorems, WellFoundedInduction

Fields == {"findings", "informational", "plan", "remediated", "skipped", "escalated",
           "seen", "alone"}

Shape ==
    /\ node \in [Runs -> Nodes]
    /\ DOMAIN state = Runs
    /\ \A r \in Runs : DOMAIN state[r] = Fields

(* The nodes before the action nodes. *)
Early == {"new", "intake", "load", "reconcile", "verdicts", "detect", "decide"}

(* An item is counted once, in the list it went to. *)
Counted(r) ==
    /\ IsFiniteSet(state[r].remediated) /\ IsFiniteSet(state[r].skipped)
    /\ IsFiniteSet(state[r].escalated) /\ IsFiniteSet(Handled(r))
    /\ Cardinality(Handled(r)) = Cardinality(state[r].remediated)
          + Cardinality(state[r].escalated) + Cardinality(state[r].skipped)

(* What is planned is actionable, what is handled is planned, and a node   *)
(* is left when nothing is pending for it.                                 *)
Accounted(r) ==
    /\ \A i \in state[r].plan : ~Informational(i)
    /\ \A i \in state[r].informational : Informational(i)
    /\ Handled(r) \subseteq state[r].plan
    /\ node[r] \in Early => Handled(r) = {}
    /\ node[r] = "escalate" => Pending(r, "remediate") = {}
    /\ node[r] = "finalize" => state[r].plan = Handled(r)

RunsInv ==
    /\ Shape
    /\ \A r \in Runs : Counted(r) /\ Accounted(r)
    /\ DispositionsHonest

-----------------------------------------------------------------------------
(* Routed as planned *)

(* What decide has tagged, route decides again with the same outcome: an   *)
(* item of remediate is not handed over, an item of escalate always is.    *)
LEMMA RoutedAsPlanned ==
    ASSUME NEW item
    PROVE  /\ Target(item) = "remediate" =>
                 \/ ValidateAction(item) = "TOO_SMALL" /\ RouteAnswer(item) = "blocked"
                 \/ ValidateAction(item) = "OK" /\ RouteAnswer(item) = RouteAction(item)
           /\ Target(item) = "escalate" => RouteAnswer(item) = "escalation"
  BY DEF Target, ShouldEscalate, ValidateAction, RouteAnswer, BlockEndsRoute

(* What a call of the remediate node therefore does, and of the escalate   *)
(* node.                                                                   *)
Blocks(r, item) ==
    /\ ValidateAction(item) = "TOO_SMALL"
    /\ Outcome(r, "skipped", item, "blocked")
    /\ UNCHANGED <<results, claims, external>>
Lodges(r, item) ==
    /\ ValidateAction(item) = "OK" /\ RouteAction(item) = "claim"
    /\ RouteToClaim(r, item) /\ Outcome(r, "remediated", item, "claim")
    /\ UNCHANGED <<results, billingCalls>>
Asks(r, item) ==
    /\ ValidateAction(item) = "OK" /\ RouteAction(item) = "rebill"
    /\ RouteToRebilling(r, item) /\ Outcome(r, "remediated", item, "rebill")
    /\ UNCHANGED <<claims, insurerCalls>>

RemediateAsPlanned(r) ==
    /\ node[r] = "remediate"
    /\ \E item \in NextItems(r, "remediate") :
          Blocks(r, item) \/ Lodges(r, item) \/ Asks(r, item)
    /\ UNCHANGED <<situation, feed, escalations, persisted, summaries, times, node, rewrite>>

EscalateAsPlanned(r) ==
    /\ node[r] = "escalate"
    /\ \E item \in NextItems(r, "escalate") :
          RouteToHuman(r, item) /\ Outcome(r, "escalated", item, "escalation")
    /\ UNCHANGED <<situation, feed, results, claims, external, persisted, summaries, times,
                   node, rewrite>>

LEMMA RemediatePlan ==
    ASSUME NEW r, Remediate(r)
    PROVE  RemediateAsPlanned(r)
<1>1. PICK item \in NextItems(r, "remediate") :
         /\ Route(r, item)
         /\ Outcome(r, IF RouteAnswer(item) = "blocked" THEN "skipped" ELSE "remediated",
                    item, RouteAnswer(item))
  BY DEF Remediate
<1>2. Target(item) = "remediate" /\ RouteAction(item) \in {"claim", "rebill"}
  BY DEF NextItems, Pending, RouteAction
<1>3. CASE RouteAnswer(item) = "blocked"
  <2>1. UNCHANGED <<results, claims, escalations, external>>
    BY <1>1, <1>3 DEF Route
  <2>2. Blocks(r, item)
    BY <1>1, <1>2, <1>3, <2>1, RoutedAsPlanned DEF Blocks
  <2> QED BY <2>1, <2>2 DEF Remediate, RemediateAsPlanned
<1>4. CASE RouteAnswer(item) = "claim"
  <2>1. RouteToClaim(r, item) /\ UNCHANGED <<results, escalations, billingCalls>>
    BY <1>1, <1>4 DEF Route
  <2>2. Lodges(r, item)
    BY <1>1, <1>2, <1>4, <2>1, RoutedAsPlanned DEF Lodges
  <2> QED BY <2>1, <2>2 DEF Remediate, RemediateAsPlanned
<1>5. CASE RouteAnswer(item) = "rebill"
  <2>1. RouteToRebilling(r, item) /\ UNCHANGED <<claims, escalations, insurerCalls>>
    BY <1>1, <1>5 DEF Route
  <2>2. Asks(r, item)
    BY <1>1, <1>2, <1>5, <2>1, RoutedAsPlanned DEF Asks
  <2> QED BY <2>1, <2>2 DEF Remediate, RemediateAsPlanned
<1> QED BY <1>2, <1>3, <1>4, <1>5, RoutedAsPlanned

LEMMA EscalatePlan ==
    ASSUME NEW r, Escalate(r)
    PROVE  EscalateAsPlanned(r)
<1>1. PICK item \in NextItems(r, "escalate") :
         /\ Route(r, item)
         /\ Outcome(r, "escalated", item,
                    IF RouteAnswer(item) = "blocked" THEN "rebill" ELSE RouteAnswer(item))
  BY DEF Escalate
<1>2. RouteAnswer(item) = "escalation"
  BY RoutedAsPlanned DEF NextItems, Pending
<1>3. RouteToHuman(r, item) /\ UNCHANGED <<results, claims, external>>
  BY <1>1, <1>2 DEF Route
<1> QED BY <1>1, <1>2, <1>3 DEF Escalate, EscalateAsPlanned

-----------------------------------------------------------------------------
(* The lists of a run that a step leaves alone *)

SameLists(q) ==
    /\ state'[q].plan = state[q].plan
    /\ state'[q].informational = state[q].informational
    /\ state'[q].remediated = state[q].remediated
    /\ state'[q].skipped = state[q].skipped
    /\ state'[q].escalated = state[q].escalated

(* The run stays where it is, goes on to another early node, or fails.     *)
Walks(q) ==
    \/ node'[q] = node[q]
    \/ node[q] \in Early /\ node'[q] \in Early
    \/ node'[q] \in {"complete", "failed"}

LEMMA SameHandled ==
    ASSUME NEW q \in Runs, SameLists(q)
    PROVE  /\ Handled(q)' = Handled(q)
           /\ \A target : Pending(q, target)' = Pending(q, target)
<1>1. Handled(q)' = Handled(q)
  BY DEF Handled, SameLists
<1>2. \A i : Target(i)' = Target(i)
  BY DEF Target, Informational, ShouldEscalate, HighValue, ValidateAction
<1> QED BY <1>1, <1>2 DEF Pending, SameLists

LEMMA CountedStays ==
    ASSUME NEW q \in Runs, Counted(q), SameLists(q)
    PROVE  Counted(q)'
  BY SameHandled DEF Counted, SameLists

LEMMA AccountedStays ==
    ASSUME NEW q \in Runs, Accounted(q), SameLists(q), Walks(q)
    PROVE  Accounted(q)'
  BY SameHandled DEF Accounted, SameLists, Walks, Early, Informational

(* A step of r that writes no list.                                        *)
Passes(r) ==
    /\ Shape'
    /\ \A q \in Runs : SameLists(q)
    /\ \A q \in Runs \ {r} : node'[q] = node[q]

LEMMA PassingKeeps ==
    ASSUME RunsInv, NEW r \in Runs, Passes(r), Walks(r)
    PROVE  /\ Shape'
           /\ \A q \in Runs : Counted(q)' /\ Accounted(q)'
<1>1. ASSUME NEW q \in Runs PROVE Counted(q)' /\ Accounted(q)'
  <2>1. SameLists(q) /\ Walks(q)
    BY DEF Passes, Walks
  <2> QED BY <2>1, CountedStays, AccountedStays DEF RunsInv
<1> QED BY <1>1 DEF Passes

LEMMA WalkPasses ==
    ASSUME Shape, NEW r \in Runs, NEW n \in Nodes, Goto(r, n), UNCHANGED state
    PROVE  Passes(r) /\ node'[r] = n
  BY DEF Shape, Goto, Passes, SameLists

LEMMA StartPasses ==
    ASSUME Shape, NEW r \in Runs, Starts(r)
    PROVE  Passes(r) /\ node'[r] = "intake"
<1>1. node'[r] = "intake" /\ node' \in [Runs -> Nodes]
      /\ \A q \in Runs \ {r} : node'[q] = node[q]
  BY DEF Shape, Starts, Goto, Nodes
<1>2. /\ DOMAIN state' = Runs
      /\ \A q \in Runs : DOMAIN state'[q] = Fields /\ SameLists(q)
  BY DEF Shape, Starts, SameLists, Fields
<1> QED BY <1>1, <1>2 DEF Passes, Shape

LEMMA DetectPasses ==
    ASSUME Shape, NEW r \in Runs, Detect(r)
    PROVE  Passes(r) /\ node'[r] = "decide"
<1> DEFINE found == RunRules(situation.book, results)
           odd   == Novel(feed, found) \cap situation.outliers
           all   == found \cup Anomalies(odd)
<1>1. state' = [state EXCEPT ![r].findings = all] /\ Goto(r, "decide")
  BY DEF Detect
<1> HIDE DEF all
<1>2. /\ DOMAIN state' = Runs
      /\ \A q \in Runs : DOMAIN state'[q] = Fields /\ SameLists(q)
  BY <1>1 DEF Shape, SameLists, Fields
<1>3. node'[r] = "decide" /\ node' \in [Runs -> Nodes]
      /\ \A q \in Runs \ {r} : node'[q] = node[q]
  BY <1>1 DEF Shape, Goto, Nodes
<1> QED BY <1>2, <1>3 DEF Passes, Shape

-----------------------------------------------------------------------------
(* The plan *)

LEMMA DecideKeeps ==
    ASSUME RunsInv, NEW r \in Runs, Decide(r)
    PROVE  Shape' /\ \A q \in Runs : Counted(q)' /\ Accounted(q)'
<1> USE DEF RunsInv
<1>1. PICK items :
         /\ state' = [state EXCEPT ![r].plan = {i \in items : ~Informational(i)},
                                   ![r].informational = items \ {i \in items : ~Informational(i)}]
         /\ Goto(r, IF {i \in items : ~Informational(i)} = {} THEN "finalize" ELSE "remediate")
  BY DEF Decide
<1> DEFINE plan == {i \in items : ~Informational(i)}
           others == items \ plan
<1>2. /\ \A i \in plan : ~Informational(i)
      /\ \A i \in others : Informational(i)
  OBVIOUS
<1>3. /\ state' = [state EXCEPT ![r].plan = plan, ![r].informational = others]
      /\ Goto(r, IF plan = {} THEN "finalize" ELSE "remediate")
  BY <1>1
<1> HIDE DEF plan, others
<1>4. /\ Shape'
      /\ state'[r].plan = plan /\ state'[r].informational = others
      /\ state'[r].remediated = state[r].remediated /\ state'[r].skipped = state[r].skipped
      /\ state'[r].escalated = state[r].escalated
      /\ \A q \in Runs \ {r} : SameLists(q) /\ node'[q] = node[q]
      /\ node'[r] = (IF plan = {} THEN "finalize" ELSE "remediate")
  BY <1>3 DEF Shape, SameLists, Fields, Goto, Nodes
<1>5. Handled(r) = {} /\ Handled(r)' = Handled(r)
  BY <1>4 DEF Decide, Accounted, Early, Handled
<1>6. Counted(r)'
  BY <1>4, <1>5 DEF Counted
<1>7. Accounted(r)'
  BY <1>2, <1>4, <1>5 DEF Accounted, Early, Informational
<1>8. \A q \in Runs \ {r} : Counted(q)' /\ Accounted(q)'
  BY <1>4, CountedStays, AccountedStays DEF Walks
<1> QED BY <1>4, <1>6, <1>7, <1>8

(* One more item is handled. *)
LEMMA OutcomeKeeps ==
    ASSUME RunsInv, NEW r \in Runs, NEW list \in {"remediated", "skipped", "escalated"},
           NEW item \in state[r].plan \ Handled(r), NEW action,
           Outcome(r, list, item, action), node' = node,
           node[r] \in {"remediate", "escalate"}
    PROVE  Shape' /\ \A q \in Runs : Counted(q)' /\ Accounted(q)'
<1> USE DEF RunsInv
<1> DEFINE outcome == [item |-> item, action |-> action]
<1>1. state' = [state EXCEPT ![r][list] = @ \cup {outcome}] /\ outcome.item = item
  BY DEF Outcome
<1> HIDE DEF outcome
<1>2. /\ Shape'
      /\ \A q \in Runs \ {r} : SameLists(q)
      /\ state'[r].plan = state[r].plan /\ state'[r].informational = state[r].informational
  BY <1>1 DEF Shape, Fields, SameLists
<1>3. \/ /\ state'[r].remediated = state[r].remediated \cup {outcome}
         /\ state'[r].skipped = state[r].skipped /\ state'[r].escalated = state[r].escalated
      \/ /\ state'[r].skipped = state[r].skipped \cup {outcome}
         /\ state'[r].remediated = state[r].remediated /\ state'[r].escalated = state[r].escalated
      \/ /\ state'[r].escalated = state[r].escalated \cup {outcome}
         /\ state'[r].remediated = state[r].remediated /\ state'[r].skipped = state[r].skipped
  BY <1>1 DEF Shape, Fields
<1>4. Handled(r)' = Handled(r) \cup {item}
  BY <1>1, <1>3 DEF Handled
<1>5. /\ outcome \notin state[r].remediated /\ outcome \notin state[r].skipped
      /\ outcome \notin state[r].escalated /\ item \notin Handled(r)
  BY <1>1 DEF Handled
<1>6. Counted(r)'
  <2>1. Counted(r)
    OBVIOUS
  <2>2. IsFiniteSet(Handled(r)') /\ Cardinality(Handled(r)') = Cardinality(Handled(r)) + 1
    BY <1>4, <1>5, <2>1, FS_AddElement DEF Counted
  <2>3. ASSUME NEW S, IsFiniteSet(S), outcome \notin S
        PROVE  IsFiniteSet(S \cup {outcome}) /\ Cardinality(S \cup {outcome}) = Cardinality(S) + 1
    BY <2>3, FS_AddElement
  <2>4. /\ Cardinality(state[r].remediated) \in Nat /\ Cardinality(state[r].skipped) \in Nat
        /\ Cardinality(state[r].escalated) \in Nat
    BY <2>1, FS_CardinalityType DEF Counted
  <2> DEFINE a == state[r].remediated
             b == state[r].skipped
             c == state[r].escalated
             x == Cardinality(a)
             y == Cardinality(b)
             z == Cardinality(c)
  <2>5. /\ IsFiniteSet(a) /\ IsFiniteSet(b) /\ IsFiniteSet(c)
        /\ Cardinality(Handled(r)') = x + z + y + 1
    BY <2>1, <2>2 DEF Counted
  <2>6. /\ IsFiniteSet(a') /\ IsFiniteSet(b') /\ IsFiniteSet(c')
        /\ \/ x' = x + 1 /\ y' = y /\ z' = z
           \/ x' = x /\ y' = y + 1 /\ z' = z
           \/ x' = x /\ y' = y /\ z' = z + 1
    <3>1. CASE a' = a \cup {outcome} /\ b' = b /\ c' = c
      BY <1>5, <2>3, <2>5, <3>1
    <3>2. CASE b' = b \cup {outcome} /\ a' = a /\ c' = c
      BY <1>5, <2>3, <2>5, <3>2
    <3>3. CASE c' = c \cup {outcome} /\ a' = a /\ b' = b
      BY <1>5, <2>3, <2>5, <3>3
    <3> QED BY <1>3, <3>1, <3>2, <3>3
  <2>7. Cardinality(Handled(r)') = x' + z' + y'
    <3> HIDE DEF x, y, z
    <3>1. x \in Nat /\ y \in Nat /\ z \in Nat
      BY <2>4 DEF x, y, z
    <3> QED BY <2>5, <2>6, <3>1
  <2> QED BY <2>2, <2>6, <2>7 DEF Counted
<1>7. Accounted(r)'
  <2>1. Pending(r, "remediate")' \subseteq Pending(r, "remediate")
    BY <1>2, <1>4 DEF Pending, Target, Informational, ShouldEscalate, HighValue, ValidateAction
  <2> QED BY <1>2, <1>4, <2>1 DEF Accounted, Early, Informational
<1>8. \A q \in Runs \ {r} : Counted(q)' /\ Accounted(q)'
  BY <1>2, CountedStays, AccountedStays DEF Walks
<1> QED BY <1>2, <1>6, <1>7, <1>8

LEMMA RouteKeeps ==
    ASSUME RunsInv, NEW r \in Runs, Remediate(r) \/ Escalate(r)
    PROVE  Shape' /\ \A q \in Runs : Counted(q)' /\ Accounted(q)'
<1>1. PICK item \in state[r].plan \ Handled(r) :
         \E list \in {"remediated", "skipped", "escalated"} : \E action :
            Outcome(r, list, item, action)
  BY DEF Remediate, Escalate, NextItems, Pending
<1>2. node' = node /\ node[r] \in {"remediate", "escalate"}
  BY DEF Remediate, Escalate
<1> QED BY <1>1, <1>2, OutcomeKeeps

(* A node is left when nothing is pending for it; after both, all of the   *)
(* plan is handled.                                                        *)
LEMMA ProceedKeeps ==
    ASSUME RunsInv, NEW r \in Runs, Proceed(r)
    PROVE  Shape' /\ \A q \in Runs : Counted(q)' /\ Accounted(q)'
<1> USE DEF RunsInv
<1>1. /\ Passes(r)
      /\ \/ node[r] = "remediate" /\ Pending(r, "remediate") = {} /\ node'[r] = "escalate"
         \/ node[r] = "escalate" /\ Pending(r, "escalate") = {} /\ node'[r] = "finalize"
  BY WalkPasses DEF Proceed, Nodes
<1>2. \A q \in Runs : SameLists(q)
  BY <1>1 DEF Passes
<1>3. \A i \in state[r].plan \ Handled(r) :
         i \in Pending(r, "remediate") \/ i \in Pending(r, "escalate")
  BY DEF Accounted, Pending, Target
<1>4. Handled(r)' = Handled(r) /\ Pending(r, "remediate")' = Pending(r, "remediate")
  BY <1>2, SameHandled
<1>5. Accounted(r)'
  <2>1. CASE node'[r] = "escalate"
    BY <1>1, <1>2, <1>4, <2>1 DEF Accounted, SameLists, Early, Informational
  <2>2. CASE node[r] = "escalate" /\ Pending(r, "escalate") = {} /\ node'[r] = "finalize"
    <3>1. state[r].plan = Handled(r)
      BY <1>3, <2>2 DEF Accounted
    <3> QED BY <1>2, <1>4, <2>2, <3>1 DEF Accounted, SameLists, Early, Informational
  <2> QED BY <1>1, <2>1, <2>2
<1>6. \A q \in Runs : Counted(q)'
  BY <1>2, CountedStays
<1>7. \A q \in Runs \ {r} : Accounted(q)'
  BY <1>1, <1>2, AccountedStays DEF Walks, Passes
<1> QED BY <1>1, <1>5, <1>6, <1>7 DEF Passes

-----------------------------------------------------------------------------
(* What is persisted *)

LEMMA FinalizeHonest ==
    ASSUME RunsInv, NEW r \in Runs, Finalize(r)
    PROVE  DispositionsHonest'
<1> USE DEF RunsInv
<1>1. ASSUME NEW i \in state[r].plan \cup state[r].informational
      PROVE  Disposition(r, i) = "informational" <=> Informational(i)
  <2>1. state[r].plan = Handled(r)
    BY DEF Finalize, Accounted
  <2>2. CASE i \in state[r].plan
    <3>1. PICK o \in state[r].remediated \cup state[r].skipped \cup state[r].escalated :
             o.item = i
      BY <2>1, <2>2 DEF Handled
    <3>2. SameKey(o, i)
      BY <3>1 DEF SameKey
    <3>3. ~Informational(i)
      BY <2>2 DEF Accounted
    <3> QED BY <3>1, <3>2, <3>3 DEF Disposition
  <2>3. CASE i \in state[r].informational
    <3>1. Informational(i)
      BY <2>3 DEF Accounted
    <3>2. ASSUME NEW o \in state[r].remediated \cup state[r].skipped \cup state[r].escalated
          PROVE  ~SameKey(o, i)
      <4>1. ~Informational(o.item)
        BY <2>1 DEF Accounted, Handled
      <4> QED BY <3>1, <4>1 DEF SameKey, Informational
    <3> QED BY <3>1, <3>2 DEF Disposition
  <2> QED BY <2>2, <2>3
<1>2. ASSUME NEW f \in PersistedFindings(r)
      PROVE  f.disposition = "informational" <=> Informational(f)
  <2>1. PICK i \in state[r].plan \cup state[r].informational :
           f = [run |-> r, policy |-> i.policy, reason |-> i.reason, from |-> i.from,
                amount |-> i.amount, disposition |-> Disposition(r, i)]
    BY DEF PersistedFindings
  <2>2. f.disposition = Disposition(r, i) /\ (Informational(f) <=> Informational(i))
    BY <2>1 DEF Informational
  <2> QED BY <1>1, <2>2
<1>3. persisted' = persisted \cup PersistedFindings(r)
  BY DEF Finalize
<1> QED BY <1>2, <1>3 DEF DispositionsHonest, Informational

LEMMA HonestStays ==
    ASSUME DispositionsHonest, UNCHANGED persisted
    PROVE  DispositionsHonest'
  BY DEF DispositionsHonest, Informational

(* The other steps of r. *)
LEMMA PassingSteps ==
    ASSUME RunsInv, NEW r \in Runs,
           \/ ResetActionTables(r) \/ BeginLoad(r) \/ CommitLoad(r) \/ BeginReconcile(r)
           \/ CommitReconcile(r) \/ Detect(r) \/ Stamp(r) \/ Finalize(r) \/ Fail(r)
    PROVE  Passes(r) /\ Walks(r)
<1> USE DEF RunsInv, Walks, Early
<1>1. CASE ResetActionTables(r)
  BY <1>1, StartPasses DEF ResetActionTables, MayBegin
<1>2. CASE BeginLoad(r) \/ CommitLoad(r)
  BY <1>2, WalkPasses DEF BeginLoad, CommitLoad, Nodes
<1>3. CASE BeginReconcile(r) \/ CommitReconcile(r)
  BY <1>3, WalkPasses DEF BeginReconcile, CommitReconcile, Nodes
<1>4. CASE Detect(r)
  BY <1>4, DetectPasses DEF Detect
<1>5. CASE Finalize(r) \/ Fail(r)
  BY <1>5, WalkPasses DEF Finalize, Fail, Nodes
<1>6. CASE Stamp(r)
  BY <1>6 DEF Stamp, Passes, SameLists, Shape
<1> QED BY <1>1, <1>2, <1>3, <1>4, <1>5, <1>6

LEMMA RunsNext == RunsInv /\ [Next]_vars => RunsInv'
<1> SUFFICES ASSUME RunsInv, [Next]_vars PROVE RunsInv'
  OBVIOUS
<1>1. ASSUME NEW r \in Runs, Step(r) \/ Fail(r)
      PROVE  Shape' /\ \A q \in Runs : Counted(q)' /\ Accounted(q)'
  BY <1>1, PassingSteps, PassingKeeps, DecideKeeps, RouteKeeps, ProceedKeeps DEF Step
<1>2. ASSUME NEW r \in Runs, Step(r) \/ Fail(r)
      PROVE  DispositionsHonest'
  <2>1. CASE Finalize(r)
    BY <2>1, FinalizeHonest
  <2>2. CASE ~Finalize(r)
    <3>1. UNCHANGED persisted
      BY <1>2, <2>2 DEF Step, Fail, ResetActionTables, BeginLoad, CommitLoad,
         BeginReconcile, CommitReconcile, Detect, Decide, Remediate, Escalate, Proceed, Stamp,
         tables
    <3> QED BY <3>1, HonestStays DEF RunsInv
  <2> QED BY <2>1, <2>2
<1>3. CASE Change \/ UNCHANGED vars
  <2>1. UNCHANGED <<persisted, node, state>>
    BY <1>3 DEF Change, vars, tables
  <2>2. Shape' /\ \A q \in Runs : SameLists(q) /\ Walks(q)
    BY <2>1 DEF RunsInv, Shape, SameLists, Walks
  <2> QED BY <2>1, <2>2, HonestStays, CountedStays, AccountedStays DEF RunsInv
<1> QED BY <1>1, <1>2, <1>3 DEF Next, Done, RunsInv

LEMMA RunsInit == Init => RunsInv
<1> SUFFICES ASSUME Init PROVE RunsInv
  OBVIOUS
<1>1. Shape
  BY DEF Init, Shape, EmptyState, Fields, Nodes
<1>2. ASSUME NEW r \in Runs
      PROVE  /\ state[r].plan = {} /\ state[r].informational = {} /\ Handled(r) = {}
             /\ state[r].remediated = {} /\ state[r].skipped = {} /\ state[r].escalated = {}
             /\ node[r] = "new"
  BY DEF Init, EmptyState, Handled
<1>3. \A r \in Runs : Counted(r)
  <2>1. IsFiniteSet({}) /\ Cardinality({}) = 0 /\ 0 = 0 + 0 + 0
    BY FS_EmptySet
  <2> QED BY <1>2, <2>1 DEF Counted
<1>4. \A r \in Runs : Accounted(r)
  BY <1>2 DEF Accounted
<1>5. DispositionsHonest
  BY DEF Init, DispositionsHonest
<1> QED BY <1>1, <1>3, <1>4, <1>5 DEF RunsInv

LEMMA RunsInvariance == Spec => []RunsInv
  BY RunsInit, RunsNext, PTL DEF Spec

(* When a run has gone through its actions, what it remediated, escalated  *)
(* and skipped adds up to what it planned, whatever other runs delete and  *)
(* rewrite meanwhile (the check of run.py and run_reconcile).              *)
THEOREM ConservationAlways == Spec => []Conservation
<1>1. RunsInv => Conservation
  BY DEF RunsInv, Accounted, Counted, Conservation, ThroughActions
<1> QED BY <1>1, RunsInvariance, PTL

(* No planned finding is ever shown as informational, nor an informational *)
(* one as dealt with, although _persist_run looks dispositions up by       *)
(* policy and reason only.                                                 *)
THEOREM DispositionsAreAlwaysHonest == Spec => []DispositionsHonest
  BY RunsInvariance, PTL DEF RunsInv

-----------------------------------------------------------------------------
(* Amounts *)

(* A rounded amount is off by at most half a unit, and rounding does not   *)
(* depend on the sign: what _money does to a clawed back amount is what it *)
(* does to a paid one.                                                     *)
THEOREM MoneyIsNearest ==
    \A h \in Int : /\ Money(h) \in Int
                   /\ 100 * Money(h) - h <= 50 /\ h - 100 * Money(h) <= 50
                   /\ Money(-h) = -Money(h)
  BY DEF Money

-----------------------------------------------------------------------------
(* Sums over finite sets *)

(* The recursion behind MapThenSumSet, for a function g on S.              *)
Pick(s) == CHOOSE x \in s : TRUE
SumEqn(h, S, g) ==
    h = [s \in SUBSET S |-> IF s = {} THEN 0 ELSE g[Pick(s)] + h[s \ {Pick(s)}]]

(* Induction over finite sets, with a set for the predicate: a set of      *)
(* subsets has a member that contains no other.                            *)
LEMMA Smallest ==
    ASSUME NEW S, IsFiniteSet(S), NEW T \in SUBSET (SUBSET S), T # {}
    PROVE  \E X \in T : \A Y \in SUBSET X : Y # X => Y \notin T
<1>1. IsWellFoundedOn(StrictSubsetOrdering(S), SUBSET S)
  BY FS_FiniteSubsetsOfFinite, FS_StrictSubsetOrderingWellFounded
<1>2. PICK X \in T : \A Y \in T : <<Y, X>> \notin StrictSubsetOrdering(S)
  BY <1>1, WFMin
<1> QED BY <1>2 DEF StrictSubsetOrdering

LEMMA Picked == ASSUME NEW s, s # {} PROVE Pick(s) \in s
  BY DEF Pick

LEMMA SumStep ==
    ASSUME NEW S, NEW g, NEW h, SumEqn(h, S, g), NEW X \in SUBSET S
    PROVE  /\ X = {} => h[X] = 0
           /\ X # {} => h[X] = g[Pick(X)] + h[X \ {Pick(X)}]
  BY DEF SumEqn

LEMMA SumOfNone ==
    ASSUME NEW S, NEW g, NEW h, SumEqn(h, S, g)
    PROVE  h[{}] = 0
<1>1. {} \in SUBSET S
  OBVIOUS
<1> QED BY <1>1, SumStep

LEMMA SumUnique ==
    ASSUME NEW S, IsFiniteSet(S), NEW g, NEW h, SumEqn(h, S, g),
           NEW U \in SUBSET S, NEW k, SumEqn(k, U, g)
    PROVE  \A X \in SUBSET U : h[X] = k[X]
<1> DEFINE T == {X \in SUBSET U : h[X] # k[X]}
<1>1. SUFFICES ASSUME T # {} PROVE FALSE
  OBVIOUS
<1>2. IsFiniteSet(U) /\ T \in SUBSET (SUBSET U)
  BY FS_Subset
<1>3. PICK X \in T : \A Y \in SUBSET X : Y # X => Y \notin T
  <2> HIDE DEF T
  <2> QED BY <1>1, <1>2, Smallest
<1>4. X # {}
  <2>1. h[{}] = 0 /\ k[{}] = 0
    BY SumOfNone
  <2> QED BY <1>3, <2>1
<1>5. h[X \ {Pick(X)}] = k[X \ {Pick(X)}]
  BY <1>3, <1>4, Picked
<1> QED BY <1>3, <1>4, <1>5, SumStep

LEMMA SumRestrict ==
    ASSUME NEW S, NEW g, NEW h, SumEqn(h, S, g), NEW U \in SUBSET S
    PROVE  SumEqn([s \in SUBSET U |-> h[s]], U, g)
<1> DEFINE k == [s \in SUBSET U |-> h[s]]
<1>1. ASSUME NEW s \in SUBSET U
      PROVE  h[s] = IF s = {} THEN 0 ELSE g[Pick(s)] + k[s \ {Pick(s)}]
  <2>1. k[s \ {Pick(s)}] = h[s \ {Pick(s)}]
    OBVIOUS
  <2> QED BY <2>1, SumStep
<1> QED BY <1>1 DEF SumEqn

LEMMA SumExists ==
    ASSUME NEW S, IsFiniteSet(S), NEW g
    PROVE  \E h : SumEqn(h, S, g)
<1> DEFINE T == {X \in SUBSET S : ~\E h : SumEqn(h, X, g)}
<1>1. SUFFICES ASSUME T # {} PROVE FALSE
  OBVIOUS
<1>2. PICK X \in T : \A Y \in SUBSET X : Y # X => Y \notin T
  <2>1. T \in SUBSET (SUBSET S)
    OBVIOUS
  <2> HIDE DEF T
  <2> QED BY <1>1, <2>1, Smallest
<1> DEFINE F(Y) == CHOOSE h : SumEqn(h, Y, g)
           last == X \ {Pick(X)}
           h == [s \in SUBSET X |->
                    IF s # X THEN F(s)[s]
                    ELSE IF X = {} THEN 0 ELSE g[Pick(X)] + F(last)[last]]
<1>3. ASSUME NEW Y \in SUBSET X, Y # X
      PROVE  SumEqn(F(Y), Y, g)
  BY <1>2, <1>3
<1> HIDE DEF F
<1>4. ASSUME NEW s \in SUBSET X, s # {}, s # X
      PROVE  h[s] = g[Pick(s)] + h[s \ {Pick(s)}]
  <2>1. Pick(s) \in s
    BY <1>4, Picked
  <2> DEFINE t == s \ {Pick(s)}
  <2>2. t \in SUBSET s /\ t \in SUBSET X /\ t # X
    BY <1>4
  <2>3. SumEqn(F(s), s, g) /\ SumEqn(F(t), t, g)
    BY <1>3, <1>4, <2>2
  <2>4. IsFiniteSet(s)
    BY FS_Subset
  <2>5. F(s)[t] = F(t)[t]
    BY <2>2, <2>3, <2>4, SumUnique
  <2>6. F(s)[s] = g[Pick(s)] + F(s)[t]
    BY <1>4, <2>3, SumStep
  <2> QED BY <1>4, <2>2, <2>5, <2>6
<1>5. X # {} => last \in SUBSET X /\ last # X
  BY Picked
<1>6. \A s \in SUBSET X : h[s] = IF s = {} THEN 0 ELSE g[Pick(s)] + h[s \ {Pick(s)}]
  <2>1. \A s \in SUBSET X : s # {} /\ s # X => h[s] = g[Pick(s)] + h[s \ {Pick(s)}]
    BY <1>4
  <2>2. X # {} => h[X] = g[Pick(X)] + h[last]
    BY <1>5
  <2>3. h[{}] = 0
    <3>1. CASE X = {}
      BY <3>1
    <3>2. CASE X # {}
      <4>1. SumEqn(F({}), {}, g)
        BY <1>3, <3>2
      <4>2. F({})[{}] = 0
        BY <4>1, SumStep
      <4> QED BY <3>2, <4>2
    <3> QED BY <3>1, <3>2
  <2> QED BY <2>1, <2>2, <2>3
<1>7. SumEqn(h, X, g)
  <2>1. h = [s \in SUBSET X |-> h[s]]
    OBVIOUS
  <2> HIDE DEF h
  <2> QED BY <1>6, <2>1 DEF SumEqn
<1> QED BY <1>2, <1>7

LEMMA SumOfIntegers ==
    ASSUME NEW S, IsFiniteSet(S), NEW g, \A x \in S : g[x] \in Int,
           NEW h, SumEqn(h, S, g)
    PROVE  h[S] \in Int
<1> DEFINE T == {X \in SUBSET S : h[X] \notin Int}
<1>1. SUFFICES ASSUME T # {} PROVE FALSE
  OBVIOUS
<1>2. PICK X \in T : \A Y \in SUBSET X : Y # X => Y \notin T
  <2>1. T \in SUBSET (SUBSET S)
    OBVIOUS
  <2> HIDE DEF T
  <2> QED BY <1>1, <2>1, Smallest
<1> X \in SUBSET S /\ h[X] \notin Int
  BY <1>2
<1>3. X # {}
  <2>1. h[{}] = 0 /\ 0 \in Int
    BY SumOfNone
  <2>2. X = {} => h[X] = 0
    BY <2>1, Zenon
  <2> QED BY <2>1, <2>2, Zenon
<1>4. Pick(X) \in X /\ h[X \ {Pick(X)}] \in Int
  BY <1>2, <1>3, Picked
<1> HIDE DEF T
<1>5. h[X] = g[Pick(X)] + h[X \ {Pick(X)}]
  BY <1>2, <1>3, SumStep
<1> QED BY <1>2, <1>4, <1>5

(* The sums of the model are such sums. *)
LEMMA AmountsAreSummed ==
    ASSUME NEW S, IsFiniteSet(S)
    PROVE  \E h : /\ SumEqn(h, S, [x \in S |-> x.amount])
                  /\ MapThenSumSet(LAMBDA row : row.amount, S) = h[S]
<1> DEFINE g == [x \in S |-> x.amount]
           eqn(h) == [s \in SUBSET S |->
                        IF s = {} THEN 0
                        ELSE (CHOOSE x \in s : TRUE).amount + h[s \ {CHOOSE x \in s : TRUE}]]
<1>1. MapThenSumSet(LAMBDA row : row.amount, S) = (CHOOSE h : h = eqn(h))[S]
  BY DEF MapThenSumSet, MapThenFoldSet
<1>2. ASSUME NEW h
      PROVE  h = eqn(h) <=> SumEqn(h, S, g)
  <2>1. \A s \in SUBSET S : s # {} => g[Pick(s)] = Pick(s).amount
    BY DEF Pick
  <2>2. eqn(h) = [s \in SUBSET S |-> IF s = {} THEN 0 ELSE g[Pick(s)] + h[s \ {Pick(s)}]]
    BY <2>1 DEF Pick
  <2> QED BY <2>2 DEF SumEqn
<1> HIDE DEF eqn
<1>3. \E h : h = eqn(h)
  BY <1>2, SumExists
<1> DEFINE sum == CHOOSE h : h = eqn(h)
<1>4. sum = eqn(sum)
  BY <1>3
<1> QED BY <1>1, <1>2, <1>4

LEMMA StatedIsSummed ==
    ASSUME NEW S, IsFiniteSet(S)
    PROVE  \E h : /\ SumEqn(h, S, [x \in S |-> Stated(x)])
                  /\ MapThenSumSet(Stated, S) = h[S]
<1> DEFINE g == [x \in S |-> Stated(x)]
           eqn(h) == [s \in SUBSET S |->
                        IF s = {} THEN 0
                        ELSE Stated(CHOOSE x \in s : TRUE) + h[s \ {CHOOSE x \in s : TRUE}]]
<1>1. MapThenSumSet(Stated, S) = (CHOOSE h : h = eqn(h))[S]
  BY DEF MapThenSumSet, MapThenFoldSet
<1>2. ASSUME NEW h
      PROVE  h = eqn(h) <=> SumEqn(h, S, g)
  <2>1. \A s \in SUBSET S : s # {} => g[Pick(s)] = Stated(Pick(s))
    BY DEF Pick
  <2>2. eqn(h) = [s \in SUBSET S |-> IF s = {} THEN 0 ELSE g[Pick(s)] + h[s \ {Pick(s)}]]
    BY <2>1 DEF Pick
  <2> QED BY <2>2 DEF SumEqn
<1> HIDE DEF eqn
<1>3. \E h : h = eqn(h)
  BY <1>2, SumExists
<1> DEFINE sum == CHOOSE h : h = eqn(h)
<1>4. sum = eqn(sum)
  BY <1>3
<1> QED BY <1>1, <1>2, <1>4

LEMMA SumLast ==
    ASSUME NEW S, S # {}, NEW g, NEW h, SumEqn(h, S, g)
    PROVE  h[S] = g[Pick(S)] + h[S \ {Pick(S)}]
  BY SumStep

LEMMA SumOfOne ==
    ASSUME NEW S, NEW x, S = {x}, NEW g, g[x] \in Int, NEW h, SumEqn(h, S, g)
    PROVE  h[S] = g[x]
<1>1. S # {} /\ Pick(S) = x /\ S \ {x} = {}
  BY Picked
<1>2. h[{}] = 0
  BY SumOfNone
<1>3. h[S] = g[Pick(S)] + h[S \ {Pick(S)}]
  <2>1. S # {} /\ SumEqn(h, S, g)
    BY <1>1
  <2> QED BY ONLY <2>1, SumLast
<1>4. h[S] = g[x] + h[{}]
  <2> HIDE DEF Pick
  <2>1. Pick(S) = x /\ S \ {Pick(S)} = {}
    BY <1>1
  <2> QED BY ONLY <1>3, <2>1
<1> QED BY ONLY <1>2, <1>4, g[x] \in Int

(* What a policy was paid: a number, that of its one row if there is one. *)
PaidIn(row) == IF row.amount = NoAmount THEN 0 ELSE row.amount

LEMMA FeedSumIs ==
    ASSUME NEW rows, IsFiniteSet(rows), NEW p,
           \A row \in rows : row.amount \in Int \cup {NoAmount}
    PROVE  /\ FeedSum(rows, p) \in Int
           /\ FeedOf(rows, p) = {} => FeedSum(rows, p) = 0
           /\ \A row : FeedOf(rows, p) = {row} => FeedSum(rows, p) = PaidIn(row)
<1> DEFINE S == {row \in FeedOf(rows, p) : row.amount # NoAmount}
           g == [x \in S |-> x.amount]
<1>1. IsFiniteSet(S)
  BY FS_Subset DEF FeedOf
<1>2. \A x \in S : g[x] \in Int
  BY DEF FeedOf
<1>3. FeedSum(rows, p) = MapThenSumSet(LAMBDA row : row.amount, S)
  BY DEF FeedSum
<1> HIDE DEF S
<1>4. PICK h : SumEqn(h, S, g) /\ FeedSum(rows, p) = h[S]
  BY <1>1, <1>3, AmountsAreSummed
<1>5. FeedSum(rows, p) \in Int
  <2> HIDE DEF g
  <2> QED BY <1>1, <1>2, <1>4, SumOfIntegers
<1>6. S = {} => FeedSum(rows, p) = 0
  <2> HIDE DEF g
  <2> QED BY <1>4, SumOfNone
<1>7. ASSUME NEW row, S = {row}
      PROVE  FeedSum(rows, p) = row.amount
  <2>1. g[row] = row.amount /\ g[row] \in Int
    BY <1>2, <1>7
  <2> HIDE DEF g
  <2> QED BY <1>4, <1>7, <2>1, SumOfOne
<1>8. FeedOf(rows, p) = {} => S = {}
  BY DEF S
<1>9. \A row : FeedOf(rows, p) = {row} => S = IF row.amount = NoAmount THEN {} ELSE {row}
  BY DEF S
<1> QED BY <1>5, <1>6, <1>7, <1>8, <1>9 DEF PaidIn

(* What the statements say was paid on a policy, without rounding.         *)
LEMMA PaidIs ==
    ASSUME IsFiniteSet(situation.lines), NEW p
    PROVE  /\ LinesOn(p) = {} => Paid(p) = 0
           /\ \A l : LinesOn(p) = {l} /\ Stated(l) \in Int => Paid(p) = Stated(l)
<1> DEFINE S == LinesOn(p)
           g == [x \in S |-> Stated(x)]
<1>1. IsFiniteSet(S)
  BY FS_Subset DEF LinesOn
<1>2. Paid(p) = MapThenSumSet(Stated, S)
  BY DEF Paid
<1> HIDE DEF S
<1>3. PICK h : SumEqn(h, S, g) /\ Paid(p) = h[S]
  BY <1>1, <1>2, StatedIsSummed
<1>4. S = {} => Paid(p) = 0
  <2> HIDE DEF g
  <2> QED BY <1>3, SumOfNone
<1>5. ASSUME NEW l, S = {l}, Stated(l) \in Int
      PROVE  Paid(p) = Stated(l)
  <2>1. g[l] = Stated(l) /\ g[l] \in Int
    BY <1>5
  <2> HIDE DEF g
  <2> QED BY <1>3, <1>5, <2>1, SumOfOne
<1> QED BY <1>4, <1>5 DEF S

-----------------------------------------------------------------------------
(* Shapes *)

RowOK(row) == row.by \in Runs /\ row.amount \in Int \cup {NoAmount}
FeedOK(rows) == IsFiniteSet(rows) /\ \A row \in rows : RowOK(row)
VerdictOK(v) ==
    /\ DOMAIN v = {"by", "policy", "status", "reason", "expected", "actual", "delta", "state"}
    /\ v.by \in Runs /\ v.status \in ReconciliationClass
    /\ v.state \in ResolutionState
    /\ v.expected \in Nat /\ v.actual \in Int /\ v.delta \in Int
ItemOK(i) == i.amount \in Nat /\ i.status \in ResolutionState
ClaimOK(c) ==
    /\ DOMAIN c = {"run", "policy", "reason", "amount"}
    /\ c.run \in Runs /\ c.reason \in Claimable /\ c.amount \in Nat

TypeInv ==
    /\ RunsInv
    /\ situation \in Situations
    /\ DOMAIN rewrite = Runs
    /\ FeedOK(feed)
    /\ \A v \in results : VerdictOK(v)
    /\ \A r \in Runs : node[r] = "load" => FeedOK(rewrite[r].insert)
    /\ \A r \in Runs : node[r] = "verdicts" => \A v \in rewrite[r].insert : VerdictOK(v)
    /\ \A c \in claims : ClaimOK(c)
    /\ \A e \in escalations : e.run \in Runs /\ e.why \in EscalationReason
    /\ \A r \in Runs : \A i \in state[r].plan : ItemOK(i)
    /\ \A r \in Runs : \A o \in state[r].remediated : o.action \in {"claim", "rebill"}

(* The row a line is loaded as. *)
RowFrom(r, l) ==
    [by |-> r, insurer |-> l.insurer, n |-> l.n,
     policy |-> ParsePolicyNo(l.insurer, l.form, l.policy),
     premium |-> l.premium, amount |-> ComputeAmount(l)]

LEMMA LoadedIs ==
    ASSUME NEW r, NEW lines
    PROVE  Loaded(r, lines) = {RowFrom(r, l) : l \in lines}
<1>1. \A l : /\ NormalizeRow(l).insurer = l.insurer /\ NormalizeRow(l).n = l.n
             /\ NormalizeRow(l).policy = ParsePolicyNo(l.insurer, l.form, l.policy)
             /\ NormalizeRow(l).premium = l.premium
             /\ NormalizeRow(l).amount = ComputeAmount(l)
  BY DEF NormalizeRow
<1> QED BY <1>1 DEF Loaded, NormalizeFeed, RowFrom

LEMMA AmountType ==
    ASSUME NEW s \in Situations, NEW l \in s.lines
    PROVE  ComputeAmount(l) \in Int \cup {NoAmount}
<1>1. /\ l.premium \in Int \cup {NoAmount} /\ l.commission \in Int \cup {NoAmount}
  BY SituationsAssumption
<1>2. l.premium \in Int /\ l.commission \in Int => l.premium * l.commission \in Int
  OBVIOUS
<1> QED BY <1>1, <1>2, MoneyIsNearest DEF ComputeAmount

LEMMA LoadedOK ==
    ASSUME NEW s \in Situations, NEW r \in Runs
    PROVE  FeedOK(Loaded(r, s.lines))
<1> DEFINE f == [l \in s.lines |-> RowFrom(r, l)]
<1>1. IsFiniteSet(s.lines)
  BY SituationsAssumption
<1>2. f \in Surjection(s.lines, Loaded(r, s.lines))
  BY LoadedIs DEF Surjection
<1>3. IsFiniteSet(Loaded(r, s.lines))
  <2> HIDE DEF f
  <2> QED BY <1>1, <1>2, FS_Surjection
<1>4. \A l \in s.lines : RowOK(RowFrom(r, l))
  BY AmountType DEF RowFrom, RowOK
<1> QED BY <1>3, <1>4, LoadedIs DEF FeedOK

LEMMA VerdictIs ==
    ASSUME NEW r, NEW p, NEW status, NEW expected, NEW actual, NEW v,
           v = Verdict(r, p, status, expected, actual)
    PROVE  /\ v.by = r /\ v.policy = p /\ v.status = status
           /\ v.reason = StatusToReason[status]
           /\ v.expected = expected /\ v.actual = actual /\ v.delta = actual - expected
           /\ v.state = IF status = "MATCHED" THEN "" ELSE "open"
  BY DEF Verdict

(* A verdict of the engine is about a registered policy or an orphan.      *)
OnRegister(v, r, book, rows) ==
    \E p \in DOMAIN book :
        v = Verdict(r, p, Classify(book[p].expected, FeedCount(rows, p), FeedSum(rows, p),
                                   book[p].crm),
                    book[p].expected, FeedSum(rows, p))
OffRegister(v, r, book, rows) ==
    \E p \in Orphans(book, rows) :
        v = Verdict(r, p, "UNEXPECTED_PAYMENT", 0, FeedSum(rows, p))

LEMMA ReconcileIs ==
    ASSUME NEW r, NEW book, NEW rows, NEW v
    PROVE  v \in Reconcile(r, book, rows) <=>
              OnRegister(v, r, book, rows) \/ OffRegister(v, r, book, rows)
  BY DEF Reconcile, OnRegister, OffRegister

LEMMA ClassifyIs ==
    \A e, n, t, c : Classify(e, n, t, c) \in ReconciliationClass \ {"UNEXPECTED_PAYMENT"}
  BY DEF Classify, ReconciliationClass

LEMMA ReconcileOK ==
    ASSUME NEW s \in Situations, NEW r \in Runs, NEW rows, FeedOK(rows),
           NEW v \in Reconcile(r, s.book, rows)
    PROVE  VerdictOK(v)
<1>1. \A p : FeedSum(rows, p) \in Int
  BY FeedSumIs DEF FeedOK, RowOK
<1>2. \A p \in DOMAIN s.book : s.book[p].expected \in Nat
  BY SituationsAssumption DEF BookEntry
<1>3. ASSUME NEW p, NEW status \in ReconciliationClass, NEW expected \in Nat,
             v = Verdict(r, p, status, expected, FeedSum(rows, p))
      PROVE  VerdictOK(v)
  <2>1. FeedSum(rows, p) \in Int /\ FeedSum(rows, p) - expected \in Int
    BY <1>1
  <2>2. /\ v.by = r /\ v.status = status /\ v.expected = expected
        /\ v.actual = FeedSum(rows, p) /\ v.delta = FeedSum(rows, p) - expected
        /\ v.state = IF status = "MATCHED" THEN "" ELSE "open"
    BY ONLY <1>3 DEF Verdict
  <2>3. v.state \in ResolutionState
    BY <2>2 DEF ResolutionState
  <2>4. DOMAIN v = {"by", "policy", "status", "reason", "expected", "actual", "delta", "state"}
    BY ONLY <1>3 DEF Verdict
  <2> QED BY <1>3, <2>1, <2>2, <2>3, <2>4 DEF VerdictOK
<1>4. CASE OnRegister(v, r, s.book, rows)
  BY <1>2, <1>3, <1>4, ClassifyIs DEF OnRegister
<1>5. CASE OffRegister(v, r, s.book, rows)
  <2>1. "UNEXPECTED_PAYMENT" \in ReconciliationClass /\ 0 \in Nat
    BY DEF ReconciliationClass
  <2> QED BY <1>3, <1>5, <2>1 DEF OffRegister
<1> QED BY <1>4, <1>5, ReconcileIs

LEMMA MappedIs ==
    ASSUME NEW f, NEW v
    PROVE  /\ Verified(f, v).policy = f.policy /\ Verified(f, v).reason = f.reason
           /\ Verified(f, v).from = f.from
           /\ Verified(f, v).amount = AmountAtStake(v) /\ Verified(f, v).status = v.state
           /\ Unverified(f).policy = f.policy /\ Unverified(f).reason = f.reason
           /\ Unverified(f).from = f.from
           /\ Unverified(f).amount = 0 /\ Unverified(f).status = ""
  BY DEF Verified, Unverified

LEMMA MappedOK ==
    ASSUME NEW f
    PROVE  /\ ItemOK(Unverified(f))
           /\ \A v : VerdictOK(v) => ItemOK(Verified(f, v))
<1>1. ASSUME NEW v, VerdictOK(v)
      PROVE  ItemOK(Verified(f, v))
  <2>1. AmountAtStake(v) \in Nat /\ v.state \in ResolutionState
    BY <1>1 DEF VerdictOK, AmountAtStake, Abs
  <2>2. Verified(f, v).amount = AmountAtStake(v) /\ Verified(f, v).status = v.state
    BY MappedIs
  <2> QED BY <2>1, <2>2 DEF ItemOK
<1>2. ItemOK(Unverified(f))
  <2>1. Unverified(f).amount \in Nat
    BY DEF Unverified
  <2>2. Unverified(f).status \in ResolutionState
    BY DEF Unverified, ResolutionState
  <2> QED BY <2>1, <2>2 DEF ItemOK
<1> QED BY <1>1, <1>2

-----------------------------------------------------------------------------
(* Types *)

Flipped(v, p) == IF v.policy = p THEN [v EXCEPT !.state = "disputed"] ELSE v
Corrected(c, i) == IF SameLeak(c, i) THEN [c EXCEPT !.amount = i.amount] ELSE c

LEMMA FlippedOK ==
    ASSUME NEW v, VerdictOK(v), NEW p
    PROVE  VerdictOK(Flipped(v, p))
<1> DEFINE u == [v EXCEPT !.state = "disputed"]
<1>1. /\ DOMAIN u = DOMAIN v /\ u.by = v.by /\ u.status = v.status /\ u.state = "disputed"
      /\ u.expected = v.expected /\ u.actual = v.actual /\ u.delta = v.delta
  BY DEF VerdictOK
<1> HIDE DEF u
<1>2. VerdictOK(u)
  BY <1>1 DEF VerdictOK, ResolutionState
<1> QED BY <1>2 DEF Flipped, u

LEMMA CorrectedOK ==
    ASSUME NEW c, ClaimOK(c), NEW i, i.amount \in Nat
    PROVE  ClaimOK(Corrected(c, i))
<1> DEFINE d == [c EXCEPT !.amount = i.amount]
<1>1. /\ DOMAIN d = DOMAIN c /\ d.run = c.run /\ d.reason = c.reason /\ d.amount = i.amount
  BY DEF ClaimOK
<1> HIDE DEF d
<1>2. ClaimOK(d)
  BY <1>1 DEF ClaimOK
<1> QED BY <1>2 DEF Corrected, d

LEMMA ResultsTypeNext ==
    ASSUME TypeInv, NEW r \in Runs, Step(r) \/ Fail(r)
    PROVE  \A v \in results' : VerdictOK(v)
<1>1. CASE CommitReconcile(r)
  BY <1>1 DEF CommitReconcile, TypeInv
<1>2. CASE Remediate(r)
  <2>1. \/ results' = results
        \/ \E p : results' = {Flipped(v, p) : v \in results}
    BY <1>2, RemediatePlan
       DEF RemediateAsPlanned, Blocks, Lodges, Asks, RouteToRebilling, Flipped
  <2> QED BY <2>1, FlippedOK DEF TypeInv
<1>3. CASE ~CommitReconcile(r) /\ ~Remediate(r)
  <2>1. UNCHANGED results
    BY <1>3, EscalatePlan DEF Step, Fail, ResetActionTables, BeginLoad, CommitLoad,
       BeginReconcile, Detect, Decide, EscalateAsPlanned, Proceed, Stamp, Finalize, tables
  <2> QED BY <2>1 DEF TypeInv
<1> QED BY <1>1, <1>2, <1>3

LEMMA FeedTypeNext ==
    ASSUME TypeInv, NEW r \in Runs, Step(r) \/ Fail(r)
    PROVE  FeedOK(feed)'
<1>1. CASE CommitLoad(r)
  <2>1. FeedOK(feed) /\ FeedOK(rewrite[r].insert)
    BY <1>1 DEF CommitLoad, TypeInv
  <2>2. IsFiniteSet((feed \ rewrite[r].delete) \cup rewrite[r].insert)
    BY <2>1, FS_Subset, FS_Union DEF FeedOK
  <2> QED BY <1>1, <2>1, <2>2 DEF CommitLoad, FeedOK, RowOK
<1>2. CASE ~CommitLoad(r)
  <2>1. UNCHANGED feed
    BY <1>2 DEF Step, Fail, ResetActionTables, BeginLoad, CommitReconcile,
       BeginReconcile, Detect, Decide, Remediate, Escalate, Proceed, Stamp, Finalize, tables
  <2> QED BY <2>1 DEF TypeInv
<1> QED BY <1>1, <1>2

(* What a run is about to commit. *)
Rewrites ==
    /\ DOMAIN rewrite = Runs
    /\ \A r \in Runs : node[r] = "load" => FeedOK(rewrite[r].insert)
    /\ \A r \in Runs : node[r] = "verdicts" => \A v \in rewrite[r].insert : VerdictOK(v)

LEMMA RewriteTypeNext ==
    ASSUME TypeInv, NEW r \in Runs, Step(r) \/ Fail(r)
    PROVE  Rewrites'
<1> USE DEF RunsInv, Shape, Goto
<1>1. CASE BeginLoad(r)
  <2>1. FeedOK(Loaded(r, situation.lines))
    BY LoadedOK DEF TypeInv
  <2> HIDE DEF FeedOK, Loaded
  <2>2. FeedOK(rewrite'[r].insert) /\ node'[r] = "load"
    BY <1>1, <2>1 DEF BeginLoad, TypeInv
  <2> QED BY <1>1, <2>2 DEF BeginLoad, TypeInv, Rewrites, FeedOK, RowOK
<1>2. CASE BeginReconcile(r)
  <2>1. \A v \in Reconcile(r, situation.book, feed) : VerdictOK(v)
    BY ReconcileOK DEF TypeInv
  <2>2. /\ \A v \in rewrite'[r].insert : VerdictOK(v)
        /\ node'[r] = "verdicts"
    BY <1>2, <2>1 DEF BeginReconcile, TypeInv
  <2> QED BY <1>2, <2>2 DEF BeginReconcile, TypeInv, Rewrites, FeedOK, RowOK, VerdictOK
<1>3. CASE Decide(r)
  <2>1. /\ \A q \in Runs : q # r => node'[q] = node[q]
        /\ node'[r] \in {"finalize", "remediate"} /\ UNCHANGED rewrite
    BY <1>3 DEF Decide, TypeInv
  <2> QED BY <2>1 DEF TypeInv, Rewrites, FeedOK, RowOK, VerdictOK
<1>4. CASE Detect(r) \/ ResetActionTables(r)
  <2>1. /\ \A q \in Runs : q # r => node'[q] = node[q]
        /\ node'[r] \in {"decide", "intake"} /\ UNCHANGED rewrite
    BY <1>4 DEF Detect, ResetActionTables, Starts, TypeInv
  <2> QED BY <2>1 DEF TypeInv, Rewrites, FeedOK, RowOK, VerdictOK
<1>5. CASE Remediate(r) \/ Escalate(r)
  <2>1. UNCHANGED <<node, rewrite>>
    BY <1>5 DEF Remediate, Escalate
  <2> QED BY <2>1 DEF TypeInv, Rewrites, FeedOK, RowOK, VerdictOK
<1>6. CASE Stamp(r)
  <2>1. UNCHANGED <<node, rewrite>>
    BY <1>6 DEF Stamp
  <2> QED BY <2>1 DEF TypeInv, Rewrites, FeedOK, RowOK, VerdictOK
<1>7. CASE Proceed(r) \/ Finalize(r)
  <2>1. /\ \A q \in Runs : q # r => node'[q] = node[q]
        /\ node'[r] \in {"escalate", "finalize", "complete"} /\ UNCHANGED rewrite
    BY <1>7 DEF Proceed, Finalize, TypeInv
  <2> QED BY <2>1 DEF TypeInv, Rewrites, FeedOK, RowOK, VerdictOK
<1>8. CASE CommitLoad(r) \/ CommitReconcile(r) \/ Fail(r)
  <2>1. /\ \A q \in Runs : q # r => node'[q] = node[q] /\ rewrite'[q] = rewrite[q]
        /\ node'[r] \in {"reconcile", "detect", "failed"} /\ DOMAIN rewrite' = Runs
    BY <1>8 DEF CommitLoad, CommitReconcile, Fail, TypeInv
  <2> QED BY <2>1 DEF TypeInv, Rewrites, FeedOK, RowOK, VerdictOK
<1> QED BY <1>1, <1>2, <1>3, <1>4, <1>5, <1>6, <1>7, <1>8 DEF Step

LEMMA ClaimsTypeNext ==
    ASSUME TypeInv, NEW r \in Runs, Step(r) \/ Fail(r)
    PROVE  \A c \in claims' : ClaimOK(c)
<1>1. CASE Remediate(r)
  <2>1. CASE UNCHANGED claims
    BY <2>1 DEF TypeInv
  <2>2. CASE ~UNCHANGED claims
    <3>1. PICK item \in state[r].plan :
             RouteAction(item) = "claim" /\ RouteToClaim(r, item)
      BY <1>1, <2>2, RemediatePlan
         DEF RemediateAsPlanned, Blocks, Lodges, Asks, NextItems, Pending
    <3>2. item.reason \in Claimable /\ item.amount \in Nat
      BY <3>1 DEF RouteAction, TypeInv, ItemOK
    <3> DEFINE new == Lodged(r, item)
    <3>3. ClaimOK(new)
      BY <3>2 DEF ClaimOK, Lodged
    <3> HIDE DEF new
    <3>4. \/ claims' = claims \cup {new}
          \/ claims' = {Corrected(c, item) : c \in claims}
      BY <3>1 DEF RouteToClaim, Corrected, new
    <3> QED BY <3>2, <3>3, <3>4, CorrectedOK DEF TypeInv
  <2> QED BY <2>1, <2>2
<1>2. CASE ~Remediate(r)
  <2>1. UNCHANGED claims \/ claims' = {}
    BY <1>2, EscalatePlan DEF Step, Fail, ResetActionTables, BeginLoad, CommitLoad,
       BeginReconcile, CommitReconcile, Detect, Decide, EscalateAsPlanned, Proceed, Stamp,
       Finalize, tables
  <2> QED BY <2>1 DEF TypeInv
<1> QED BY <1>1, <1>2

EscalationOK(e) == e.run \in Runs /\ e.why \in EscalationReason

LEMMA EscalationsTypeNext ==
    ASSUME TypeInv, NEW r \in Runs, Step(r) \/ Fail(r)
    PROVE  \A e \in escalations' : EscalationOK(e)
<1>1. CASE Escalate(r)
  <2>1. PICK item : RouteToHuman(r, item)
    BY <1>1, EscalatePlan DEF EscalateAsPlanned
  <2>2. RouteEscalationReason(item) \in EscalationReason
    BY DEF RouteEscalationReason, EscalationReason
  <2> QED BY <2>1, <2>2 DEF RouteToHuman, TypeInv, EscalationOK
<1>2. CASE ~Escalate(r)
  <2>1. UNCHANGED escalations \/ escalations' = {}
    BY <1>2, RemediatePlan DEF Step, Fail, ResetActionTables, BeginLoad, CommitLoad,
       BeginReconcile, CommitReconcile, Detect, Decide, RemediateAsPlanned, Proceed, Stamp,
       Finalize, tables
  <2> QED BY <2>1 DEF TypeInv, EscalationOK
<1> QED BY <1>1, <1>2

(* The items a run plans, and what it did with them. *)
ListsOK(r) ==
    /\ \A i \in state[r].plan : ItemOK(i)
    /\ \A o \in state[r].remediated : o.action \in {"claim", "rebill"}

LEMMA DecideLists ==
    ASSUME TypeInv, NEW r \in Runs, Decide(r)
    PROVE  \A q \in Runs : ListsOK(q)'
<1> DEFINE judged == {v.policy : v \in results}
           itemsBy(verdict) ==
              {IF f.policy \in judged THEN Verified(f, verdict[f.policy]) ELSE Unverified(f) :
                  f \in state[r].findings}
           planBy(verdict) == {i \in itemsBy(verdict) : ~Informational(i)}
<1>1. PICK verdict \in [judged -> results] :
         state' = [state EXCEPT ![r].plan = planBy(verdict),
                                ![r].informational = itemsBy(verdict) \ planBy(verdict)]
  BY Zenon DEF Decide
<1>2. ASSUME NEW i \in planBy(verdict)
      PROVE  ItemOK(i)
  <2>1. \A p \in judged : VerdictOK(verdict[p])
    BY DEF TypeInv
  <2> QED BY <2>1, MappedOK
<1> DEFINE plan == planBy(verdict)
           others == itemsBy(verdict) \ planBy(verdict)
<1> HIDE DEF plan, others
<1>3. state' = [state EXCEPT ![r].plan = plan, ![r].informational = others]
  BY <1>1 DEF plan, others
<1>4. \A q \in Runs : /\ state'[q].remediated = state[q].remediated
                      /\ state'[q].plan = IF q = r THEN plan ELSE state[q].plan
  BY <1>3 DEF TypeInv, RunsInv, Shape, Fields
<1> QED BY <1>2, <1>4 DEF TypeInv, ListsOK, ItemOK, plan

LEMMA OutcomeLists ==
    ASSUME TypeInv, NEW r \in Runs, Remediate(r) \/ Escalate(r)
    PROVE  \A q \in Runs : ListsOK(q)'
<1>1. PICK list \in {"remediated", "skipped", "escalated"} : \E item, action :
         /\ Outcome(r, list, item, action)
         /\ list = "remediated" => action \in {"claim", "rebill"}
  BY RemediatePlan, EscalatePlan
     DEF RemediateAsPlanned, EscalateAsPlanned, Blocks, Lodges, Asks
<1>2. PICK item, action :
         /\ state' = [state EXCEPT ![r][list] = @ \cup {[item |-> item, action |-> action]}]
         /\ list = "remediated" => action \in {"claim", "rebill"}
  BY <1>1 DEF Outcome
<1>3. \A q \in Runs :
         /\ state'[q].plan = state[q].plan
         /\ \A o \in state'[q].remediated :
               \/ o \in state[q].remediated
               \/ list = "remediated" /\ o.action = action
  BY <1>2 DEF TypeInv, RunsInv, Shape, Fields
<1> QED BY <1>2, <1>3 DEF TypeInv, ListsOK, ItemOK

LEMMA SameListsOK ==
    ASSUME TypeInv, \A q \in Runs : SameLists(q)
    PROVE  \A q \in Runs : ListsOK(q)'
  BY DEF TypeInv, ListsOK, ItemOK, SameLists

LEMMA ListsTypeNext ==
    ASSUME TypeInv, NEW r \in Runs, Step(r) \/ Fail(r)
    PROVE  \A q \in Runs : ListsOK(q)'
<1>1. CASE Decide(r)
  BY <1>1, DecideLists
<1>2. CASE Remediate(r) \/ Escalate(r)
  BY <1>2, OutcomeLists
<1>3. CASE Proceed(r)
  <2>1. \A q \in Runs : SameLists(q)
    BY <1>3 DEF Proceed, SameLists
  <2> QED BY <2>1, SameListsOK
<1>4. CASE ~(Decide(r) \/ Remediate(r) \/ Escalate(r) \/ Proceed(r))
  <2>1. Passes(r)
    BY <1>4, PassingSteps DEF Step, TypeInv
  <2> QED BY <2>1, SameListsOK DEF Passes
<1> QED BY <1>1, <1>2, <1>3, <1>4

LEMMA TypeNext == TypeInv /\ [Next]_vars => TypeInv'
<1> SUFFICES ASSUME TypeInv, [Next]_vars PROVE TypeInv'
  OBVIOUS
<1>1. RunsInv'
  BY RunsNext DEF TypeInv
<1>2. situation' \in Situations
  BY DEF Next, Step, Fail, Change, Done, ResetActionTables, BeginLoad, CommitLoad,
     BeginReconcile, CommitReconcile, Detect, Decide, Remediate, Escalate, Proceed, Stamp, Finalize,
     vars, TypeInv
<1>3. CASE \E r \in Runs : Step(r) \/ Fail(r)
  BY <1>1, <1>2, <1>3, ResultsTypeNext, FeedTypeNext, RewriteTypeNext, ClaimsTypeNext,
     EscalationsTypeNext, ListsTypeNext
     DEF TypeInv, Rewrites, ListsOK, EscalationOK, VerdictOK, ClaimOK, ItemOK
<1>4. CASE Change \/ UNCHANGED vars
  <2>1. UNCHANGED <<tables, node, rewrite, state>>
    BY <1>4 DEF Change, vars
  <2> QED BY <1>1, <1>2, <2>1
          DEF TypeInv, tables, FeedOK, RowOK, VerdictOK, ClaimOK, ItemOK
<1> QED BY <1>3, <1>4 DEF Next, Done

LEMMA TypeInit == Init => TypeInv
<1> SUFFICES ASSUME Init PROVE TypeInv
  OBVIOUS
<1>1. RunsInv
  BY RunsInit
<1>2. FeedOK(feed)
  BY FS_EmptySet DEF Init, FeedOK
<1>3. \A r \in Runs : node[r] = "new" /\ state[r].plan = {} /\ state[r].remediated = {}
  BY DEF Init, EmptyState
<1> QED BY <1>1, <1>2, <1>3 DEF Init, TypeInv

LEMMA TypeInvariance == Spec => []TypeInv
  BY TypeInit, TypeNext, PTL DEF Spec

(* Whatever the books hold and the files say, overlapping or failing runs  *)
(* write only rows their tables allow, and a run's lists only items of its *)
(* plan.                                                                   *)
THEOREM TypesAreRight == Spec => []TypeOK
<1>1. TypeInv => TypeOK
  <2> SUFFICES ASSUME TypeInv PROVE TypeOK
    OBVIOUS
  <2>1. /\ \A row \in feed : row.by \in Runs /\ row.amount \in Int \cup {NoAmount}
        /\ \A v \in results :
              /\ v.by \in Runs /\ v.status \in ReconciliationClass
              /\ v.state \in ResolutionState /\ {v.expected, v.actual, v.delta} \subseteq Int
    BY DEF TypeInv, FeedOK, RowOK, VerdictOK
  <2>2. /\ \A c \in claims : c.run \in Runs /\ c.reason \in Claimable /\ c.amount \in Nat
        /\ \A e \in escalations : e.run \in Runs /\ e.why \in EscalationReason
    BY DEF TypeInv, ClaimOK
  <2>3. node \in [Runs -> Nodes]
    BY DEF TypeInv, RunsInv, Shape
  <2>4. ASSUME NEW r \in Runs
        PROVE  /\ \A i \in state[r].plan : i.amount \in Nat /\ i.status \in ResolutionState
               /\ \A o \in state[r].remediated : o.action \in {"claim", "rebill"}
               /\ Handled(r) \subseteq state[r].plan
    BY DEF TypeInv, ItemOK, RunsInv, Accounted
  <2> QED BY <2>1, <2>2, <2>3, <2>4 DEF TypeOK
<1> QED BY <1>1, TypeInvariance, PTL
=============================================================================
