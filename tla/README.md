# LeakSentinel in TLA+

LeakSentinel finds commission that insurers owe a broker and does something
about it: it loads the insurers' commission statements, compares them with the
broker's own register of policies, detects leaks and either claims the money,
asks for re-billing or hands the case to a human, leaving an audit trail of
everything. This directory holds TLA+ models of the parts in which concurrency,
failure and order decide whether that is right, the TLC runs that check them
and proofs of the results that hold for instances of every size.

`PROJECT.json` is the index: components, runs, the mutation that each property
is known to catch, the source lines behind every definition, the findings, the
hazards and the theorems.

## The system

| component | state | operations | properties that make it correct |
|---|---|---|---|
| **Action layer** (`actions/remediation.py`, `actions/escalation.py`) | `commission_claims`, `escalations`, `audit_log`, `reconciliation_results.resolution_state` | `route` → `validate_action`, `create_commission_claim`, `flag_for_rebilling`, `create_escalation`, `record_audit` | one active claim per leak; every effect in the trail; the trail a gap-free hash chain; a refusal reaches a human |
| **Normalizers** (`ingestion/normalizer.py`) | none | one per insurer | equal payments look equal whatever the insurer's format |
| **Reconciliation engine** (`reconciliation/engine.py`) | `reconciliation_results` | `reconcile`, `run` | each policy and each orphan payment gets the verdict its numbers call for |
| **Detection** (`detection/rules.py`, `anomaly.py`) | none | six rules, then an Isolation Forest over the rest | nothing the engine flags is missed |
| **Pipeline graph** (`graph/workflow.py`, `state.py`, `run.py`; `actions/mapping.py`) | `ReconciliationState` of a run, `findings`, `reconciliation_runs` | intake, reconcile, detect, decide, remediate, escalate, finalize | what is planned is accounted for; a run is a function of its data |
| **Read API** (`api/service.py`) | none | lists, details, metrics, `run_reconcile` | shows one run, the latest, as it happened |
| **Reconciliation jobs** (`api/main.py`) | `reconciliation_jobs`, background tasks | `POST /reconcile`, `_create_job`, `_run_reconcile_job`, `_finish_job` | one run at a time; `complete` means there is a result; every job ends |
| **Feeds** (`ingestion/loader.py`, `upload_processor.py`) | `insurer_feed_uploads`, `insurer_commission_feeds`, the upload directory | `_handle_upload`, `process_feed_upload`, `load_feeds`, the engine's read | the engine reads the synthetic files overlaid with the uploads; no half-loaded file is seen |
| **Accounts** (`auth/`, part of `api/main.py`) | `users`, tokens handed out | sign-up, register, patch, delete, password change, login, bootstrap | there is an administrator; one account bootstraps itself; rights are those of the moment |
| Document extraction (`documents/extractor.py`) | none | vision model call, validation | as a reading of an uploaded file, in `Feeds` |
| External systems (`actions/externalapi.py`) | calls received | `submit_claim`, `request_rebilling` | outside the system; mocks in the repository |
| Configuration, sessions, migrations, scripts, web client | — | start-up and display | not modelled |

How they interact. `POST /reconcile` inserts a job and leaves a background task
to the thread pool; the task runs the graph. *intake* clears claims and
escalations in one transaction and reloads the feed in another, normalizing
every line; *reconcile* rewrites the results in a third; *detect* and *decide*
read them; *remediate* and *escalate* call `route` once per plan item, and every
action of `route` is a transaction of its own; *finalize* writes the findings
and the summary in one transaction, from which the read API answers. Uploads go
into the same feed table at any time. There are no locks but those of
PostgreSQL, at READ COMMITTED: components interact through committed rows only.

What makes it hard: two workers on one leak; external calls made inside a
transaction that may still roll back; an audit tail read without a lock; an
action made of two transactions; loads that delete what others insert;
requests authorized by a row that changes before they write; a process that
dies with a job half done. `PROJECT.json` lists each hazard with its line and
the properties that cover it, or why none does.

## The modules

| module | models | extends |
|---|---|---|
| `ActionGate` | the gate, `should_escalate` and the routing table, as operators on findings | — |
| `AuditLog` | abstract: an append-only log of chained rows | — |
| `ActionLedger` | abstract: actions that take effect in one step, rows and entry together | `ActionGate` |
| `Actions` | every statement of `route` and of the actions it calls, by several workers | `ActionGate`; implements `AuditLog` and `ActionLedger` |
| `Normalizer` | from a line of a statement to the canonical view, as operators | — |
| `Reconciliation` | verdicts, rules, mapping to the amount at stake, plan targets, as operators | `ActionGate`, `Normalizer` |
| `Pipeline` | runs of the graph over one database | `Reconciliation` |
| `ReadApi` | what the API answers over the tables of `Pipeline` | `Pipeline` |
| `ReconcileService` | abstract: what clients see of requests, jobs and stored runs | — |
| `Jobs` | requests and background tasks in the server process | implements `ReconcileService` |
| `Feeds` | uploads, loads and the engine's read after a load | — |
| `Accounts` | the users table and the requests that change it | — |
| `MC…` | small instances of each | the module it is named after (`MCPipeline`: `ReadApi`) |
| `ActionsProofs` | typing, claims, reservations, the chain; `Actions` implements `AuditLog` | `Actions` |
| `EvidenceProofs` | what rows and answers are evidence of; who waits for whom; `Actions` implements `ActionLedger` | `ActionsProofs` |
| `SingleCallerProofs` | what one undisturbed caller of `route` can rely on | `EvidenceProofs` |
| `PipelineProofs` | conservation, sums over finite sets, typing | `Pipeline` |
| `SoleRunProofs` | a run that nobody overlaps, and what the API shows of it | `PipelineProofs`, `ReadApi` |
| `JobsProofs` | theorems about `Jobs`, which implements `ReconcileService` | `Jobs` |
| `FeedsProofs`, `AccountsProofs` | theorems about each | the module they are named after |

**Actions.** A table variable holds committed rows; `staged[w]` what worker `w`
has written in its open transaction; `read[w]` what it has selected. `Commit`
publishes, `Abort` and `Crash` drop. Each statement another transaction can
come between is an action: `ReserveClaim` (the INSERT in a savepoint),
`LoseReservation` and `LookUpClaim` (unique violation, then the SELECT),
`AmendClaim` (amount corrected), `SubmitClaim` (insurer, then status),
`ScanResults`/`FlipResults`/`RequestRebilling`, `InsertEscalation`, and
`ReadTail`/`AppendAudit` of `record_audit`. A statement the database makes
wait — an INSERT whose key an open transaction holds, an UPDATE of a row
another has changed — is disabled until that transaction ends. SHA-256 is
modelled as free of collisions: a hash is the sequence of everything hashed.
Other pipeline runs appear as `ResetActionTables` and `RewriteResults`.

**ActionLedger.** The same tables without workers, statements and open
transactions: an action shows its rows together with its entry in the log. A
claim appears submitted, a policy is disputed as a whole, and an outside system
is told once by each call, before the entry. `Actions` implements it with its
committed tables and calls taken as they are; the log is what the audit rows
record, in the order of `sequence_no` (`EventsInOrder`). `FindClaim` may leave
the amount as it was, and `Flag` may find no row left to flag, because the code
does both when another run empties or rewrites the table in between.

**Normalizer.** Two insurers state an amount and two a percentage of the
premium; two write the policy number as it is, two inside a reference of their
own. A product of premium and percentage has two decimals more than money, so
amounts on a statement are counted in hundredths of the unit `_money` rounds
to. A line that does not parse keeps its gaps, as in the code, and a reference
in the wrong form is taken literally by insurers that write plain numbers.

**Reconciliation and Pipeline.** Thresholds are small numbers in the order the
code has them (rounding minimum ≤ tolerance < claim minimum ≤ escalation
threshold). A situation is what a run finds: the register with the expected
commission, CRM amount and renewal of each policy, the raw lines of the feed
files, which `Loaded` normalizes, and which policies the Isolation Forest would
call odd (any set). A node that rewrites a table is two actions, so that two
runs can delete and insert across each other; a route call is one, since
`Actions` models its statements. Such a call decides again, by its own
conditions (`RouteAnswer`), what `decide` has planned, and the node keeps its
answer whatever it is. `Decide` picks any of the verdicts of a policy when
overlapping runs left several, because the code keeps whichever the query
returns last. The last node takes the time (`Stamp`) before it commits
(`Finalize`), so that runs may commit in another order than that of their
stamps. A run may end at any node (`Fail`), and the insurer or billing call of
the route call that was cut short has then been made.

**ReadApi.** `LatestRunId`, `ListLeaks`, `LeakDetail`, `Metrics` and
`RunReconcile` are the queries of `api/service.py`. The leaks come from the
latest run and never change; the claims are those of the moment. The latest run
is the one stamped last of those committed. `LeakDetail` shows one finding of
the policy, which one being up to the database (the query takes the first and
orders by nothing), so it is a set of pages; it is an error when overlapping
runs left the policy two verdicts.

**Jobs.** One client is one sequential caller. `SelectActive` and `InsertJob`
are the two statements of `_create_job`; `Reply` sends the 202 and adds the
task; `MarkRunning`, `PipelineCompletes`/`PipelineRaises` and `FinishJob` are
`_run_reconcile_job`. A job's number is that of its request. `"lost"` marks a
task whose process died or whose outcome the database refused.
`ReconcileService` is what remains of this for a client: a job is opened,
answered for, started, stores its run and ends, and the committed `jobs`, `runs`
and `replies` are that service whoever fails.

**Feeds.** A row remembers the upload and the load that inserted it, so that a
row twice in the table is seen as two. `load_feeds` is `ChooseSource` (intake,
in a session of its own), `LoadSynthetic`, `ReadUploads`, one `ReplaceKey` per
key, `InsertViews` and `CommitLoad`; every DELETE takes the rows committed when
it runs. `Reconcile` is the engine's read. A file has a set of readings: a table
has one, a scan, which a vision model reads anew on every load, has several. A
line whose policy number did not normalize is loaded from the synthetic files
and dropped from an upload, as in the code.

**Accounts.** A request is authorized (`Authenticated`, `Administrates`,
`OwnRowGuard`) when it arrives and writes later: `CountUsers`/`Insert` for a
sign-up, `Select`/`Update` for patch, delete and password change, of which the
UPDATE sets the columns that differed when the row was read. A token is the
role it was issued with; deactivated users keep their row. `Start` bootstraps
the first administrator into an empty table, `Stop` drops requests in progress.

History variables that no action reads: `state[r].seen` and `state[r].alone` in
`Pipeline`, `loader.quiet` in `Feeds`, `request[r].alone` and `request[r].found`
in `Accounts`. They say what a run or request found and whether anything
overlapped it, so that a property can say what holds then.

## The runs

| run | question | bounds |
|---|---|---|
| `actions_concurrent` | what holds whatever interleaves and fails | 2 workers, 3 calls, 4 findings, 1 reset, 1 rewrite, crashes |
| `actions_single` | what a caller alone can rely on | 1 worker, 4 calls, 9 findings |
| `pipeline_one_policy` | does money go from a statement line to the right action | 1 run over 5376 situations |
| `pipeline_runs` | what survives earlier, failed and overlapping runs | 2 runs, 3 situations that change between them, failures |
| `jobs_clients` | what POST /reconcile guarantees | 2 clients, 4 requests, every failure, crashes |
| `feeds_loads` | what the engine finds in the feed | 2 uploads of 4 kinds of file, 3 loads, failures, crashes, lost files |
| `accounts` | what authorization and bootstrap guarantee | 2 people, 2 overlapping requests, restarts |

What they show:

- `actions_concurrent`: one active claim per leak (`OneActiveClaim`); the trail
  verifies at every moment (`VerifyAuditChain`) and implements the append-only log
  (`AuditIsALog`); visible claims, escalations and disputes have their evidence,
  in the right order (`ClaimsAreEvidenced`, `EscalationsAreEvidenced`,
  `DisputesAreEvidenced`); an answer has its audit row (`EveryOutcomeAudited`);
  the insurer is contacted only by the holder of the reservation
  (`LodgedUnderReservation`), and told again about a leak only if whoever told it
  before left no record or if another run cleared the claims in between
  (`ToldOncePerReset`, the bounds within which `remediation.py:18` is right);
  while calls are in progress, one of them waits for nobody (`NobodyStuck`).
  Whoever reads the committed tables sees actions that took
  effect whole, each in one step, as `ActionLedger` has them (`ActionsAreWhole`):
  no reservation that is not yet submitted, no half-flagged policy, no row without
  its entry, no entry of an action the gate did not route there.
- `actions_single`: the insurer and billing are called once per leak however
  often a finding is retried (`InsurerCalledOnce`, `BilledOnce`), every external
  call is audited (`EveryCallAudited`), a refusal reaches a human
  (`RefusedReachesHuman`). **These four do not hold under concurrency, resets or
  crashes**; see the findings.
- `pipeline_one_policy`: no payment is lost between the lines and the verdicts or
  counted twice, for registered policies and others (`PaymentsJudged`); an unpaid
  or underpaid policy is claimed for what is owed, or with a human, or below the
  minimum (`UnderpaymentPursued`); no claim is for more than the statements leave
  open (`ClaimsAreOwed`), and a policy paid in whatever format is left alone
  (`PaidIsLeftAlone`) — all four in exact hundredths of the raw lines, past the
  rounding of normalizer and engine; what the run says it did was done
  (`OutcomesHappened`); every open verdict but a CRM mismatch ends in a plan item
  that was dealt with (`NothingFallsThrough`); a renewal on a matched policy
  reaches a human and is not re-billed (`RenewalsReachHuman`).
- `pipeline_runs`: a run accounts for all it planned (`Conservation`) and calls a
  finding informational only if it is (`DispositionsHonest`), overlapped or not;
  an undisturbed run persists exactly what its books and files call for
  (`Reproducible`). What the dashboard shows when a run commits is one committed
  run, not always that one, with the exposures that run recorded; a run that was
  alone is the one shown, the figures are those it returned, and whichever
  finding the page of a policy shows, the verdict, claims and cases on the page
  account for it (`DashboardAgrees`).
- `jobs_clients`: jobs, runs and answers are those of the abstract service
  (`ServiceIsKept`): jobs never go back or end twice, an answer names a job that
  is there, no pipeline starts before the client that opened its job has the
  answer; a complete job has its run (`CompleteMeansRan`); a job is started once
  (`StartedOnce`); *n* clients have at most *n* pipelines (`OnePipelineEach`); an
  accepted request ends, unless its process died or the database refused to take
  the outcome (`AcceptedEnds`).
- `feeds_loads`, whose loads come one after the other with uploads between and
  across their statements: no row of an upload that is not processed is in the feed
  (`UploadedRowsAreProcessed`); no uploaded line stands twice (`NoLineTwice`); no
  policy of the baseline ever loses its last row, which would make it look unpaid
  (`BaselineCovered`); an engine no upload overlapped reads exactly the overlay,
  of one reading of each standing upload (`EngineReadsOverlay`).
- `accounts`, with requests that overlap: the last administrator falls only to
  someone who was an administrator when authorized and is one no more, as when
  two demote each other (`LastAdminStands`); the first account is an
  administrator, and whoever makes themself one signed up while there was no
  account at all (`FirstIsAdmin`); no update of one column undoes another
  (`ChangesAreAskedFor`). Rights are those of the row, not of the token
  (`OnlyAdminsAdminister`, of a change nothing overlaps).

`TypeOK` of `Actions`, `Pipeline`, `Jobs` and `Accounts` is proved (`Typing`,
`TypesAreRight`, `JobsTyped`, `AccountsTyped`) and not run.

Why the bounds are enough. Two workers give every pairwise race, which is all
PostgreSQL's row and key locks distinguish; the third call lets one of them retry
what the other did, and one reset and one rewrite let each statement see its table
change underneath it. In `actions_concurrent` the findings are a claim, the same
claim with another amount, a re-billing and a refusal: one for each path through
`route`; the remaining reasons and amounts are in `actions_single`. Amounts in
`pipeline_one_policy` lie at, just below and just above every threshold and half
unit, for every insurer and form of reference. `pipeline_runs` needs no third run:
`Reproducible` compares each run with `Called`, which looks at the situation it
began with and at no table, so that one earlier run of another situation, complete
or failed anywhere, is all that can disturb it. Two uploads of one insurer
supersede each other, and the second and third load meet the rows of the first and
of an upload between them. Two people and two requests give an administrator who
acts on another or on themself while a second request overlaps. Symmetry is
declared for workers, runs, requests and the account that is not bootstrapped,
none of which any definition tells apart, and in no run that checks liveness.

Deadlock is checked in every run: where the system may rest, `Done` says so and
stutters.

**Fairness.** Only `Jobs` states any: weak fairness of the handler steps of each
client and of the steps of each task. They run in the thread pool of the
server and wait for no lock of one another. Sending a request and crashing are
not fair: nobody has to do either. `DatabaseMayRaise` and `PipelineMayRaise`
stay on; weak fairness does not make the good outcome happen.

## Findings

Runs that state what the repository says of itself and find it violated:

| run | said | done |
|---|---|---|
| `actions_collision_unaudited` (`EveryCallAudited`) | every action appends to `audit_log` (`remediation.py:22`) | two workers read the same tail; the loser of `sequence_no` is rolled back after its insurer call |
| `actions_rebill_twice` (`BilledOnce`) | a concurrent flip cannot double-apply (`remediation.py:575`) | the second UPDATE matches the already disputed row, and billing is asked again |
| `pipeline_clawback_sign` (`ClawbackIsOverpaid`) | underpayment and clawback are never summed (`README.md:97`) | two part payments that fall short are a duplicate payment, and the shortfall is counted as clawback |
| `jobs_two_pipelines` (`OnePipeline`) | never two concurrent pipeline runs (`main.py:676`) | two requests may both find no active job |
| `feeds_upload_wiped` (`UploadSurvives`) | an uploaded feed is not wiped by a run (`test_api.py:498`) | a load that chose `synthetic` deletes an upload committed since |

Met while modelling, in the models, and without a run of their own:

- A crash after `submit_claim` and before the commit rolls back the reservation;
  the retry calls the insurer again. `InsurerCalledOnce` fails in `Actions` with
  `MayCrash = TRUE`.
- Every run deletes all claims, submitted ones too (`workflow.py:381`), and
  lodges them again, although retries are said never to double-pay
  (`remediation.py:18`).
- A crash between a committed refusal and its escalation leaves the finding with
  nobody (`RefusedReachesHuman` with `MayCrash = TRUE`).
- If another run resets the tables between the unique violation and the SELECT,
  the answer is EXISTING with no claim, and the *remediate* node books it as a
  re-billing. `Pipeline`, whose route calls are atomic, does not see this.
- CRM_MISMATCH verdicts are open, and no detector reports them.
- A finding takes the status of its policy's verdict: a renewal on a policy that
  is itself open passes the gate and is re-billed instead of escalated.
- A renewal on a policy matched within the tolerance is valued at the rounding
  difference, not at the expected commission as `mapping.py:15` has it.
- `leak_detail` raises when overlapping runs have left a policy two verdicts
  (`service.py:156`), and shows one of the findings of a policy that has several
  (`service.py:171`); that the page accounts for the finding shown is therefore
  said of runs that were alone.
- Of two overlapping runs the one stamped first may commit last
  (`workflow.py:322`, 327): what it has just found is then not what
  `list_leaks` shows (`service.py:65`).
- The job of a process that died stays active and answers every later request;
  `AcceptedEnds` therefore excepts `"lost"`. A second request gets 202 with the
  id of the running job; the repository's README, line 205, says 409.
- An upload that commits after the overlay was read stands beside the synthetic
  rows of its policies. `EngineReadsOverlay` therefore speaks of quiet loads.
- A row the vision model reads has a premium and no amount. It replaces the paid
  rows of its policy, which is then claimed as underpaid: what the model reads
  does decide about money, README line 67 notwithstanding. `HUMAN_REVIEW`
  (`extractor.py:11`) is ignored by `upload_processor.py:76`.
- If the first commit of `process_feed_upload`, or that of its except branch,
  raises, the upload is left without a final status.
- Two overlapping first sign-ups both count no user and both become
  administrators (`main.py:580`); two administrators may demote each other, and
  a table that is not empty is not bootstrapped again. `FirstIsAdmin` and
  `LastAdminStands` say that it takes no less than that. The guard of
  one's own row compares with the role read at authorization (`main.py:294`).

## What is proved

TLAPS checks these for every value of the constants that satisfies the named
assumptions of the modules.

**The action layer**, for any set of workers, policies, findings and any bounds
(`ActionsProofs`, `EvidenceProofs`):

- `Typing`: `TypeOK`, one lemma per action.
- `OneActiveClaimAlways`. `OneActiveClaim` speaks of committed rows and is not
  inductive: a transaction could hold a second row. `OneClaimInv` adds
  `ReservationsExclusive`: two open transactions never hold rows of the same
  leak, and a row held for a leak that has a committed claim is a new version of
  that very row. `ReserveClaimOne`, `AmendClaimOne`, `SubmitClaimOne` and
  `CommitOne` are the four steps that could break it; the others write no claim.
- `LodgedUnderReservationAlways`: whoever contacts the insurer holds the only
  reservation of the leak, and no claim for it is committed. `SubmitHolds` adds
  to `OneClaimInv` that a worker about to call the insurer holds its row and
  that nobody has committed a claim for the leak since. Only `ReserveClaim`
  brings a worker there; only `Commit` of another could break it, and
  `ReservationsExclusive` says that it does not.
- `AuditChainVerifies`. `ChainInv` adds to the committed chain that a tail a
  worker has read is committed, though maybe stale (`read[w].audit \subseteq
  audit`), that a row in an open transaction continues the committed chain, and
  that no two open rows have the same number. A stale tail then leads to a
  taken `sequence_no`, and `AppendAudit` to the rollback, never to a fork;
  `CommitChain` shows that a continuing row gives a longer chain.
- `AuditIsAlwaysALog`, the refinement `AuditIsALog`. `HashInv` says that every
  row, committed or open, carries the hash of what it follows and records;
  `InOrder` that the committed rows in order are a sequence with row *i* at
  place *i*. `AuditSteps` leaves three kinds of step, of which only a commit
  changes the log, and `PublishAppends` shows that it appends the abstract row.
- `ClaimsAreAlwaysEvidenced`, `DisputesAreAlwaysEvidenced` and
  `EveryOutcomeIsAudited`, from `EvidenceInv`: what the open transaction of a
  worker will show has been called for outside and is either audited already or
  will be by the row that commits with it (`ClaimsHeld`, `ResultsHeld`,
  `RowHeld`). `OthersSame` and `EvidenceGrows` carry it over the steps of others:
  nothing a worker relies on is ever taken back, not even by a reset.
- `EscalationsAreAlwaysEvidenced`, from `HandoverInv`: calls in progress have
  numbers of their own that no earlier row bears (`CallsNumbered`), a call hands
  over at most once (`OneHandoff`), and a worker on its way to a human has
  committed the refusal before (`RefusedFirst`). Since an open row is the next
  of the log (`ChainInv`), the refusal comes first in it.
- `NobodyIsStuck`, from the same invariant. Rows are held in the order of the
  statements: a worker that holds a row is past writing it. A worker at its
  commit waits for nobody; if there is none, nobody holds an audit row and one
  that is about to append its own waits for nobody; if there is none of these
  either, nobody holds any row at all. `Waits` spells out the database's waits.
- `ToldOncePerResetAlways`, from `RecordInv`, which adds to `LedgerInv` that the
  insurer calls on record about a leak that has no active claim are no more than
  the resets so far (`WithinResets`). A commit that puts a call on record creates
  the claim of a leak that had none (`CommitOnRecord`), and a leak without an
  active claim is one to which one more call may be added; a reset takes the
  claims and raises the bound.
- `ActionsAreAlwaysWhole`, the refinement `ActionsAreWhole`, from `LedgerInv`. It
  joins `HandoverInv`, `OneClaimInv` and `SubmitHolds` with what the abstract
  actions look at: who was told what by which call (`CallsTold`), that committed
  results hold a row per policy (`RowPerPolicy`) and no two open transactions
  rows of one policy (`RowsExclusive`), and, for each worker, that what its
  transaction will publish is exactly one abstract action on the tables as they
  are then (`Whole`). `SubmitClaim` is `Lodge`, `RequestRebilling` is
  `AskBilling`, a commit is the action whose row it publishes (`RowAppended` says
  that the row ends the log), a reset and a rewrite are theirs, and every other
  statement changes nothing anybody sees.

**A single caller** (`SingleCallerProofs`). The findings show what a caller
cannot rely on when others, crashes, resets and rewrites come between; these
theorems say what it can without them, for any policies and findings and any
number of calls. `Uninterrupted` says that `Workers` has one member at most and
that its process does not die. A pipeline run is such a caller while no other is
active; each theorem names as a hypothesis only what it needs.

- `EveryCallIsAudited` and `RefusedAlwaysReachesHuman`, under `Uninterrupted`,
  resets and rewrites included. `SoleInv` adds to `HandoverInv` that the tail a
  caller has read is the tail (`TailFresh`), so that no commit is lost to a
  collision, and that nothing undoes the second transaction of a refused call
  (`AfterRefusal`).
- `InsurerIsCalledOnce`, when nothing resets the claims (`MaxResets = 0`): every
  call has left an active claim, committed or about to be (`Reserved`), and the
  next call for that leak is refused by it.
- `PolicyIsBilledOnce`, when nothing rewrites the results (`MaxReconciles = 0`):
  the row of a billed policy is disputed or about to be (`Disputed`).

**Pipeline** (`PipelineProofs`), for any number of runs, overlapping or not, and
any books and files:

- `TypesAreRight`: `TypeOK`. That amounts are integers rests on sums over sets,
  which the community modules define by a recursive function. `Smallest` makes
  the well-founded order of the finite subsets an induction over a *set* of
  subsets, which the provers can use; from it follow that the recursion has
  exactly one solution (`SumExists`, `SumUnique`), that it is an integer
  (`SumOfIntegers`), and that `FeedSum`, `Paid`, the exposures and the totals
  are that solution (`AmountsAreSummed`, `StatedIsSummed`).
- `ConservationAlways` and `DispositionsAreAlwaysHonest`, from `RunsInv`: what is
  planned is actionable, what is handled is planned, an item is counted in one
  list, and a node is left only when nothing is pending for it. A finding is then
  looked up in the lists by policy and reason and found exactly if it was
  planned. `RoutedAsPlanned` shows that `route`, which decides again by its own
  conditions, hands over no item that `decide` left to *remediate*, and hands
  over every other.
- `MoneyIsNearest`: rounding moves an amount by at most half a unit, whatever its
  sign.

**A run that nobody overlaps** (`SoleRunProofs`), for any books and files, any
thresholds in the code's order, any number of runs, any of which may fail:

- `EveryPaymentIsJudged` speaks of the runs that were alone and has no
  hypothesis. The verdicts are one for each policy (`EveryPolicyJudged`), so that
  summing over them is summing over policies (`SumOfImages`); each is the sum of
  the rows of its policy, and sums over the classes of a key are the sum of the
  whole (`SumByKey`, from `SumDisjoint` and `SumOfNothings`); and a row is within
  half a unit of its line (`LineAmount`, `SumNear`).
- `AlwaysReproducible` speaks of the runs that were alone, `state[r].alone`, and
  has no hypothesis: other runs may overlap each other, fail and leave what they
  like behind.
- `OutcomesAlwaysHappened`, `ClaimsAreAlwaysOwed`, `PaidIsAlwaysLeftAlone`,
  `UnderpaymentIsPursued`, `NothingEverFallsThrough` and
  `RenewalsAlwaysReachHuman` speak of all runs and are proved for runs that take
  turns (`~Concurrent`), which is what `main.py` means to enforce and, as
  `jobs_two_pipelines` shows, does not. With overlapping runs they do not hold:
  one run resets the claims of the other.
- All eight follow from `AloneInv`. The properties say what the tables hold at
  the end; the invariant says it at each node. A run that is alone has read what
  its books and files say (`Read`: the feed is what `Loaded` makes of the lines,
  the results are what the engine judges of it, the findings what the detectors
  notice); from `decide` on its plan is what they call for, its outcomes are
  those of the gate (`RoutedAsGated`), and the claims, disputes, escalations and
  calls are those its outcomes name and no others (`Acted`). `Filed` carries that
  to the end of the run. The lemmas before the invariant are about books and
  files only: a policy has one verdict (`OneVerdict`), a policy and a reason one
  item (`OneItem`), a row differs from its line by half a unit (`LineAmount`), so
  that what is judged is what is owed to the nearest unit (`ShortIsOwed`,
  `OwedIsShort`, `PaidIsNeither`).
- `DashboardAlwaysAgrees`, an action property without hypothesis. The queries sum
  and count the rows of `findings` and `commission_claims`, the run its own
  lists. That the sums agree needs that a sum does not depend on the order
  (`SumAnyFirst`), so that summing over rows is summing over the items they were
  made of (`SumOfImages`), and that two items never become one row. The latter
  holds even if overlapping runs left a policy several verdicts, because
  `decide` maps all findings of a policy with one of them (`KeyedInv`). Without
  overlaps the lists are counted by the fates of the items (`ListsFated`). That
  what is shown is a committed run, with the exposures of its summary, is an
  invariant of the committed tables (`Filled`), which the commit of any run
  keeps (`OwnExposure`); that a run nobody overlapped is the one shown needs that
  it was stamped after all others (`Stamped`).

**Jobs** (`JobsProofs`), for any finite set of clients and any number of requests:

- `JobsTyped`, `CompleteMeansRanAlways` and `StartedOnceAlways`, from `JobsInv`: a
  task and its job agree about how far they are (`TaskAgrees`), and requests in
  progress have numbers of their own (`RequestAgrees`).
- `OnePipelineEachAlways`, from `JobsCounted`: the active jobs and the requests
  about to insert one are together never more than the clients. A request goes
  on to insert only when no job was active; each insert moves it from one count
  to the other.
- `OneClientOnePipeline`: with one client this is the `OnePipeline` that two
  clients violate. It is what `~Concurrent` in the theorems about a run that
  nobody overlaps stands for: a server with one client that waits for answers,
  and nobody who runs `run.py` beside it.
- `ServiceIsAlwaysKept`, the refinement `ServiceIsKept`: `JobsInv` and
  `AnswersAgree`, which says that a client about to be answered has not been, that
  the job it will be told of is there, and that a task waits for the answer of
  its own client.

**Feeds** (`FeedsProofs`), for any files and any number of uploads and loads:

- `FeedsTyped`, `UploadedRowsAreAlwaysProcessed`, `NoLineIsEverTwice` and
  `BaselineStaysCovered`, from `FeedsInv`: a row tells where it came from
  (`Origins`); a row that a line of an upload replaces is deleted or its key
  still to be (`Replaced`); what a load takes away from a policy of the baseline
  it puts back (`Restored`) — also when uploads commit between its statements.
- `EngineAlwaysReadsOverlay`, from `QuietInv`: as long as nothing has overlapped
  a load, its pending rows are, step by step, those of the overlay of one reading.

**Accounts** (`AccountsProofs`), for any people, roles and number of overlapping
requests:

- `AccountsTyped`, `LastAdminAlwaysStands`, `FirstIsAlwaysAdmin`,
  `OnlyAdminsAdministerAlways` and `ChangesAreAlwaysAskedFor`, from
  `AccountsInv`: a request that is alone has read rows that still hold
  (`Current`), and one that is not writes only columns it was asked for and, if
  it is to demote or deactivate, another's row; a sign-up that goes on as an
  administrator found no account (`Orderly`). The two theorems about
  administrators use `Orderly` only and hold under every overlap.

The assumptions. `ThresholdsAssumption` and `TolerancesAssumption` order the
thresholds as the code's constants are. `SituationsAssumption` says what a
register and statement files are: finitely many policies and lines, an expected
commission that is a share of a premium and not negative, cells that are numbers
or blank, lines of an insurer numbered, and no policy number that is blank or
reads like a reference that does not parse. The other modules assume that
numbers of clients, workers and calls are numbers and that findings carry
known reasons. TLC evaluates all of them on every run.

Only model-checked: `AcceptedEnds`, which is liveness under fairness and out of
the reach of the provers. Every other property of a run that passes is a
theorem. What a recursive definition
computes is proved where finite sets order the recursion, as for sums; nothing is
claimed of recursion over other data, of which the model has none.

## What is not modelled, and assumed

- The text of files, OCR and PDF tables; dates, statuses and notes of a line. The
  confidences and `validate()` of document extraction: the upload path ignores
  them, and only a demonstration script calls the latter.
- How the expected commission follows from rates, slabs and points.
- The payment status of a feed row, which the engine does not read.
- Severity, except that rounding differences are informational; wording and
  layout of what is displayed; list filters by insurer.
- The mode of the actions in which the caller owns the session: only tests use
  it. Failures of the insurer and billing mocks: they have none. Every run
  resets the action tables, as those of the API and of `run.py` do.
- `source="uploaded"` of the loader, which no caller passes.
- Passwords as values, hashing, the expiry of tokens: a check passes or the
  request ends, and an expired token is a request that does not come.
- `SERIALIZABLE` or other isolation levels: the code sets none.
- Configuration, database sessions, tracing, migrations, the generators of
  synthetic data and the web client: wiring and display without protocol.

## Plan

Done, in this order because money is lost or claimed twice in the first four:
`ActionGate`, `AuditLog`, `Actions`, `Reconciliation`, `Pipeline`, `Jobs`, `Feeds`;
then `Normalizer`, `ReadApi` and `Accounts`; then the proofs, and with them the
abstract specifications `ActionLedger` and `ReconcileService`. Every property that
a passing run checks is a theorem, except `AcceptedEnds`; the
three refinements and the action properties are among them.

Left, in order:

1. An abstract run of the pipeline (books and files in, findings and claims
   out, in one step), implemented by a `Pipeline` whose runs take turns:
   `AloneInv` has what the steps need.
2. `Feeds` composed with `Jobs`: the loads of two pipelines at once.
3. `ReadApi` with readers of several statements between which a run finishes.
