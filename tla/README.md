# Formal models of superpowers-evals

TLA+ models, model-checking configurations and machine-checked proofs for the parts of
superpowers-evals that decide what a measured campaign did, what it may spend and when it
is over. Paths below are relative to the repository's root (`src/campaign/...` is
`src/src/campaign/...` in `PROJECT.json`, whose paths start one directory higher).

`PROJECT.json` maps every definition to the lines it translates, lists the hazards, the runs,
the mutants that show that each property can fail, the theorems and the findings.

## 1. The system

Quorum runs coding agents on scenarios and judges what they did. Two drivers start the runs:

* **run-all** (`src/run-all`, `src/scheduler`): one process, a batch of independent cells, a slot
  pool, an append-only `results.jsonl`.
* **campaigns** (`src/campaign`, `src/appliance`): a registered comparison experiment on a dedicated
  host. Every planned *sample* (an arm on a scenario) belongs to a *primary block* (a pair that must
  run under the same conditions); a failed block is replaced as a whole from the *reserve* of its
  cell. Every worker is a docker container; every step is a transition in a journal; a campaign ends
  with a verified termination, and only then may the host go to the next.

### 1.1 Inventory

| Component | State | Operations | Hard behaviour | What makes it correct |
|---|---|---|---|---|
| Journal fold (`campaign/execution-state.ts`, `contracts/campaign/execution.ts`) | the projection: start, controller, blocks, attempts, outcome | `foldTransition` over 14 transition types | long legal sequences; three transitions may give an attempt its container; optional steps | no container with two owners, whole replacement after death, records final, completion sound |
| Journal writer (`execution-journal.ts`, `journal.ts`) | the SQLite file, the elected writer, its cache and poison; exclusive durable files | elect, commit, replay; publish a durable decision | crash around COMMIT, unknown COMMIT outcome, outage before a directory sync | replay = what was acknowledged, one writer, a decision never changes |
| Directory lease (`campaign/locks.ts`) | a directory, owner tokens, heartbeats | `acquireLease`, heartbeat, release, sever, rollback | several processes renaming one path; crash between mkdir and token | a live holder's lock is not silently lost; acquire returns |
| Attempt container runtime (`container-spawner.ts`) | containers, start requests and their settlement, followers | create, start, stop, inspect, follow | client timeouts with the daemon acting later | a proof of death is true and stays true |
| Controller (`campaign/controller.ts`) | event queue, block being started, writer poison | drain, audit, replace, exhaust, activate, start, abort, finish | faults, operator and death between any two effects | nothing runs unbound; caps; honest completion; ends |
| Cancellation (`campaign/cancellation.ts`) | the cancel intent | publish intent, kill, reconcile, terminate | races a controller that ends by itself | what is terminated runs no more; cancel ends |
| Launch handover (`appliance/campaign-run.ts`, `campaign/ownership.ts`, `child-authority.ts`) | run.lock, live-spend lock, host claim, gated child | admit, launch, release, adopt | four locks passed between processes, crash at each step | one spender; one campaign owns the host |
| Admission (`admission.ts`, `resource-policy.ts`, `key-select.ts`) | loads per pool and key, next starts, latches | candidates in order, feasibility, grant of keys, launch | limits of several resources, aliases of one pool | no limit exceeded, launches spaced |
| Contention sampler (`contention.ts`, `host-stats.ts`) | open breach, sidecar of samples | sample, evaluate, audit an interval | hysteresis, torn lines, silence, a blinded thread | what halts admission is what invalidates; an audit is final |
| Attempt publication (`attempt-publish.ts`) | staged and final artefacts | inspect, stage, rename, verify, observe | crash between steps | what is published is the run's last word |
| Report publication (`report-delivery.ts`, `report-publication.ts`, `seal.ts`) | versioned report files, a receipt of the delivery | derive, publish, complete, retry | crash, outage, publishers that race, evidence that changes | a receipt is never ahead of its files and never changes |
| Report rendering (`report.ts`, `report-evidence.ts`) | none | fold of the journal and the artefacts | what was lost or damaged; excluded and replaced blocks | every planned sample counted once, no verdict on damaged evidence |
| Registration (`registration.ts`, `snapshot.ts`, `instrument-snapshot.ts`, `campaign-document.ts`) and provisioning (`provisioning.ts`) | the campaign directory; worktrees behind a lock | compile, materialize, publish; check a later start; add a worktree | partial failures, two registrars, a dead lock holder | what loads is whole and as compiled; trees are whole |
| Scheduler (`scheduler/index.ts`, `clock.ts`) | cells, slots, per-key counts, next starts, latches, a wake slot | dispatch, start, complete, latch, stop, park | callbacks and clock against a parked loop | exact caps, spacing, one answer per cell, it ends |
| run-all (`run-all/index.ts`, `child-stop.ts`, `batch-index.ts`) | the lease, child pids, the index of the batch | lock, drive, record, stop, footer | signals against spawning and recording | every cell recorded once, a stop misses no child |
| Runner and composer (`cli/run-command.ts`, `runner/`, `composer.ts`) | one run's directory, its child, the stop cause | setup, run, check, capture, compose | a stop or a kill in the middle of anything | a verdict for every end, one story for the parent |
| Capture and normalizers (`capture/`, `normalize/`, `atif/`) | logs that may still grow, the trajectory | select, retry, normalize, merge | repeated, updated and split rows, logs of other sessions | calls, results and spending once each; the own session |
| Checks (`check/`, `checks/`, `scenario-manifest.ts`, `detect/`) | the workspace, the trace, the record of a phase | verbs, negation, the manifest of declared checks | no trace, broken instruments, shell control flow | only what was asked and answered is judged |
| Brainstorming review (`experiments/brainstorming-evidence.ts`) | receipts of what was approved | score a session | approvals that went stale | a pass rests on approvals that still held |
| Appliance jobs (`appliance/jobs.ts`, `process.ts`, `locks.ts`, `preflight.ts`) and containers (`container.ts`, `credential-scope.ts`) | job records patched without a lock, run.lock, one container, credential slots | prepare, run, cancel, status, reconcile | two writers of one record, a command that outlives its worker, a swap half done | own credentials, own command; done only when it was |
| Agents, setup helpers, classifier, sensors, estimates, prune, import, CLI rendering, dashboard | none that outlives a call, or fixed lists of writes | – | – | – |

### 1.2 How they interact

The launcher takes run.lock and the live-spend lease, starts a gated child, registers the start and
binds the child's identity in the journal, hands the locks over and opens the gate. The controller
then owns the journal's lease. It is one thread: docker followers and signals only queue facts, and
every docker command and every commit is an effect that the operator, the daemon, a worker or the
controller's own death can come before or after. The journal's fold guards every commit; a refused
or failed commit poisons the writer, and the controller takes the abort path. The operator's
`cancel` writes an intent, waits for or kills the controller, and from another process settles each
worker that the journal leaves running. All of them agree only through the journal, the lease
directories, and docker.


## 2. Modules

| Module | What it is |
|---|---|
| `WorkerLedger` | abstract: what the journal promises about workers and containers |
| `ExecutionState` | the fold, one action per transition type; implements `WorkerLedger` |
| `JournalWriter` | the writers of the journal's database: election, replay, commit, death |
| `DurableMarker` | one durable record of a decision, under racing publishers and outages |
| `ContainerRuntime` | the runtime's methods and the docker daemon, as actions without a scheduler |
| `Controller` | EXTENDS the fold and the runtime: the session of one controller, the operator, the canceller, crashes |
| `HostOwnership` | abstract: who may work on the host and when the host passes on |
| `CampaignLifecycle` | launchers, gated children, cancellers and other mutations over all the locks; implements `HostOwnership` |
| `DirLease`, `DestLock` | the two directory locks, one system call per action |
| `Admission`, `Contention` | what is launched next and with which keys; what halts and what invalidates |
| `Verdict`, `AttemptRun`, `AttemptPublication` | a run's verdict; the run; the run inside its campaign, until the journal says what it was |
| `AttemptEvidence`, `ComparisonReport`, `ReportPublication` | what a report believes, what it says, how it is delivered |
| `Registration`, `Compilation` | the directory of a campaign; what is compiled into it and what a later start holds it against |
| `Scheduler`, `RunAll` | the dispatcher; the batch around it, with children and signals |
| `ScopedContainer`, `ApplianceJob` | the appliance's container and credential slots; the jobs that take it in turn |
| `Normalizers`, `Transcript`, `Capture` | the normalizers as operators; what an agent writes and they read; which logs are taken and when |
| `TraceChecks`, `WorkChecks`, `Checks` | the verbs on calls, the verbs on files, the record of a phase against its manifest |
| `BrainstormingReview` | the score of a brainstorming session |
| `MC*` | values for the constants, symmetry, constraints |
| `*Proofs` | the theorems |

Each module begins with what it models and what it leaves out; here is how the larger ones
correspond to the code. `MCParts`, `MCAround`, `MCLocks` and `MCRunAll` put several parts side by
side: a behaviour is one part's, chosen at the start, so a run explores each part completely and
none of their products. The component whose properties have theorems is EXTENDed, so that the
run checks the very definition that the theorem is about; the others are instances on the
variables `v1` and on.

### 2.1 ExecutionState

A behaviour is one accepted journal. Each variable is a field of `CampaignProjection`
(`execution-state.ts` 23-53), the attempt and block maps being functions to `None` where the code
has no entry. Each action is one `case` of `applyValidatedTransition`; the checks that throw are its
guard, named `Can...` for those that a session commits, so that `Controller` can say when one is refused. A refused transition and a transition folded twice leave the projection alone, which is
stuttering. Abstracted: identity digests and artefact lists (kept to what the guards compare), the
wording of errors. `Admissible` and `Stamp` stand for the checks common to every transition (start
of the session, the outcome, a clock that does not go back).

### 2.2 JournalWriter and DurableMarker

A writer elects itself (lease, generation, BEGIN IMMEDIATE, replay, COMMIT) and appends; each of
these is a step, and between any two it can stop, die, or lose its lease to another and wake up again.
`COMMIT` has three outcomes: done, failed, done and reported as failed. The fold is reduced to the
two rules that depend on the order (nothing before the registration, nothing twice), so a cached
projection that misses a row shows. `DurableMarker` has a name in a directory and what of it is on
disk; a power loss takes any subset of what was not synced.

### 2.3 ContainerRuntime, Controller

`ContainerRuntime` has the daemon's containers (`box`), the requests whose client gave up and that
the daemon may still perform (`late`), and what the runtime remembers of its start requests and
followers. `Controller` says who calls what. An action of `Controller` is one effect with the guard
that comes just before it; its `pc` names the part of `runCampaignDispatch` it belongs to (drain,
audit, select, create, bind, start, receipt, abort, finish). `Commit` is `commit()`: folded, or
failed (a fault), or refused by the fold, the last two poisoning the writer and going to the
catch. What the code keeps in local variables of the block being started (which attempt is
next) is read off the journal and the runtime; no thread but the controller's can change it.

`Crash` is the controller's death at any point, at the price of a fault or for nothing once the
operator has cancelled (the canceller kills). `Reconcile` and `CancelEnds` are
`cancelCampaign` after the controller is proved dead.

Left to chance here and modelled elsewhere: whether an audit validates, invalidates or waits
(`Contention`), whether there is room to activate (`Admission`). Left out: instants (one is stamped).

### 2.4 CampaignLifecycle and HostOwnership

Every process (launcher, child, canceller, mutator such as `run-all` or `import`) has a `pc` through
`launchCampaign`, the child's `run`, `cancelCampaign` and the appliance's mutations; every lock
operation, durable write, kill and reading of another's state is a step, with a death possible between any
two. A lease is taken in one step here; that it can be is what `DirLease` shows. run.lock is no lease:
`acquireLock` makes the directory (`TakeRun`, the lock is `Blank`) and writes the record in it by path
(`RecordRun`, which takes that write and the look at the directory after it as one step), and a
canceller may rename it away between the two. A campaign has one worker, which goes
through its binding, the request to docker, the daemon's start whenever it comes, the receipt, its end and the proof
of its death (`Workings`); the creation and the binding are one step, since a container without a binding is
known never to have been asked to start. A cancel settles a worker whose start is on record and one that
was never bound; of any other it cannot say whether docker is still to start it (`Unsettleable`), however often it is
repeated. `HostOwnership` knows only whom the host is claimed for, which campaigns have started and
are closed, and what is running.

### 2.5 DirLease and DestLock

The state is the file system (which directory is at the path, the owner tokens in each directory,
tokens created but not yet written, directories under private or parked names) and each process's
place in `acquireLease`, `severAndRemove`, `makeHandle`, and for `DestLock` in `withDestLock`.
mkdir, open, token creation, write, confirmation, observation, rename and what follows it are separate
steps; every process may die between any two. Directory identities are reused when nothing refers to
them, as inodes are. Clocks are left out in the safe direction: a dead owner may be found stale at
any time, an empty directory that was seen twice may have been empty for the whole grace.

### 2.6 Admission and Contention

`Admission` compiles the pools of a registry and follows the dispatch loop: the candidates in order,
the feasibility of each attempt against its pools, the choice of keys, the cooldown and the latches;
a sibling that starts late leaves its place for the clock to overrun. `Contention` has the sampler
and the controller on one thread: samples, sidecar lines that may be torn, the open window, the
breach that halts admission, the evaluator that audits an interval from the file.

### 2.7 AttemptRun, AttemptPublication, AttemptEvidence, ComparisonReport, ReportPublication

`AttemptRun` is `executeRunCommand` over `runScenario` for both modes, phase by phase: secret, lock,
setup, child, checks, capture, cascade, verdict, exit. A signal waits until the event loop turns, and the
last look for one (`LastLook`) comes before the post-checks. What a phase comes to is left to chance among the outcomes `Verdict` tells apart. `AttemptPublication` adds
the host's side: prove the death, stage, rename, verify, observe. `AttemptEvidence` reads the artefacts
back, any of which may be lost, damaged or malformed. `ComparisonReport` EXTENDS the fold: every
journal, with every evidence. `ReportPublication` delivers file by file with racing publishers and power loss.

### 2.8 Registration and Compilation

`Registration` has the campaign directory item by item (contents, input, journal, document, their
place on disk), several registrars with one id, their deaths and outages, and readers. `Compilation` is the
pure part over records of declarations: which suites are refused, the cells, slots, reserves and pools of
those that are not, the check that is run beforehand, and the comparison a later start makes.

### 2.9 Scheduler and RunAll

One action per part of a pass (`PassBegins`, one `Scan` per cell, `ScanEnds`, `BatchDone` or `Park`,
`Resume`) and one for each thing that reaches a parked dispatcher (`OnComplete`, `RequestStop`).
JavaScript runs a pass without interruption, so the last two happen only while it is parked; time
does not wait, so `Tick` happens anywhere. Instants are kept relative to now: they are only
compared with now and one another, so nothing is lost and nothing has to be bounded. Left out: the
hooks `shouldAbort` and `onSpawn` that run-all does not supply. `RunAll` EXTENDS it with the live-spend
lease, the header, the skips recorded before the first pass, children with their pids, two kinds of stop,
the index and the footer.

### 2.10 ScopedContainer and ApplianceJob

A worker and a canceller per job, each a process of the host. `updateJob` is two steps (read, then
rename a whole record into place) because nothing locks it. The live command belongs to the
container: killing the worker or the docker client does not end it, removing the container does (`Killed`).

What a command leaves is a verdict or a batch, and a batch's cells leave verdicts too. The worker knows its own by name when
docker's client passed the name on (`Prints`, `Streams`, `ReadsAll`); otherwise `currentArtifacts` takes the newest
one of the kind that is not older than five seconds before the start (`Candidates`, `NewestLeft`, `Found`), and puts
it on record. Two jobs of one scenario and agent can therefore take each other's, and `StatusIsWitnessed` says so: a job is done or
cancelled on something that a command of its kind really left. Commands run one after another under run.lock, and so what is
newest goes by the container they ran in (`turn`, `tooOld`); `Exec` chooses how much of what is there is within the five seconds.

### 2.11 Capture, normalizers and checks

`Normalizers` has one operator per agent family, from the rows of a log to the steps of a trajectory;
`Transcript` lets a log of each dialect grow row by row, with what such an agent repeats, updates and
splits, and compares what is normalized with what was done. `Capture` chooses among the logs and tries
again. `TraceChecks` and `WorkChecks` define each verb as the code computes it and compare it with
what its documentation asks; where the two differ by design or by accident of `**`, `Odd` says how; `Checks` runs a script of declared lines and compares the record with the
committed manifest. `BrainstormingReview` generates sessions that follow the skill and go astray.

## 3. Runs

| Run | Instance | Shows |
|---|---|---|
| `exec_pair` | one pair of two arms, one reserve, one container | `BlocksAreSound` (a block is replaced whole, after the death of its members), `RecordsAreFinal`, `ImplementsLedger`; and in every state its report, `ReportIsHonest` |
| `exec_rivals` | two pairs of one arm, one reserve between them | `OneOwner`, `EndsAreSound` (exhaustion and completion) |
| `session_pair` | one pair, one reserve, one fault, cancel and death anywhere | `WorkersAreKnown` (a running worker is bound, a proved death is real, nothing outlives the termination), `HonestCompletion`, `RefusedOnlyUnproved` |
| `session_live` | two pairs, room for one, two faults, with fairness | `HostIsShared`, `SessionsEnd` |
| `session_reserve` | as `session_pair` | finding 2 |
| `lifecycle` | two campaigns, three launches, two cancellers, a mutator; the casts of `MCCasts` | `SpendingIsAlone`, `ImplementsOwnership`, `CancelEnds` |
| `lease_live` | a dead holder and two that come for its lock, under fairness; the two locks and the admission side by side | `HeldIsKept`, `WorktreesAreSafe`, `AdmissionIsExact`, `LocksSettle` |
| `lease_live_holder` | as `lease_live` | finding 1 |
| `batch` | four cells on two slots, a capped and a spaced key, an entry that cannot run; six kinds of command | `CountsAreRight`, `WaitsAreRight`, `SpacedStarts`, `BatchIsKept`, `AttemptIsTrue`, `StopsAreAnswered`, `RunsEnd` |
| `scheduler_done` | as `batch` | finding 3 |
| `parts` | marker, audit, delivery, jobs, journal, evidence side by side | `DecisionIsKept`, `ReportsAreKept`, `JobsAreKept`, `EvidenceIsHonest`, `JournalIsTrue`, `ContentionIsSound` |
| `around` | compilation, registration, the fold's clock, logs, capture, the three kinds of checks, review side by side | `PlanIsExact`, `RegistrationIsWhole`, `TimesOrdered`, `TranscriptsAreTrue`, `SessionIsOwn`, `TraceChecksAreTrue`, `WorkChecksAreTrue`, `JudgedIsChecked`, `PassIsApproved` |

Every property of a passing run has a mutant in `PROJECT.json`: a plausible slip in one mapped
definition under which TLC finds the property violated by the same configuration.

### 3.1 Bounds, and why they are enough

* **Fold.** A block has to have two arms for replacement to be whole or not; a pair needs a reserve
  and a second attempt for generations; two pairs are needed to compete for a reserve. The pair and
  the rivals are separate because together they are out of reach. In `exec_pair` the accounts stay
  open (`NoAccounts`) and in `exec_rivals` at most one is closed (`OneAccount`): an accounting is the
  last record of an attempt and disturbs no other. One container in `exec_pair` is enough for a worker that has
  one beside one that was never created; two meet in `exec_rivals`. The theorems have no such bound. Three
  instants order any two optional steps and the stop. Causes, observations and proofs are one
  representative of each class the guards tell apart. `PairFound` has four findings beside the journal: attempts that differ by
  generation in outcome and measure, a receipt of the primary that cannot be read, either arm without a
  publication. Any finding is for the theorem.
* **Session.** One fault at any point with one pair of two arms and a reserve (`session_pair`), two
  faults where two pairs want the room of one (`session_live`, `RunCap` 1). Cancel and the kill that
  follows it are not faults, so a fault, a cancel and a death meet in one behaviour. The theorems have
  neither bound.
* **Lifecycle.** `MCCasts` lists who takes part beside the children: two launchers and a canceller, of one
  campaign or of two; a launcher and two cancellers; a launcher, a canceller and another mutation. With one death at
  any step where that is within reach, and the kills of a cancel besides: a controller that goes between the binding
  and the receipt, and a launcher killed between mkdir and lock.json, are met, and without `Uncertain`, or
  without the first half of `Orphaned`, `CancelEnds` is violated. The theorems have no such bound.
* **Locks.** Two contenders behind a dead holder race through `severAndRemove`; three inodes let a
  displaced, a private and a new directory exist at once and identities be reused. That any number of
  contenders is safe is `HeldIsKeptAlways`, not the run.
* **Journal.** Two writers, three generations (`MaxGeneration`): a writer can be fenced, come back and
  be fenced again. Two transitions, one of which must come first.
* **Batch.** Two cells of each key on two slots: the pool, the cap and the spacing each bind alone, and
  a cell can wait while another of its key runs. Two units of spacing tell "not yet" from "now".
* **Attempt.** `Cmds` covers both modes, campaign or not, with and without a trace, and one family of each
  kind of capture cascade; `Captured` the classes the cascade tells apart.
* **Admission, contention.** Two arms with shared and separate keys, a grader in their pool or not, three
  blocks; windows short enough to open, close and open again before `LastInstant`.
* **Delivery, marker.** Two publishers of one body and one of another, two outages; a report before
  the termination and one after it, one fault.
* **Jobs.** Two jobs, of one kind or of two, one of them cancelled or neither (`Requests`); four containers in a
  lifetime (`MaxBoxes`), two for each; one mishap, but where two runs meet a cancel and where a batch beside a
  preparation is cancelled, which have none. That is enough for a worker whose client is lost to settle on what the
  other job left.
* **Evidence.** What each artifact says in twenty variants with any one artifact absent, damaged or malformed, and any two of
  them with two variants: an obligation draws on its own sources and on one fallback of each. The theorem has no such bound.
* **Logs, capture, checks, review.** Logs of up to four rows in each of 22 dialects; two logs and two tries; traces of
  three calls; trees of three entries, three names deep, and two commits; phases of two lines, and one of three; sessions
  with two rows astray. Each is enough for the pairs of rows, calls or lines between which the code decides. The
  theorems about capture, trace, workspace, review and a scenario's checks have no such bound, nor has the one about the suites
  of `Declared`; the dialects are only checked.

`CHECK_DEADLOCK FALSE` everywhere: a terminated campaign, a finished batch, a published directory and a lease
nobody wants any more are where these systems stop.

### 3.2 Fairness, and what in the code justifies it

* *Session*: weak fairness of the controller's step (one thread that is never waiting on itself:
  every sleep has a cadence, `controller.ts` 796-809); strong fairness of audit and activation
  (telemetry arrives, breaches and spacing end, but only now and then); workers end (their entry
  point is `timeout`), docker wait reports an exit, the operator repeats an unfinished cancel.
  Faults and the operator are not fair.
* *Lifecycle*: weak fairness of every running process, containers end, the operator repeats a cancel (nothing obliges docker to start
  what it was asked to),
  with strong fairness of the steps that wait for a lease (others let it go, but only now and then).
* *Locks*: a process that is alive goes on with its call, the heartbeat's timer fires, and directories
  age. The worktree's owner pins and verifies with strong fairness: it retries on a cadence, and the path is
  free or its own again and again. Release and death are not fair: a holder may hold for ever.
* *Batch and attempt*: thread and clock run on, and every child ends (the runner enforces its own
  deadlines). A stop is not fair.

## 4. Proofs

The theorems hold for every inventory, set of causes, clock, number of cells, writers, registrars,
processes and so on that the named assumptions of the modules admit. TLC evaluates those
assumptions in every run that extends the module.

**ExecutionStateProofs.** `TypeCorrect` is inductive as it stands. The others need more than
they say, and the file builds the strengthening from named parts: a container recorded for an
attempt is unowned by all others (`ContainersHaveOneOwner`); the attempts of a block
carry one ordinal, and a primary's blocks have increasing ones, so a reserve enters once
(`WholeBlocks`); exclusion and death of a block's members are stable, so what was required when a
block was replaced or exhausted still holds (`SupersededBlocksAreOver`, `ExhaustionHolds`,
`CompletedCampaignsAreSound`); from these, `BlocksSound` and `EndsSound`. `RecordsKept` is the
action property, from the type invariant. `InstantsOrdered` needs that every instant of the projection is at or
before `lastAt` (`LinesInv`), because a step that skips an optional one stamps against what is there.
`LedgerImplemented`: the initial state maps to the ledger's, every accepted transition to `Prepare`,
`Bind`, `Run`, `Die` or a stutter. `Die` is why one owner is needed: a worker found dead may turn
out to have had a container, which nobody else may have.

**ExecutionStateProofs**, the report. `ReportIsHonestAlways`, of every journal with any finding that has the types
of `ReportAssumption`. While a campaign goes on, a row reads of an observation only whether it is
there (`ContraryThere`), and of a finding neither outcome nor criterion (`HiddenWhileActive`). The comparisons read a finding only at
measured attempts (`TrimmedCompares`), so that `ComparisonsAreOfSelected` says of the whole table what the run
checks of its two reads. That each sample is counted once needs the plan's invariant: a
selected block is activated and has one attempt of each slot (`MeasuredOnce`); then the four results of an arm are parts
of its samples (`ArmIsWhole`). That a pair of a complete report was not given up needs `ExhaustionIsFinal`: the block
of an exhausted primary is excluded, and an excluded one has no usable attempt (`CompleteIsWhole`).

**AdmissionProofs**, the registration. `RegistrationIsWholeAlways`, an action property over steps and a fact about states: what a reader loads
is whole, was built by one registrar, and never changes. `RegInv`: a registrar that works holds the
lease (`HolderWorks`), a directory without a document has nothing a reader could load (`FreshIsEmpty`),
what is built item by item is the holder's (`Built`), a document is there only over a whole directory
(`PublishedIsWhole`), and who was told has finished (`ToldIsOver`).

**AdmissionProofs**, the pools and keys. `AdmissionIsExactAlways`, for any registry, blocks and caps that
`AdmissionAssumption` allows: finitely many credentials, the keys of each distinct and at least one in a pool of
keys, each attempt in one block. The comment in `key-select.ts` says why a key is always
found under honest admission; the proof has to show that admission is honest. Aliases of a pool have the same
keys and allowance, or the registry was refused (`Agree`). While the
block that was activated takes its places one after the other, the pool still has room at each turn, because the
demand of the whole block was checked; and a pool with room has a key with room (`Crowded`: were every key at
`ceil(cap / keys)`, the pool would be full). The spacing follows from `nextStart`, which no launch lowers.

**AdmissionProofs**, the telemetry. `ContentionIsSoundAlways`, for any `SustainK`, `CoverageN`, patience, block size and
horizon. The sampler's counters are the auditor's, sample by sample (`Tracked`), and these tell what a sustained breach
is: while no window is open, the last `crossing` samples are over and the one before is not; while one is, the last
`inside` are in bounds and the one before is not (`Agrees`). For the audit, a lemma says what it depends on once a sample
lies after the interval (`VerdictPast`: not the clock, the damage or the newest line), and a later line, whose instant is
later than all others, changes none of that (`PastStays`). Scan and samples are folds; what a fold does with one more
element is proved by induction over its length (`FoldsAgree`).

**LockProofs**, the lease. `HeldIsKeptAlways`: a live holder's directory still has its token and is at the path, on its way
back or parked, provided that mkdir, open and the token's creation met one directory (`crossed`; TLC shows that the
proviso is needed).
`LeaseInv` places every directory (at the path, under a private name, parked) and every token: a
directory has nobody's token but its maker's, a directory that somebody has open is not reused, an unlinked
one is empty, and a token is wiped by its own process or after its death. Every wipe follows a renaming
and an identity check; the invariant says what the identity says.

**LockProofs**, the lock of a worktree. `WorktreesAreSafeAlways`: a reclaim removes what is stale and a release what is its
own, and, from `TreeInv`, what the caller in the section knows of the destination (nothing there before `git worktree add`, a part of it
from then on), so that no cleanup meets a tree that was promised. The proviso that callers take turns is needed (5.1).

**LockProofs**, the jobs. `JobsAreKeptAlways`, for any number of jobs, cancel commands and deaths. While a worker has run.lock
(`LockInv`) nobody else touches the container or the slots, so that what it stages, activates and mounts is
what it decided to (`MaterialInv`, `BoxInv`); a worker that dies keeps run.lock until it is removed by hand. After that a command is
known by its container's id alone: the ids that a job, its record, its half-written patches and its command know are nobody else's
(`IdsInv`), and so no signal goes astray. A status is backed by an artifact that the job may take and that was
seen before it was patched, whichever patch lands last (`StatusInv`): every step does to the records one of four things
(`RecordStep`), nothing that was left goes away, and what is too old for a job is settled when its command is started,
before which neither it nor anybody for it has looked (`EarlyInv`).

**CampaignLifecycleProofs.** `SpendingIsAloneAlways` and `OwnershipImplemented`, from one invariant (`LifeInv`) with
a part for each kind of process: what each `pc` entitles it to hold and to believe
(`LauncherInv`, `ControllerInv`, `CancellerInv`, `MutatorInv`), who has which lease
(`HolderHasLease`) and what the durable records of a campaign say together (`CampaignInv`). The exclusion rests
on the live-spend lease alone, and run.lock is not needed for it. The refinement needs the order of the canceller's readings:
it looks at the outcome after the controller's death was proved, so what it saw cannot change any more. And a start docker was
asked for keeps its campaign open and the claim in place until it is settled, which is why docker may perform it at any time.

**ControllerProofs.** `SessionImplementsReplay`: every step of a session leaves the journal's projection alone or is
a step of `ExecutionState`, so the theorems of the fold hold of every session (`JournalInv` collects
those that are used). `WorkersAreKnownAlways` needs what the runtime and the daemon may be doing
for each `pc` (`RuntimeInv`: `WorkerInv` for each attempt): a request whose client gave up, a follower
that was severed, a container that was created and is in no record yet. `HostIsSharedAlways` counts the attempts whose
death is not in the journal (`CapInv`); `HonestCompletionAlways` follows each way into the last commits (`FinalInv`).
`RefusedOnlyUnprovedAlways` takes every commit site and shows that the guard before it, which looks at the runtime or at a few
entries, leaves the fold nothing to refuse (one `...Accepted` lemma a site). What it needs beyond the fold's own theorems
is in `SessionInv`: a container has its worker's name (`NamedInv`), a selected block is its pair's newest, so that
the next ordinals are free (`NewestInv`), in the loop nobody dies unobserved and nothing is over (`OpenInv`), and in the final audit every
pair has an answer (`AnsweredInv`).
`ControllerAssumption` says that the daemon's names are the attempts', as the code derives them, and that the
controller commits valid observations only (`controller.ts` 589).

**PublicationProofs**, decisions and deliveries. Both arguments rest on one order: bytes before the name, the name before the directory's sync,
the sync before anybody is told. `DecisionIsKeptAlways` (`MarkerInv`): what is durable is what is in sight or nothing, a file is linked only
after it was synced, and whoever syncs found the file equal to its own. `ReportsAreKeptAlways` (`ReportInv`): what is durable is in sight
(`FilesInv`); the receipt of a directory is in sight only when everything it is for is durable
(`CrownInv`); and a delivery has behind it only what is durable, and syncs only what is its own (`DeliveryInv`). A directory's name is
the report's digest, so the files of one directory are of one report (`DirectoryIsOne`).

**PublicationProofs**, the attempt. `AttemptIsTrueAlways` and `StopsAreAnsweredAlways` take the run phase by phase: what the phases behind have found (`FactsInv`), which verdict is on its
way and that a judgement was earned before any stop (`VerdictInv`, `Sound`), what is on disk (`DiskInv`) and what was answered
(`ExitInv`); outside, what is published is what a dead run left behind its manifest (`HostInv`, `DeadIsDone`).
`AttemptAssumption` is the shape of commands and captures.
`EvidenceIsHonestAlways`, of whatever was published and lost: what was read of a publication and what was measured of that are functions of it
(`EvidenceInv`), so the rest is about operators. What an obligation needs in order to be settled is what it cites (`ClassesAreBacked`,
`ChecksAreCited`), and an artifact that no other stands in for takes with it checks and rows or leaves them as they are
(`HurtIsLess`). `EvidenceAssumption` says that an artifact is in one of four conditions and that nothing said is not something said.

**PublicationProofs**, the journal. `JournalIsTrueAlways`: what was acknowledged is in the journal at the sequence it was
given, a writer whose generation is current has cached what the journal says, and a writer that was deposed
writes no more. `WriterInv` says that whoever replays, folds or
inserts holds the database's write transaction, that generations are their writers' own, and that the
cache of a writer whose generation is current is what the journal says; a stale cache can be anything, and
only the generation check between BEGIN and INSERT keeps it from doing harm. `AckedInv` carries the acknowledgement
through a COMMIT that took effect and reported an error.

**AroundProofs**, what is compiled. `PlanIsExactAlways`, for any declared inputs with the types that the documents' schemas
let through (`CompilationAssumption`: counts and times are natural numbers, lists are finite, an arm's agent was loaded). The
compiled plan is a function of its input (`CompInv`), so what is to be shown is about operators. That the compiler agrees with the
schema is counting: unless a name is declared twice a place is known by its comparison and scenario (`PlacesAreDistinct`), so
cells, slots and reserves have ids of their own (`CellsAreDistinct`), and a bijection from arms or samples gives
the numbers that the schema counts (`BlocksOfPlan`, `CountsOfPlan`, `InventoryOfPlan`, together `PlanPasses`). A plan can be run because
`assertFeasible` went by the pools and the cap that are frozen (`CompiledFits`). And two registries with one authority over the same
names have one policy and one allowance of each key (`AuthorityDecides`): every alias of an active pool is in the authority,
which is what the mutant leaves out.

**AroundProofs**, what is captured. `SessionIsOwnAlways`, for any number of logs with a place each (`CaptureAssumption`), any
snapshot and any number of tries, while the agents go on writing. Steps are sorted by how many are earlier; the order is strict
and total (`EarlierIsStrict`), so no two have as many and there is one for each place. The rest (`CaptureInv`) is that
a trajectory, its rows and its availability are of one reading of the logs, whatever is written afterwards; that no try comes
after the usage was told; and that the judgement goes by what the last try recorded.

**AroundProofs**, what a verdict goes by. `PassIsApprovedAlways`, for any number of rows that are not the skill's; the
lemma that it rests on, `PassOfAnyLog`, says it of every log of messages and calls, generated or not. The score is a fold over the rows and over the
events of a row. Induction over data is out of the provers' reach as a rule with an operator, but not with a set: what holds of 0 and is
handed on holds up to `n`, or there would be a least number of which it does not (`FirstOfNat`, `UpTo`). By it the fold is
unrolled row by row (`AgreedOneByOne`, `HeardOneByOne`), and what it believes before a row is shown to be in the log
(`Borne`, `AgreedIsBorne`): an understanding that is held was the last that was said, a design that is held was approved under it,
an artifact that is held was approved after its last writing. A message speaks of each thing once (`Duplicated`), and only the
user approves; both are needed, and `EvidenceErrors` gives them.
`TraceChecksAreTrueAlways`, for any calls and any checks: each verb is computed from the first positions of some calls, and
`FirstsCompare` says what it means that one of them is before another: each of those has one of these before it.

**AroundProofs**, a scenario's checks. `JudgedIsCheckedAlways`, for any scripts of any length and manifests extracted from any of
them (`ChecksAssumption`: a script is two sequences of lines, and a line says something). Two things are shown of the comparison.
What it does not call drifted is answered one for one: an entry takes the first of the records it meets (`FirstsAre`: of a finite set
the first `c` are `c`), no record is taken twice because the entries without arguments are served from what the others left
(`TakenOnce`), so with nothing missing and nothing over who took what is the assignment (`UndriftedAnswers`). And records of a script's own
lines, one each, are never called drifted whatever a variable expanded to, though a line without one may lose its own record
to another: among records that differ in their arguments alone, as many are taken by the entries with arguments as there are lines
with them, so what is left is as many as the lines without (`AlikeLeft`, by gluing one bijection for each entry, `Glued`;
`WholeIsUndrifted`). For the run, `ChecksInv` says that as long as a phase of plain checks has no code but 0 the records are those of the lines behind, in their order.

**AroundProofs**, the workspace. `WorkChecksAreTrueAlways`, for any names, patterns, declared files and endings, and trees and
histories of any size (`WorkAssumption`: paths and patterns are lists of names, a pattern has at most one `**`, as `globMatch` says it supports,
and a status is a number). What is kept (`WorkInv`) is that every path lies in directories that are there, which undoing a commit
must restore (`GoBackKept`), and that a commit holds paths and kinds; the rest are facts about one state. Of a glob, both directions: what is
found fits the pattern (`FoundFits`), because names behind `**` that are no `*` end one name after the other (`CutsAreEven`, an
induction from the end), and what fits is found below the literal prefix (`FittingIsFound`), because the prefix is a directory above
it. Each disjunct of `Odd` is a hypothesis without which one of the two fails; some of them (§5.1) were met in the proof and not by TLC on the
patterns it had, which were then extended by those.

**RunAllProofs**, the dispatcher. `CapacityKept` counts: a start adds one cell to the running ones of its key, an
end takes one away, a latch and a skip touch only queued cells. `StartsAreSpaced` needs that a start
charges its key at least what is left of its spacing (`Rested`: age and rest together reach the
spacing). `SkipsAreEager` needs that a stop is seen before the dispatcher sleeps (`StopSeen`).
`SlotsAreUsed` needs what the scan so far has passed over (`PassedOver`: a cell it left has no
room, or its key is spaced), which no other action can undo before the dispatcher parks.
`EachAnsweredOnce` takes every step, cell by cell, as queued to started, started to answered, queued to
skipped or nothing (`CellSteps`). `CountsRight` and `WaitsRight` join them to the properties of the run.

**RunAllProofs**, the batch. `BatchImplementsScheduler`: every step of a batch is a step of the dispatcher or leaves
it alone, so the theorems above hold in every batch. `BatchIsKeptAlways`: a footer accounts for every entry with the one record that tells how it
ended, a stop that was heard leaves no child it did not reach, and the lease covers the children. `BatchInv` relates the
phase of the batch, the state of each cell, its child and its record.

Only model-checked, and why:

* *liveness under fairness* (`SessionsEnd`, `CancelEnds`, `LocksSettle`, `RunsEnd`), which the prover
  does not have;
* *what a normalizer computes for every log* (`TranscriptsAreTrue`). The normalizers are recursive over rows. The
  induction can be had as for the review, one least counterexample for each recursion, and it would take a
  restatement of each dialect.

## 5. Findings

1. **A live lease holder can be displaced** (`locks.ts` 382; run `lease_live_holder`). The header says
   that displacing a live holder is unreachable without corruption. Two processes that judged the same
   dead lock reach it: the first severs it and acquires, the second renames the fresh directory away,
   sees that it is not the one it judged, and puts it back or parks it. The recovery is right
   (`HeldIsKept`, `LocksSettle`); the statement is not.
2. **A refusal is taken for a failure of storage** (`controller.ts` 347; run `session_reserve`). When the
   operator cancels and a worker's death cannot be proved, the abort path commits `ended: cancelled`,
   which the fold refuses. The catch cannot tell a refusal from a failed write: it releases the
   emergency reserve and reports a storage interruption. `RefusedOnlyUnproved`, which is also
   proved, says that it is the only way the controller comes to commit what the fold refuses.
3. **A batch can end with cells never answered** (`scheduler/index.ts` 199; run `scheduler_done`). The
   loop reads the clock for eligibility and again for the wake-up time. If nothing is in flight and the
   spacing of the queued cells' key ends between the two readings, no wake-up time is found, the "unreachable"
   hang guard fires and `batch_done` is emitted with the cells still queued: no terminal event, no record.
   `EndIsQuiet` says that only such cells can be left. The test clock stands still within a pass.

### 5.1 Observations without a run of their own

Met while modelling; the models behave as described.

* *Sessions.* A block can be activated while a breach is open (`controller.ts` 1116: the halt is read before
  an await). A child stopped gracefully is recorded without its run id.
* *Jobs.* The worker's last `updateJob` can write `done` over `cancelled`, and `cancel_failed` can put `running` over a
  terminal status. An artefact that was not read from stdout is found by scenario, agent and time (`process.ts` 314-441): a job whose worker or
  client died can be settled on the verdict or the batch of another like it, and only that much is proved.
* *Cancel.* A controller that goes between the binding of a container and the receipt of its start leaves every later cancel
  unresolved: the start is `uncertain` for good (`cancellation.ts` 440-442, 469-488, 547-550), which is meant
  (`docs/superpowers/plans/2026-09-04-core-comparison.md` 203, 560). So does whoever goes between mkdir and
  lock.json, a launcher that the cancel itself kills included: `reclaimStoppedRunLock` refuses a lock without a record
  (`locks.ts` 113-143, 226-234), until somebody removes it by hand. `CancelEnds` names both.
* *Stops.* A signal that arrives while the post-checks block the loop, after the last phase boundary (`runner/index.ts` 2485),
  is not looked at again: the run passes or fails and exits 0 or 1 (`run-command.ts` 353-365).
* *Locks.* `withDestLock` does not guarantee one worker at a time: two can add the tree when the owner is reclaimed
  while it still works, and git decides; an `openSync` that meets the reclaiming throws ENOENT
  (`provisioning.ts` 291-293).
* *Arms.* `quorum check` reads `arms/*.yml` too and registration only `*.yaml`: a suite that names an arm of a `.yml` file
  passes the check and is refused (`CheckedIsNotRefused` says that nothing else of its arms is).
* *Registration.* The last fsync can fail and refuse a registration whose `campaign.json` loads.
* *Evidence.* A malformed `checks.json` is cited although the verdict's own checks were used; when verdict and
  conversation are lost, an accepted assessment's stream and captures are cited unread.
* *Normalizers.* ACP may tell one call again in a later step; goose and hermes give a result to the agent's previous step;
  openclaw drops results that do not follow at once and takes a session of fewer than two steps for an
  envelope; messages that Gemini rewound are not charged; Codex charges nothing without a row that names the model;
  MiMo loses a turn without a finish.
* *Capture.* A Codex run without a usable log is blamed on the directory if any new rollout is elsewhere;
  `captureTokenUsage` reads the logs again and can charge more than was captured.
* *Checks.* A git that fails says nothing, so git-clean, detached and counts of 0 pass outside a repository; `**`
  matches dangling links, `**/x/y` misses a top-level `x/y`, `a/b/**/b/c` is met by `a/b/c`, a `*` among several names behind `**` goes across slashes,
  a glob before `**` is literal; an unset
  `QUORUM_AGENT_CONFIG_DIR` is a failure and not broken, so its negation passes; without a manifest a guarded
  broken check counts as failed; the codex bootstrap check refuses a manifest with the hooks that provisioning keeps.

## 6. Plan

What is left to prove is `TranscriptsAreTrue`, dialect by dialect.

A theorem is about the definition that its run checks, so the module of that run has to EXTEND the component
instead of instantiating it.

## 7. Not modelled

Agents are installed and configured by fixed lists of writes; setup helpers make a workspace; sensors and the
classifier are pure predicates over a trajectory; prune and import are copies and removals under locks
that are modelled; estimates, the attempts' projection and the dashboard show what others hold; the
bootstrap checks and the acquisition of gauntlet are sequences of commands that may fail.
`PROJECT.json` gives the reason for each component.
