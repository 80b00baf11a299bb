---- MODULE ExecutionState ----
(***************************************************************************)
(* The replay policy of a campaign: src/src/campaign/execution-state.ts.   *)
(*                                                                         *)
(* A campaign directory holds a journal of typed transitions, and every    *)
(* reader (the dispatch controller, the canceller, the launcher, the       *)
(* replay and report tools) rebuilds one projection from it with           *)
(* foldTransition.  The fold is the only place that says which transition  *)
(* may follow which, so what it admits is what a campaign can ever have    *)
(* done.  Here there is one action per transition type, and a behaviour is *)
(* one accepted journal.  A refused transition throws and leaves no state, *)
(* and a transition whose id was already folded with the same bytes is a   *)
(* no-op: both are stuttering steps.  What the fold asks of a transition   *)
(* that a session commits is an operator of its own, Can..., which says    *)
(* what becomes of it: accepted, or refused to whoever commits it.         *)
(*                                                                         *)
(* A primary block is one planned comparison pair; its slots are the       *)
(* samples (the arms) that run for it.  A block that failed is replaced as *)
(* a whole by a block drawn from the reserve of its cell.                  *)
(***************************************************************************)
EXTENDS Naturals, FiniteSets

CONSTANTS
  Primaries,          \* the primary_block_ids of the experiment's planned slots
  Reserves,           \* the reserve_ids of the experiment's reserve slots
  Samples,            \* the sample_ids of the planned slots
  PrimaryOf,          \* sample -> its primary block
  CellOf,             \* primary or reserve -> its (comparison, scenario) cell
  MaxAttempts,        \* suite.attempt_bounds.max_attempts
  Containers,         \* docker container ids
  StartIds,           \* identities of a start authorization
  Processes,          \* process identities (pid, birth, boot id)
  ReplacementCauses,  \* the causes a block may be replaced for
  ValidityCauses,     \* the causes an audit may invalidate a block for
  Observations,       \* what an attempt may be observed to have done
  StopProofs,         \* the kinds of proof of death the workers' runtime gives
  Times,              \* the instants the journal's writer may stamp
  None                \* null, an empty Map entry, an unset field

Blocks == Primaries \cup Reserves
Attempts == Samples \X (1..MaxAttempts)
Sample(a) == a[1]
Number(a) == a[2]
SlotsOf(p) == {s \in Samples : PrimaryOf[s] = p}
Causes == ReplacementCauses \cup ValidityCauses
Proofs == {"inspected_stopped", "verified_absent", "never_created"}
Outcomes == {"completed", "cancelled", "interrupted"}

ASSUME ConstantsAssumption ==
  /\ Primaries \cap Reserves = {}
  /\ PrimaryOf \in [Samples -> Primaries]
  /\ \A p \in Primaries : SlotsOf(p) # {}
  /\ MaxAttempts \in Nat \ {0}
  /\ StopProofs \subseteq Proofs
  /\ Times \subseteq Nat /\ 0 \in Times
  /\ \A o \in Observations : /\ o.class \in {"evidence", "instrument", "aborted"}
                             /\ o.validity \in {"valid", "invalid", "unknown"}

ASSUME NoneAssumption ==
  /\ None \notin Nat
  /\ None \notin Blocks /\ None \notin Containers
  /\ None \notin StartIds /\ None \notin Processes
  /\ None \notin Causes /\ None \notin Observations
  /\ None \notin Proofs /\ None \notin Outcomes

VARIABLES
  registered,   \* projection.registered
  start,        \* projection.start (its start_id)
  controller,   \* projection.controller
  ended,        \* projection.ended (its outcome)
  terminated,   \* projection.termination is set
  lastAt,       \* projection.last_at
  blockPrimary, \* blocks: the primary an activated block stands for
  selected,     \* selected_blocks
  exhausted,    \* exhausted_blocks
  consumed,     \* consumed_reserves
  excluded,     \* blocks: BlockProjection.excluded
  receipt,      \* blocks: validity_receipt is set
  invalidated,  \* blocks: invalidation is set
  blockOf,      \* attempts: the block an attempt belongs to
  preparedAt,   \* attempts: prepared_at
  container,    \* attempts: container_id
  boundAt,      \* attempts: bound_at
  startedAt,    \* attempts: started_at
  proof,        \* attempts: stopped.proof
  stoppedAt,    \* attempts: stopped.observed_at
  observation,  \* attempts: observation
  accounted     \* attempts: accounting is set

session == <<registered, start, controller, ended, terminated>>
plan == <<blockPrimary, selected, exhausted, consumed>>
audit == <<excluded, receipt, invalidated>>
intents == <<blockOf, preparedAt>>
binding == <<boundAt, startedAt>>
death == <<container, proof, stoppedAt>>
evidence == <<observation, accounted>>
vars == <<session, lastAt, plan, audit, intents, binding, death, evidence>>

Init ==
  /\ registered = FALSE /\ start = None /\ controller = None
  /\ ended = None /\ terminated = FALSE
  /\ lastAt = 0
  /\ blockPrimary = [b \in Blocks |-> None]
  /\ selected = [p \in Primaries |-> None]
  /\ exhausted = [p \in Primaries |-> None]
  /\ consumed = {}
  /\ excluded = [b \in Blocks |-> None]
  /\ receipt = [b \in Blocks |-> FALSE]
  /\ invalidated = [b \in Blocks |-> FALSE]
  /\ blockOf = [a \in Attempts |-> None]
  /\ preparedAt = [a \in Attempts |-> None]
  /\ container = [a \in Attempts |-> None]
  /\ boundAt = [a \in Attempts |-> None]
  /\ startedAt = [a \in Attempts |-> None]
  /\ proof = [a \in Attempts |-> None]
  /\ stoppedAt = [a \in Attempts |-> None]
  /\ observation = [a \in Attempts |-> None]
  /\ accounted = [a \in Attempts |-> FALSE]

----
(* What the guards of applyValidatedTransition read. *)

Known == {a \in Attempts : blockOf[a] # None}
Activated == {b \in Blocks : blockPrimary[b] # None}
Members(b) == {a \in Attempts : blockOf[a] = b}
Stopped(a) == proof[a] # None
Live == controller # None /\ ended = None

\* The checks every transition passes first; AfterEnd says that the type is
\* one of the two a journal may still hold once the outcome is fixed.
Admissible(at, afterEnd) ==
  /\ ~terminated
  /\ at >= lastAt
  /\ registered
  /\ ended # None => afterEnd

Stamp(at) == lastAt' = at

\* Mutant of Floor: the start receipt is forgotten.
FloorWithoutStart(a) ==
  IF stoppedAt[a] # None THEN stoppedAt[a]
  ELSE IF boundAt[a] # None THEN boundAt[a]
  ELSE preparedAt[a]

\* The instant before which an attempt cannot be seen dead.
Floor(a) ==
  IF stoppedAt[a] # None THEN stoppedAt[a]
  ELSE IF startedAt[a] # None THEN startedAt[a]
  ELSE IF boundAt[a] # None THEN boundAt[a]
  ELSE preparedAt[a]

\* VerifiedStoppedSchema: which containers a proof of death may name.
ProofNames(p, c) ==
  /\ p = "never_created" => c = None
  /\ p = "inspected_stopped" => c # None

\* Mutant of SameContainer: a dead attempt may still be given a container.
SameContainerIfBound(a, c) == container[a] = None \/ c = container[a]

SameContainer(a, c) ==
  \/ container[a] = None /\ ~Stopped(a)
  \/ c = container[a]

\* Mutant of Unowned: a dead attempt no longer owns its container.
UnownedByLive(a, c) ==
  c # None => \A o \in Attempts \ {a} : container[o] # c \/ Stopped(o)

Unowned(a, c) == c # None => \A o \in Attempts \ {a} : container[o] # c

\* death(): that p, naming container c and taken at t, proves a is dead.
Dead(a, p, c, t, at) ==
  /\ a \in Known
  /\ ProofNames(p, c)
  /\ SameContainer(a, c)
  /\ Unowned(a, c)
  /\ container[a] # None => p # "never_created"
  /\ Floor(a) <= t /\ t <= at

Bury(a, p, c, t) ==
  /\ container' = [container EXCEPT ![a] = c]
  /\ proof' = [proof EXCEPT ![a] = p]
  /\ stoppedAt' = [stoppedAt EXCEPT ![a] = t]

CauseKnown(b, cause) ==
  \/ \E a \in Members(b) : /\ observation[a] # None
                           /\ observation[a].class = "instrument"
                           /\ observation[a].cause = cause
  \/ excluded[b] = cause

\* Mutant of Replaceable: one dead worker is enough.
ReplaceableWhenOneStopped(b, cause) ==
  (\E a \in Members(b) : Stopped(a)) /\ CauseKnown(b, cause)

\* replaceable(): every worker of the block is dead, and the cause was seen
\* in a member or committed as the block's exclusion.
Replaceable(b, cause) ==
  (\A a \in Members(b) : Stopped(a)) /\ CauseKnown(b, cause)

\* allowance(): a further attempt and a reserve of the cell are both left.
Allowance(b) ==
  /\ \A a \in Members(b) : Number(a) < MaxAttempts
  /\ \E r \in Reserves \ consumed : CellOf[r] = CellOf[blockPrimary[b]]

\* Mutant of FirstReason: the last reason wins.
LastReason(b, cause) == cause

FirstReason(b, cause) == IF excluded[b] = None THEN cause ELSE excluded[b]
Exclude(b, cause) == excluded' = [excluded EXCEPT ![b] = FirstReason(b, cause)]

----
(* The session: registration, start, controller. *)

Registered(at) ==
  /\ ~terminated /\ at >= lastAt /\ ended = None
  /\ ~registered
  /\ registered' = TRUE
  /\ Stamp(at)
  /\ UNCHANGED <<start, controller, ended, terminated, plan, audit, intents,
                 binding, death, evidence>>

Started(s, at) ==
  /\ Admissible(at, FALSE)
  /\ start = None
  /\ start' = s
  /\ Stamp(at)
  /\ UNCHANGED <<registered, controller, ended, terminated, plan, audit, intents,
                 binding, death, evidence>>

ControllerBound(s, proc, at) ==
  /\ Admissible(at, FALSE)
  /\ start = s
  /\ controller \in {None, proc}
  /\ controller' = proc
  /\ Stamp(at)
  /\ UNCHANGED <<registered, start, ended, terminated, plan, audit, intents,
                 binding, death, evidence>>

----
(* Blocks. *)

\* One intent per slot of p, each one numbered after the predecessor's.
Numbered(p, pred, number) ==
  \A s \in SlotsOf(p) :
    /\ blockOf[<<s, number[s]>>] = None
    /\ IF pred = None THEN number[s] = 1
       ELSE number[s] > 1 /\ blockOf[<<s, number[s] - 1>>] = pred

\* activate(): what an initial and a successor activation share.
CanActivate(b, p, pred, number) ==
  /\ Live
  /\ blockPrimary[b] = None
  /\ exhausted[p] = None
  /\ Numbered(p, pred, number)

Activate(b, p, pred, number, at) ==
  /\ CanActivate(b, p, pred, number)
  /\ LET ids == {<<s, number[s]>> : s \in SlotsOf(p)}
     IN /\ blockOf' = [a \in Attempts |-> IF a \in ids THEN b ELSE blockOf[a]]
        /\ preparedAt' = [a \in Attempts |-> IF a \in ids THEN at ELSE preparedAt[a]]
  /\ blockPrimary' = [blockPrimary EXCEPT ![b] = p]
  /\ selected' = [selected EXCEPT ![p] = b]
  /\ UNCHANGED exhausted

CanBegin(p, number, at) ==
  /\ Admissible(at, FALSE)
  /\ selected[p] = None
  /\ CanActivate(p, p, None, number)

BlockActivated(p, number, at) ==
  /\ CanBegin(p, number, at)
  /\ Activate(p, p, None, number, at)
  /\ Stamp(at)
  /\ UNCHANGED <<session, consumed, audit, binding, death, evidence>>

\* The reserve a replacement draws is spent.
Consume(r, pred) == consumed' = consumed \cup {r}

\* The controller names a successor block by its reserve, and registration
\* refuses a reserve whose id is a primary's.
CanReplace(p, r, cause, number, at) ==
  LET pred == selected[p] IN
  /\ Admissible(at, FALSE)
  /\ pred # None
  /\ Replaceable(pred, cause)
  /\ r \notin consumed
  /\ CellOf[r] = CellOf[p]
  /\ Allowance(pred)
  /\ CanActivate(r, p, pred, number)

BlockReplaced(p, r, cause, number, at) ==
  LET pred == selected[p] IN
  /\ CanReplace(p, r, cause, number, at)
  /\ Activate(r, p, pred, number, at)
  /\ Consume(r, pred)
  /\ Exclude(pred, cause)
  /\ Stamp(at)
  /\ UNCHANGED <<session, receipt, invalidated, binding, death, evidence>>

CanValidate(b, at) ==
  /\ Admissible(at, FALSE)
  /\ Live
  /\ b \in Activated
  /\ excluded[b] = None /\ ~receipt[b]
  /\ \A a \in Members(b) : observation[a] # None /\ observation[a].validity = "valid"

BlockValidated(b, at) ==
  /\ CanValidate(b, at)
  /\ receipt' = [receipt EXCEPT ![b] = TRUE]
  /\ Stamp(at)
  /\ UNCHANGED <<session, plan, excluded, invalidated, intents, binding, death, evidence>>

CanInvalidate(b, at) ==
  /\ Admissible(at, FALSE)
  /\ Live
  /\ b \in Activated
  /\ ~invalidated[b]

BlockInvalidated(b, cause, at) ==
  /\ CanInvalidate(b, at)
  /\ Exclude(b, cause)
  /\ invalidated' = [invalidated EXCEPT ![b] = TRUE]
  /\ Stamp(at)
  /\ UNCHANGED <<session, plan, receipt, intents, binding, death, evidence>>

CanExhaust(p, cause, at) ==
  /\ Admissible(at, FALSE)
  /\ Live
  /\ selected[p] # None /\ exhausted[p] = None
  /\ Replaceable(selected[p], cause)
  /\ ~Allowance(selected[p])

BlockExhausted(p, cause, at) ==
  /\ CanExhaust(p, cause, at)
  /\ Exclude(selected[p], cause)
  /\ exhausted' = [exhausted EXCEPT ![p] = cause]
  /\ Stamp(at)
  /\ UNCHANGED <<session, blockPrimary, selected, consumed, receipt, invalidated,
                 intents, binding, death, evidence>>

----
(* Attempts. *)

CanBind(a, c, at) ==
  /\ Admissible(at, FALSE)
  /\ Live
  /\ a \in Known
  /\ container[a] = None /\ ~Stopped(a)
  /\ observation[a] = None /\ ~accounted[a]
  /\ \A o \in Attempts : container[o] # c

RuntimeBound(a, c, at) ==
  /\ CanBind(a, c, at)
  /\ container' = [container EXCEPT ![a] = c]
  /\ boundAt' = [boundAt EXCEPT ![a] = at]
  /\ Stamp(at)
  /\ UNCHANGED <<session, plan, audit, intents, startedAt, proof, stoppedAt, evidence>>

CanStart(a, t, at) ==
  /\ Admissible(at, FALSE)
  /\ Live
  /\ a \in Known
  /\ container[a] # None /\ boundAt[a] # None
  /\ startedAt[a] = None /\ ~Stopped(a)
  /\ boundAt[a] <= t /\ t <= at

RuntimeStarted(a, t, at) ==
  /\ CanStart(a, t, at)
  /\ startedAt' = [startedAt EXCEPT ![a] = t]
  /\ Stamp(at)
  /\ UNCHANGED <<session, plan, audit, intents, boundAt, death, evidence>>

\* An observation that is not valid carries the exclusion of its block in the
\* same transition; a valid one carries none.
CanObserve(a, o, cause, p, c, t, at) ==
  /\ Admissible(at, FALSE)
  /\ Live
  /\ Dead(a, p, c, t, at)
  /\ observation[a] = None
  /\ selected[PrimaryOf[Sample(a)]] = blockOf[a]
  /\ (o.validity = "valid") <=> (cause = None)

AttemptObserved(a, o, cause, p, c, t, at) ==
  /\ CanObserve(a, o, cause, p, c, t, at)
  /\ IF cause = None THEN UNCHANGED excluded ELSE Exclude(blockOf[a], cause)
  /\ Bury(a, p, c, t)
  /\ observation' = [observation EXCEPT ![a] = o]
  /\ Stamp(at)
  /\ UNCHANGED <<session, plan, receipt, invalidated, intents, binding, accounted>>

\* Not gated by Live: the canceller still closes the accounts of an ended
\* campaign.
CanAccount(a, p, c, t, at) ==
  /\ Admissible(at, TRUE)
  /\ Dead(a, p, c, t, at)
  /\ ~accounted[a]

AccountingObserved(a, p, c, t, at) ==
  /\ CanAccount(a, p, c, t, at)
  /\ Bury(a, p, c, t)
  /\ accounted' = [accounted EXCEPT ![a] = TRUE]
  /\ Stamp(at)
  /\ UNCHANGED <<session, plan, audit, intents, binding, observation>>

----
(* The end. *)

\* Mutant of Resolved: a receipt is enough, though the block was excluded since.
ResolvedByReceipt(p) ==
  selected[p] # None /\ (exhausted[p] # None \/ receipt[selected[p]])

\* What completion asks of each planned pair.
Resolved(p) ==
  /\ selected[p] # None
  /\ \/ exhausted[p] # None
     \/ receipt[selected[p]] /\ excluded[selected[p]] = None

CanEnd(outcome, at) ==
  /\ Admissible(at, FALSE)
  /\ start # None
  /\ outcome # "interrupted" => \A a \in Known : Stopped(a)
  /\ outcome = "completed" => Live /\ \A p \in Primaries : Resolved(p)

Ended(outcome, at) ==
  /\ CanEnd(outcome, at)
  /\ ended' = outcome
  /\ Stamp(at)
  /\ UNCHANGED <<registered, start, controller, terminated, plan, audit, intents,
                 binding, death, evidence>>

StopRecords == {r \in [proof : StopProofs, container : Containers \cup {None}, at : Times] :
                  ProofNames(r.proof, r.container)}

\* stops holds exactly one proof of death per intent; they are folded one after
\* the other, so two of them cannot name the same container.
CanTerminate(s, stops, at) ==
  /\ Admissible(at, TRUE)
  /\ ended # None /\ start = s
  /\ \A a \in Known : Dead(a, stops[a].proof, stops[a].container, stops[a].at, at)
  /\ \A a, o \in Known : a # o /\ stops[a].container # None
                           => stops[a].container # stops[o].container

TerminationVerified(s, stops, at) ==
  /\ CanTerminate(s, stops, at)
  /\ container' = [a \in Attempts |-> IF a \in Known THEN stops[a].container ELSE container[a]]
  /\ proof' = [a \in Attempts |-> IF a \in Known THEN stops[a].proof ELSE proof[a]]
  /\ stoppedAt' = [a \in Attempts |-> IF a \in Known THEN stops[a].at ELSE stoppedAt[a]]
  /\ terminated' = TRUE
  /\ Stamp(at)
  /\ UNCHANGED <<registered, start, controller, ended, plan, audit, intents, binding, evidence>>

SessionStep(at) ==
  \/ Registered(at)
  \/ \E s \in StartIds : Started(s, at)
  \/ \E s \in StartIds, proc \in Processes : ControllerBound(s, proc, at)
  \/ \E outcome \in Outcomes : Ended(outcome, at)
  \/ \E s \in StartIds, stops \in [Known -> StopRecords] : TerminationVerified(s, stops, at)

BlockStep(at) ==
  \/ \E p \in Primaries : \E number \in [SlotsOf(p) -> 1..MaxAttempts] :
       \/ BlockActivated(p, number, at)
       \/ \E r \in Reserves, cause \in ReplacementCauses :
            BlockReplaced(p, r, cause, number, at)
  \/ \E b \in Blocks : BlockValidated(b, at)
  \/ \E b \in Blocks, cause \in ValidityCauses : BlockInvalidated(b, cause, at)
  \/ \E p \in Primaries, cause \in ReplacementCauses : BlockExhausted(p, cause, at)

AttemptStep(at) ==
  \E a \in Known :
    \/ \E c \in Containers : RuntimeBound(a, c, at)
    \/ \E t \in Times : RuntimeStarted(a, t, at)
    \/ \E r \in StopRecords :
         \/ \E o \in Observations, cause \in ValidityCauses \cup {None} :
              AttemptObserved(a, o, cause, r.proof, r.container, r.at, at)
         \/ AccountingObserved(a, r.proof, r.container, r.at, at)

Next == \E at \in Times : SessionStep(at) \/ BlockStep(at) \/ AttemptStep(at)

Spec == Init /\ [][Next]_vars

----
(* Properties. *)

\* Every variable keeps the type CampaignProjection declares for it.
TypeOK ==
  /\ registered \in BOOLEAN /\ terminated \in BOOLEAN
  /\ start \in StartIds \cup {None}
  /\ controller \in Processes \cup {None}
  /\ ended \in Outcomes \cup {None}
  /\ lastAt \in Times
  /\ blockPrimary \in [Blocks -> Primaries \cup {None}]
  /\ selected \in [Primaries -> Blocks \cup {None}]
  /\ exhausted \in [Primaries -> ReplacementCauses \cup {None}]
  /\ consumed \subseteq Reserves
  /\ excluded \in [Blocks -> Causes \cup {None}]
  /\ receipt \in [Blocks -> BOOLEAN]
  /\ invalidated \in [Blocks -> BOOLEAN]
  /\ blockOf \in [Attempts -> Blocks \cup {None}]
  /\ preparedAt \in [Attempts -> Times \cup {None}]
  /\ container \in [Attempts -> Containers \cup {None}]
  /\ boundAt \in [Attempts -> Times \cup {None}]
  /\ startedAt \in [Attempts -> Times \cup {None}]
  /\ proof \in [Attempts -> Proofs \cup {None}]
  /\ stoppedAt \in [Attempts -> Times \cup {None}]
  /\ observation \in [Attempts -> Observations \cup {None}]
  /\ accounted \in [Attempts -> BOOLEAN]

\* No container is ever charged to two attempts, though three kinds of
\* transition (a binding, a discovered death, the final inventory) can each
\* give an attempt its container.
OneOwner ==
  \A a, o \in Attempts : a # o /\ container[a] # None => container[a] # container[o]

\* Two generations of one comparison pair never run together, and a pair is
\* never counted twice: a block that is no longer the selected one of its
\* primary is out of the results, and every worker it had is proved dead.
SupersededIsOver ==
  \A b \in Activated :
    selected[blockPrimary[b]] # b
      => excluded[b] # None /\ \A a \in Members(b) : Stopped(a)

\* Blocks stay whole: an activated block has one attempt for every slot of its
\* primary and no other, all of one ordinal, and it is either the primary's own
\* first block or a reserve of the same cell drawn once.
BlocksAreWhole ==
  /\ consumed = Activated \cap Reserves
  /\ \A b \in Activated :
       LET p == blockPrimary[b] IN
       /\ selected[p] # None
       /\ IF b \in Primaries THEN b = p ELSE CellOf[b] = CellOf[p]
       /\ \E n \in 1..MaxAttempts : /\ Members(b) = {<<s, n>> : s \in SlotsOf(p)}
                                    /\ n = 1 <=> b = p
  /\ \A a \in Known : blockOf[a] \in Activated

\* Both: the blocks of a pair are whole, and one at a time.
BlocksAreSound == SupersededIsOver /\ BlocksAreWhole

\* A campaign that says it completed has, for every planned pair, either an
\* audited result (each arm observed valid and dead, no exclusion) or a pair
\* given up with nothing left to replace it: no arm is silently missing.
CompletedIsSound ==
  ended = "completed" =>
    \A p \in Primaries :
      LET b == selected[p] IN
      /\ b \in Activated
      /\ \A a \in Members(b) : Stopped(a)
      /\ IF exhausted[p] # None THEN excluded[b] # None /\ ~Allowance(b)
         ELSE /\ excluded[b] = None
              /\ \A s \in SlotsOf(p) : \E a \in Members(b) :
                   /\ Sample(a) = s
                   /\ observation[a] # None /\ observation[a].validity = "valid"

\* A primary is given up only when nothing could replace it, and that stays so:
\* no later transition finds the allowance that exhaustion denied.
ExhaustionIsFinal ==
  \A p \in Primaries : exhausted[p] # None =>
    /\ selected[p] # None
    /\ excluded[selected[p]] # None
    /\ \A a \in Members(selected[p]) : Stopped(a)
    /\ ~Allowance(selected[p])

\* Both: what a campaign gave up, or completed, it had to.
EndsAreSound == ExhaustionIsFinal /\ CompletedIsSound

\* An attempt's recorded instants are in the order of its life, and none is
\* later than the journal's last transition, whichever of the optional steps
\* (binding, start) it skipped.
TimesOrdered ==
  \A a \in Known :
    LET InOrder(t, u) == t # None /\ u # None => t <= u IN
    /\ \A t \in {preparedAt[a], boundAt[a], startedAt[a], stoppedAt[a]} : InOrder(t, lastAt)
    /\ preparedAt[a] # None
    /\ startedAt[a] # None => boundAt[a] # None
    /\ InOrder(preparedAt[a], boundAt[a]) /\ InOrder(boundAt[a], startedAt[a])
    /\ \A t \in {preparedAt[a], boundAt[a], startedAt[a]} : InOrder(t, stoppedAt[a])

\* What a transition has recorded no later transition takes back or rewrites:
\* the outcome, the observation of an attempt, the first reason a block was
\* excluded for, the audit's receipt, an exhaustion, a spent reserve.
RecordsAreFinal ==
  [][ /\ ended # None => ended' = ended
      /\ consumed \subseteq consumed'
      /\ \A a \in Attempts : /\ observation[a] # None => observation'[a] = observation[a]
                             /\ accounted[a] => accounted'[a]
                             /\ blockOf[a] # None => blockOf'[a] = blockOf[a]
      /\ \A b \in Blocks : /\ excluded[b] # None => excluded'[b] = excluded[b]
                           /\ receipt[b] => receipt'[b]
                           /\ invalidated[b] => invalidated'[b]
      /\ \A p \in Primaries :
           exhausted[p] # None => exhausted'[p] = exhausted[p] /\ selected'[p] = selected[p]
    ]_vars

\* The refinement: how far an attempt has got, as WorkerLedger tells it.
Phase(a) ==
  IF blockOf[a] = None THEN "absent"
  ELSE IF Stopped(a) THEN "dead"
  ELSE IF startedAt[a] # None THEN "running"
  ELSE IF boundAt[a] # None THEN "bound"
  ELSE "prepared"

Ledger == INSTANCE WorkerLedger
            WITH Workers <- Attempts,
                 phase <- [a \in Attempts |-> Phase(a)],
                 holds <- container

\* The journal keeps the ledger's promise: every accepted transition is a step
\* of WorkerLedger or changes nothing it sees, so a dead worker never binds or
\* starts, and a container never changes hands.
ImplementsLedger == Ledger!LedgerSpec
====
