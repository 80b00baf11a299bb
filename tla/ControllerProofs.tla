---- MODULE ControllerProofs ----
(***************************************************************************)
(* What one campaign session guarantees, for any experiment, any cap and   *)
(* any number of faults: whatever the controller and the canceller do to   *)
(* the journal is a step of the replay policy, so its invariants hold; and *)
(* what the journal says of a worker agrees with docker, whose clients may *)
(* time out and whose daemon may do late what it was asked.                *)
(***************************************************************************)
EXTENDS Controller, ExecutionStateProofs, FiniteSetTheorems

----
(* The journal. *)

\* A session that is terminated has buried every worker, and one that ended
\* had been started.
ClosedInv ==
  /\ terminated => \A a \in Known : Stopped(a)
  /\ ended # None => start # None

JournalInv == TypeOK /\ PlanInv /\ SupersededIsOver /\ LinesInv /\ ClosedInv

LEMMA SessionFrame ==
  ASSUME TypeOK, [Next]_vars
  PROVE  /\ UNCHANGED vars \/ ~terminated
         /\ UNCHANGED terminated \/ InventoryStep
         /\ start' = start \/ start' # None
         /\ UNCHANGED ended \/ (start # None /\ start' = start)
<1> DEFINE Frame == /\ UNCHANGED vars \/ ~terminated
                    /\ UNCHANGED terminated \/ InventoryStep
                    /\ start' = start \/ start' # None
                    /\ UNCHANGED ended \/ (start # None /\ start' = start)
           Same == ~terminated /\ UNCHANGED <<terminated, start, ended>>
<1>1. CASE UNCHANGED vars
  BY <1>1 DEF vars, session
<1>2. Same => Frame
  OBVIOUS
<1>3. ASSUME NEW at \in Times, SessionStep(at) PROVE Frame
  <2>1. Registered(at) => Same
    BY DEF Registered
  <2>2. ASSUME NEW s \in StartIds, Started(s, at) PROVE Frame
    <3>1. s # None
      BY NoneAssumption
    <3>2. ~terminated /\ start' = s /\ terminated' = terminated /\ ended' = ended
      BY <2>2 DEF Started, Admissible
    <3> QED
      BY <3>1, <3>2
  <2>3. \A s, proc : ControllerBound(s, proc, at) => Same
    BY DEF ControllerBound, Admissible
  <2>4. \A outcome : Ended(outcome, at) => Frame
    BY DEF Ended, CanEnd, Admissible
  <2>5. ASSUME NEW s \in StartIds, NEW stops \in [Known -> StopRecords], TerminationVerified(s, stops, at)
        PROVE  Frame
    BY <2>5 DEF TerminationVerified, CanTerminate, Admissible, InventoryStep
  <2> HIDE DEF Frame
  <2> QED
    BY <1>2, <1>3, <2>1, <2>2, <2>3, <2>4, <2>5 DEF SessionStep
<1>4. ASSUME NEW at \in Times, BlockStep(at) PROVE Same
  BY <1>4 DEF BlockStep, BlockActivated, CanBegin, BlockReplaced, CanReplace, BlockValidated,
     CanValidate, BlockInvalidated, CanInvalidate,
     BlockExhausted, CanExhaust, Admissible, session
<1>5. ASSUME NEW at \in Times, AttemptStep(at) PROVE Same
  BY <1>5 DEF AttemptStep, RuntimeBound, CanBind, RuntimeStarted, CanStart, AttemptObserved,
     CanObserve, AccountingObserved, CanAccount,
     Admissible, session
<1> QED
  BY <1>1, <1>2, <1>3, <1>4, <1>5 DEF Next

LEMMA ClosedStep ==
  ASSUME TypeOK, ClosedInv, [Next]_vars
  PROVE  ClosedInv'
<1>1. CASE UNCHANGED vars
  BY <1>1 DEF vars, session, intents, death, ClosedInv, Known, Stopped
<1>2. CASE ~terminated
  <2>1. terminated' => \A a \in Known' : Stopped(a)'
    <3> SUFFICES ASSUME terminated' PROVE \A a \in Known' : Stopped(a)'
      OBVIOUS
    <3>1. InventoryStep
      BY <1>2, SessionFrame
    <3> PICK at \in Times, s \in StartIds, stops \in [Known -> StopRecords] :
               TerminationVerified(s, stops, at)
      BY <3>1 DEF InventoryStep
    <3>2. Known' = Known
      BY DEF TerminationVerified, Known, intents
    <3>3. \A a \in Known : proof'[a] = stops[a].proof /\ stops[a] \in StopRecords
      BY DEF TerminationVerified, Known
    <3> QED
      BY <3>2, <3>3, StopRecordType DEF Stopped
  <2> QED
    BY <2>1, SessionFrame DEF ClosedInv
<1> QED
  BY <1>1, <1>2, SessionFrame

LEMMA JournalInit == Init => JournalInv
<1> SUFFICES ASSUME Init PROVE JournalInv
  OBVIOUS
<1>1. TypeOK
  BY TypeInit
<1>2. PlanInv
  BY NoneAssumption DEF Init, PlanInv, BlocksAreWhole, Activated, Known
<1>3. SupersededIsOver /\ ClosedInv
  BY NoneAssumption DEF Init, SupersededIsOver, Activated, ClosedInv
<1>4. LinesInv
  BY DEF Init, LinesInv, InLine, Ordered
<1> QED
  BY <1>1, <1>2, <1>3, <1>4 DEF JournalInv

LEMMA JournalStep ==
  ASSUME JournalInv, [Next]_vars
  PROVE  JournalInv'
<1>1. TypeOK' /\ PlanInv' /\ SupersededIsOver' /\ ClosedInv'
  BY TypeStep, PlanInvStep, SupersededStep, ClosedStep DEF JournalInv
<1>2. LinesInv'
  BY <1>1, TimeFrame, InLineKept DEF JournalInv, LinesInv
<1> QED
  BY <1>1, <1>2 DEF JournalInv

----
(* Whatever the session commits is a transition of the replay policy. *)

LEMMA AnInstant == 0 \in Times
BY ConstantsAssumption

LEMMA StopRecordOf ==
  ASSUME NEW a, NEW p \in Proofs, NEW c \in Attempts \cup {None}, NEW t \in Times, NEW at,
         Dead(a, p, c, t, at)
  PROVE  /\ [proof |-> p, container |-> c, at |-> t] \in StopRecords
         /\ a \in Known
BY ControllerAssumption DEF Dead, StopRecords

LEMMA ObservationJournals ==
  ASSUME NEW a, NEW o \in Observations, NEW p \in Proofs, NEW c \in Attempts \cup {None},
         AttemptObserved(a, o, None, p, c, 0, 0)
  PROVE  Next
<1> DEFINE r == [proof |-> p, container |-> c, at |-> 0]
<1>1. r \in StopRecords /\ a \in Known
  BY StopRecordOf, AnInstant DEF AttemptObserved, CanObserve
<1>2. r.proof = p /\ r.container = c /\ r.at = 0
  OBVIOUS
<1> HIDE DEF r
<1>3. AttemptStep(0)
  <2>1. AttemptObserved(a, o, None, r.proof, r.container, r.at, 0)
    BY <1>2
  <2> QED
    BY <1>1, <2>1 DEF AttemptStep
<1> QED
  BY <1>3, AnInstant DEF Next

LEMMA AccountingJournals ==
  ASSUME NEW a, NEW p \in Proofs, NEW c \in Attempts \cup {None},
         AccountingObserved(a, p, c, 0, 0)
  PROVE  Next
<1> DEFINE r == [proof |-> p, container |-> c, at |-> 0]
<1>1. r \in StopRecords /\ a \in Known
  BY StopRecordOf, AnInstant DEF AccountingObserved, CanAccount
<1>2. r.proof = p /\ r.container = c /\ r.at = 0
  OBVIOUS
<1> HIDE DEF r
<1>3. AttemptStep(0)
  <2>1. AccountingObserved(a, r.proof, r.container, r.at, 0)
    BY <1>2
  <2> QED
    BY <1>1, <2>1 DEF AttemptStep
<1> QED
  BY <1>3, AnInstant DEF Next

\* What the controller says of a worker it stops.
LEMMA ProofTypes ==
  ASSUME TypeOK, NEW a \in Attempts
  PROVE  /\ ProofOf(a) \in Proofs /\ ContainerOf(a) \in Attempts \cup {None}
         /\ "inspected_stopped" \in Proofs /\ "verified_absent" \in Proofs
         /\ container[a] \in Attempts \cup {None}
         /\ Seen(a) \subseteq Observations /\ Indeterminate \in Observations
BY ControllerAssumption DEF TypeOK, ProofOf, ContainerOf, Proofs, Seen

\* The ordinal of a block: its samples' first attempts, or the ones after their last.
LEMMA OrdinalTypes ==
  ASSUME JournalInv, NEW p \in Primaries,
         selected[p] # None => \A a \in Members(selected[p]) : Number(a) < MaxAttempts
  PROVE  Ordinal(p) \in [SlotsOf(p) -> 1..MaxAttempts]
<1>0. MaxAttempts \in Nat \ {0}
  BY ConstantsAssumption
<1>1. CASE selected[p] = None
  BY <1>0, <1>1 DEF Ordinal
<1>2. CASE selected[p] # None
  <2> DEFINE b == selected[p]
  <2>1. b \in Activated /\ blockPrimary[b] = p
    BY <1>2 DEF JournalInv, PlanInv
  <2>2. PICK n \in 1..MaxAttempts : Members(b) = {<<s, n>> : s \in SlotsOf(p)}
    BY <2>1 DEF JournalInv, PlanInv, BlocksAreWhole
  <2>3. ASSUME NEW s \in SlotsOf(p)
        PROVE  1 + Number(CHOOSE a \in Members(b) : Sample(a) = s) \in 1..MaxAttempts
    <3>1. <<s, n>> \in Members(b) /\ Sample(<<s, n>>) = s
      BY <2>2 DEF Sample
    <3> DEFINE a == CHOOSE x \in Members(b) : Sample(x) = s
    <3>2. a \in Members(b)
      BY <3>1
    <3> HIDE DEF a
    <3>3. Number(a) = n
      BY <2>2, <3>2 DEF Number
    <3>4. n < MaxAttempts
      BY <1>2, <3>2, <3>3
    <3>5. 1 + Number(a) \in 1..MaxAttempts
      BY <1>0, <3>3, <3>4
    <3> QED
      BY <3>5 DEF a
  <2> QED
    BY <1>2, <2>3 DEF Ordinal
<1> QED
  BY <1>1, <1>2

LEMMA ActivationJournals ==
  ASSUME JournalInv, NEW p \in Primaries, ActivateBlock(p)
  PROVE  [Next]_vars
<1>1. CASE BlockActivated(p, Ordinal(p), 0)
  <2>1. Ordinal(p) \in [SlotsOf(p) -> 1..MaxAttempts]
    BY <1>1, OrdinalTypes DEF BlockActivated, CanBegin
  <2>2. BlockStep(0)
    BY <1>1, <2>1 DEF BlockStep
  <2> QED
    BY <2>2, AnInstant DEF Next
<1>2. ASSUME NEW r \in Reserves, NEW cause \in CausesOf(selected[p]),
             BlockReplaced(p, r, cause, Ordinal(p), 0)
      PROVE  [Next]_vars
  <2>1. Ordinal(p) \in [SlotsOf(p) -> 1..MaxAttempts]
    BY <1>2, OrdinalTypes DEF BlockReplaced, CanReplace, Allowance
  <2>2. cause \in ReplacementCauses
    BY DEF CausesOf
  <2>3. BlockStep(0)
    BY <1>2, <2>1, <2>2 DEF BlockStep
  <2> QED
    BY <2>3, AnInstant DEF Next
<1> QED
  BY <1>1, <1>2 DEF ActivateBlock, Commit

\* The final inventory, out of what the journal recorded.
LEMMA InventoryJournals ==
  ASSUME JournalInv, Running = {}, TerminationVerified(start, Recorded, 0)
  PROVE  Next
<1>1. start \in StartIds
  BY DEF JournalInv, ClosedInv, TypeOK, TerminationVerified, CanTerminate
<1>2. Recorded \in [Known -> StopRecords]
  <2>1. ASSUME NEW a \in Known
        PROVE  [proof |-> proof[a], container |-> container[a], at |-> stoppedAt[a]] \in StopRecords
    <3>1. a \in Attempts /\ Stopped(a)
      BY DEF Running, Known
    <3>2. proof[a] \in Proofs /\ container[a] \in Attempts \cup {None} /\ stoppedAt[a] \in Times
      BY <3>1, ControllerAssumption DEF JournalInv, LinesInv, InLine, TypeOK, Stopped
    <3>3. /\ Recorded[a].proof = proof[a] /\ Recorded[a].container = container[a]
          /\ Recorded[a].at = stoppedAt[a]
      BY DEF Recorded
    <3>4. Dead(a, proof[a], container[a], stoppedAt[a], 0)
      BY <3>3 DEF TerminationVerified, CanTerminate
    <3> QED
      BY <3>2, <3>4, StopRecordOf
  <2> QED
    BY <2>1 DEF Recorded
<1>3. SessionStep(0)
  BY <1>1, <1>2 DEF SessionStep
<1> QED
  BY <1>3, AnInstant DEF Next

LEMMA SessionStepJournals ==
  ASSUME NEW outcome \in Outcomes, Ended(outcome, 0)
  PROVE  Next
<1>1. SessionStep(0)
  BY DEF SessionStep
<1> QED
  BY <1>1, AnInstant DEF Next
LEMMA AttemptStepsJournal ==
  ASSUME NEW a \in Attempts, a \in Known
  PROVE  /\ RuntimeBound(a, a, 0) => Next
         /\ RuntimeStarted(a, 0, 0) => Next
<1>1. RuntimeBound(a, a, 0) \/ RuntimeStarted(a, 0, 0) => AttemptStep(0)
  BY AnInstant, ControllerAssumption DEF AttemptStep
<1> QED
  BY <1>1, AnInstant DEF Next

\* The controller's commits, one at a time.
LEMMA DrainJournals ==
  ASSUME JournalInv, NEW a \in Attempts,
         DrainStopped(a) \/ DrainFailed(a) \/ StopSibling(a) \/ AbortAttempt(a)
  PROVE  [Next]_vars
<1>1. /\ ProofOf(a) \in Proofs /\ ContainerOf(a) \in Attempts \cup {None}
      /\ "inspected_stopped" \in Proofs
      /\ Seen(a) \subseteq Observations /\ Indeterminate \in Observations
  BY ProofTypes DEF JournalInv
<1>2. CASE DrainStopped(a)
  <2>1. CASE UNCHANGED vars
    BY <2>1
  <2>2. ASSUME NEW o \in Seen(a), AttemptObserved(a, o, None, "inspected_stopped", a, 0, 0)
        PROVE  Next
    BY <1>1, <2>2, ObservationJournals
  <2> QED
    BY <1>2, <2>1, <2>2 DEF DrainStopped, Commit
<1>3. CASE DrainFailed(a)
  <2>1. AttemptObserved(a, Indeterminate, None, ProofOf(a), ContainerOf(a), 0, 0) => Next
    BY <1>1, ObservationJournals
  <2> QED
    BY <1>3, <2>1 DEF DrainFailed, Commit
<1>4. CASE StopSibling(a)
  <2>1. ASSUME NEW o \in Seen(a),
               AttemptObserved(a, o, None, ProofOf(a), ContainerOf(a), 0, 0)
        PROVE  Next
    BY <1>1, <2>1, ObservationJournals
  <2> QED
    BY <1>4, <2>1 DEF StopSibling, Commit
<1>5. CASE AbortAttempt(a)
  <2>1. AccountingObserved(a, ProofOf(a), ContainerOf(a), 0, 0) => Next
    BY <1>1, AccountingJournals
  <2> QED
    BY <1>5, <2>1 DEF AbortAttempt, Commit
<1> QED
  BY <1>2, <1>3, <1>4, <1>5

LEMMA BlockJournals ==
  ASSUME JournalInv
  PROVE  /\ \A b \in Blocks : AuditBlock(b) => [Next]_vars
         /\ \A p \in Primaries : Exhaust(p) \/ ActivateBlock(p) => [Next]_vars
<1>1. ASSUME NEW b \in Blocks, AuditBlock(b) PROVE [Next]_vars
  <2>1. ASSUME NEW cause \in ValidityCauses, BlockInvalidated(b, cause, 0) PROVE Next
    BY <2>1, AnInstant DEF BlockStep, Next
  <2>2. BlockValidated(b, 0) => Next
    BY AnInstant DEF BlockStep, Next
  <2> QED
    BY <1>1, <2>1, <2>2 DEF AuditBlock, Commit
<1>2. ASSUME NEW p \in Primaries, Exhaust(p) PROVE [Next]_vars
  <2>1. CausesOf(selected[p]) \subseteq ReplacementCauses
    BY DEF CausesOf
  <2>2. ASSUME NEW cause \in CausesOf(selected[p]), BlockExhausted(p, cause, 0) PROVE Next
    BY <2>1, <2>2, AnInstant DEF BlockStep, Next
  <2> QED
    BY <1>2, <2>2 DEF Exhaust, Commit
<1> QED
  BY <1>1, <1>2, ActivationJournals

LEMMA EndJournals ==
  ASSUME JournalInv, AbortEnd \/ Complete \/ Finish \/ CancelEnds
  PROVE  [Next]_vars
<1>1. AbortOutcome \in Outcomes /\ "completed" \in Outcomes
  BY DEF AbortOutcome, Outcomes
<1>2. CASE AbortEnd
  <2>1. Ended(AbortOutcome, 0) => Next
    BY <1>1, SessionStepJournals
  <2> QED
    BY <1>2, <2>1 DEF AbortEnd, Commit
<1>3. CASE Complete
  <2>1. Ended("completed", 0) => Next
    BY <1>1, SessionStepJournals
  <2> QED
    BY <1>3, <2>1 DEF Complete, Commit
<1>4. CASE Finish
  <2>1. Closable /\ TerminationVerified(start, Recorded, 0) => Next
    BY InventoryJournals DEF Closable
  <2> QED
    BY <1>4, <2>1 DEF Finish, Commit
<1>5. CASE CancelEnds
  <2>1. Ended(AbortOutcome, 0) => Next
    BY <1>1, SessionStepJournals
  <2>2. Running = {} /\ TerminationVerified(start, Recorded, 0) => Next
    BY InventoryJournals
  <2> QED
    BY <1>5, <2>1, <2>2 DEF CancelEnds, CancelCommit
<1> QED
  BY <1>2, <1>3, <1>4, <1>5

LEMMA LaunchJournals ==
  ASSUME Launch
  PROVE  Next
<1>1. SessionStep(0)
  BY DEF Launch, SessionStep
<1> QED
  BY <1>1, AnInstant DEF Next

LEMMA StartJournals ==
  ASSUME JournalInv, NEW a \in Attempts, Bind(a) \/ Receipt(a) \/ Reconcile(a)
  PROVE  [Next]_vars
<1>1. a \in Known
  BY DEF Bind, Receipt, Reconcile, Unbound, ToStart, Running
<1>2. CASE Bind(a) \/ Receipt(a)
  BY <1>1, <1>2, AttemptStepsJournal DEF Bind, Receipt, Commit
<1>3. CASE Reconcile(a)
  <2>1. /\ "verified_absent" \in Proofs /\ "inspected_stopped" \in Proofs
        /\ container[a] \in Attempts \cup {None}
    BY ProofTypes DEF JournalInv
  <2>2. AccountingObserved(a, "verified_absent", container[a], 0, 0) => Next
    BY <2>1, AccountingJournals
  <2>3. AccountingObserved(a, "inspected_stopped", a, 0, 0) => Next
    BY <2>1, AccountingJournals
  <2> QED
    BY <1>3, <2>2, <2>3 DEF Reconcile, CancelCommit
<1> QED
  BY <1>2, <1>3

\* What a step of the session, of the operator or of docker does to the journal
\* is a transition its policy admits.
LEMMA SessionJournals ==
  ASSUME JournalInv, [SessionNext]_allVars
  PROVE  [Next]_vars
<1>1. CASE UNCHANGED allVars
  BY <1>1 DEF allVars
<1>2. CASE WorldStep \/ Crash \/ Cancel
  BY <1>2 DEF WorldStep, Crash, Cancel
<1>3. CASE Throw \/ Drained \/ AuditDone \/ Resolve \/ Sleep \/ WaitSpacing
  BY <1>3 DEF Throw, Drained, AuditDone, Resolve, Sleep, WaitSpacing
<1>4. \A a \in Attempts : CreateContainer(a) \/ StartContainer(a) => UNCHANGED vars
  BY DEF CreateContainer, StartContainer
<1> QED
  BY <1>1, <1>2, <1>3, <1>4, LaunchJournals, DrainJournals, BlockJournals, EndJournals,
     StartJournals
     DEF SessionNext, ControllerStep, CancellerStep

LEMMA JournalKept ==
  ASSUME JournalInv, [SessionNext]_allVars
  PROVE  JournalInv'
BY SessionJournals, JournalStep

LEMMA JournalAlways == SessionSpec => []JournalInv
<1>1. SessionInit => JournalInv
  BY JournalInit DEF SessionInit
<1> QED
  BY <1>1, JournalKept, PTL DEF SessionSpec

\* A session implements the replay policy: with the operator's cancellation, the
\* faults, the controller's death and the canceller after it, what is written to
\* the journal is a behaviour of ExecutionState, so every theorem about the
\* journal holds of a session (controller.ts, cancellation.ts, and the fold of
\* execution-state.ts that both commit through).
THEOREM SessionImplementsReplay == SessionSpec => Spec
<1>1. SessionInit => Init
  BY DEF SessionInit
<1> QED
  BY <1>1, SessionJournals, JournalAlways, PTL DEF SessionSpec, Spec

----
(* The workers.  What the journal says of one, and what docker has of it.   *)

RuntimeTypes ==
  /\ box \in [Attempts -> BoxStates]
  /\ late \subseteq ({"create", "start"} \X Attempts)
  /\ requests \in [Attempts -> Settlements]
  /\ follower \in [Attempts -> {"none", "watching", "stopped", "failed", "read"}]

\* Nothing of it ran before it was bound; dead, it neither runs nor can be
\* started; a start that may still come was bound, has no receipt, and whoever
\* sent it holds it uncertain or is gone; a monitor is told of a settled start
\* only, and reports an exit when there was one.
WorkerInv(a) ==
  /\ box[a] \in {"running", "exited"} => boundAt[a] # None
  /\ container[a] # None /\ ~Stopped(a) => boundAt[a] # None
  /\ Stopped(a) => box[a] # "running" /\ <<"start", a>> \notin late
  /\ <<"start", a>> \in late => /\ boundAt[a] # None /\ startedAt[a] = None
                                /\ requests[a] = "uncertain" \/ Over
  /\ follower[a] # "none" => requests[a] = "settled" /\ box[a] \in {"running", "exited"}
  /\ follower[a] = "stopped" => box[a] = "exited"
  /\ Over => requests[a] = "none" /\ follower[a] = "none"

RuntimeInv == RuntimeTypes /\ \A a \in Attempts : WorkerInv(a)

\* What the journal's step did to one worker: nothing that matters here, or
\* its death.
Buries(a) == proof'[a] # None /\ boundAt'[a] = boundAt[a] /\ startedAt'[a] = startedAt[a]
Calm(a) == Rests(a) \/ Prepares(a) \/ Binds(a) \/ (Stopped(a) /\ Buries(a))

\* What docker's step did to it: nothing.
Undisturbed(a) ==
  /\ box'[a] = box[a] /\ requests'[a] = requests[a] /\ follower'[a] = follower[a]
  /\ <<"start", a>> \in late' <=> <<"start", a>> \in late

LEMMA CalmKeeps ==
  ASSUME TypeOK, TypeOK', NEW a \in Attempts, WorkerInv(a), Calm(a), Undisturbed(a),
         Over' <=> Over
  PROVE  WorkerInv(a)'
<1>1. None \notin Times /\ lastAt' \in Times
  BY ConstantsAssumption, NoneAssumption DEF TypeOK
<1>2. CASE Rests(a) \/ Prepares(a)
  BY <1>2 DEF Rests, Prepares, WorkerInv, Undisturbed, Stopped
<1>3. CASE Binds(a)
  BY <1>1, <1>3 DEF Binds, WorkerInv, Undisturbed, Stopped
<1>4. CASE Stopped(a) /\ Buries(a)
  BY <1>4 DEF Buries, WorkerInv, Undisturbed, Stopped
<1> QED
  BY <1>2, <1>3, <1>4 DEF Calm

\* A death in the journal, when docker has shown it.
LEMMA BurialKeeps ==
  ASSUME NEW a \in Attempts, WorkerInv(a), Buries(a),
         box'[a] = IF box[a] = "running" THEN "exited" ELSE box[a],
         requests'[a] = requests[a], late' = late, <<"start", a>> \notin late,
         \/ follower'[a] = follower[a]
         \/ follower[a] = "stopped" /\ follower'[a] = "read",
         Over' <=> Over
  PROVE  WorkerInv(a)'
BY DEF Buries, WorkerInv, Stopped

\* The controller forgets its runtime when it ends.
LEMMA ForgettingKeeps ==
  ASSUME TypeOK, TypeOK', NEW a \in Attempts, WorkerInv(a), Calm(a),
         box'[a] = box[a], late' = late, RuntimeForgotten, Workers = Attempts, Over'
  PROVE  WorkerInv(a)'
<1>1. None \notin Times /\ lastAt' \in Times
  BY ConstantsAssumption, NoneAssumption DEF TypeOK
<1>2. requests'[a] = "none" /\ follower'[a] = "none"
  BY DEF RuntimeForgotten
<1>3. CASE Rests(a) \/ Prepares(a)
  BY <1>2, <1>3 DEF Rests, Prepares, WorkerInv, Stopped
<1>4. CASE Binds(a)
  BY <1>1, <1>2, <1>4 DEF Binds, WorkerInv, Stopped
<1>5. CASE Stopped(a) /\ Buries(a)
  BY <1>2, <1>5 DEF Buries, WorkerInv, Stopped
<1> QED
  BY <1>3, <1>4, <1>5 DEF Calm

LEMMA RestingCalm ==
  ASSUME UNCHANGED <<intents, binding, death>>
  PROVE  \A a \in Attempts : Calm(a)
BY DEF Calm, Rests, intents, binding, death

LEMMA VarsCalm ==
  ASSUME UNCHANGED vars
  PROVE  \A a \in Attempts : Calm(a)
BY RestingCalm DEF vars

LEMMA SessionStepsCalm ==
  ASSUME Launch \/ (\E outcome : Ended(outcome, 0))
  PROVE  \A a \in Attempts : Calm(a)
BY RestingCalm DEF Launch, Registered, Started, ControllerBound, Ended

LEMMA InventoryCalm ==
  ASSUME JournalInv, Running = {}, TerminationVerified(start, Recorded, 0)
  PROVE  \A a \in Attempts : Calm(a)
<1> SUFFICES ASSUME NEW a \in Attempts PROVE Calm(a)
  OBVIOUS
<1>1. CASE a \in Known
  <2>1. Stopped(a) /\ proof'[a] = Recorded[a].proof /\ Recorded[a].proof = proof[a]
    BY <1>1 DEF Running, TerminationVerified, Recorded
  <2> QED
    BY <2>1 DEF Calm, Buries, Stopped, TerminationVerified, binding
<1>2. CASE a \notin Known
  BY <1>2 DEF Calm, Rests, TerminationVerified, intents, binding
<1> QED
  BY <1>1, <1>2

LEMMA BlocksCalm ==
  ASSUME JournalInv
  PROVE  /\ \A b \in Blocks : AuditBlock(b) => \A a \in Attempts : Calm(a)
         /\ \A p \in Primaries : Exhaust(p) \/ ActivateBlock(p) => \A a \in Attempts : Calm(a)
<1>1. ASSUME NEW b \in Blocks, AuditBlock(b) PROVE \A a \in Attempts : Calm(a)
  <2>1. UNCHANGED vars => UNCHANGED <<intents, binding, death>>
    BY DEF vars
  <2>2. UNCHANGED <<intents, binding, death>>
    BY <1>1, <2>1 DEF AuditBlock, Commit, BlockInvalidated, BlockValidated
  <2> QED
    BY <2>2, RestingCalm
<1>2. ASSUME NEW p \in Primaries, Exhaust(p) PROVE \A a \in Attempts : Calm(a)
  <2>1. UNCHANGED vars => UNCHANGED <<intents, binding, death>>
    BY DEF vars
  <2>2. UNCHANGED <<intents, binding, death>>
    BY <1>2, <2>1 DEF Exhaust, Commit, BlockExhausted
  <2> QED
    BY <2>2, RestingCalm
<1>3. ASSUME NEW p \in Primaries, ActivateBlock(p) PROVE \A a \in Attempts : Calm(a)
  <2>1. CASE UNCHANGED vars
    BY <2>1, VarsCalm
  <2>2. ASSUME NEW b \in Blocks, NEW pred, Activate(b, p, pred, Ordinal(p), 0), Stamp(0),
               UNCHANGED <<binding, death>>
        PROVE  \A a \in Attempts : Calm(a)
    <3>1. \A a \in Attempts : Rests(a) \/ Prepares(a)
      BY <2>2, AnInstant, ActivationMoves DEF JournalInv
    <3> QED
      BY <3>1 DEF Calm
  <2>3. CASE BlockActivated(p, Ordinal(p), 0)
    BY <2>2, <2>3 DEF BlockActivated, Blocks
  <2>4. ASSUME NEW r \in Reserves, NEW cause, BlockReplaced(p, r, cause, Ordinal(p), 0)
        PROVE  \A a \in Attempts : Calm(a)
    BY <2>2, <2>4 DEF BlockReplaced, Blocks
  <2> QED
    BY <1>3, <2>1, <2>3, <2>4 DEF ActivateBlock, Commit
<1> QED
  BY <1>1, <1>2, <1>3

----
(* Docker's steps. *)

LEMMA BoxTypes ==
  ASSUME RuntimeTypes, NEW a \in Attempts
  PROVE  /\ \A state \in BoxStates : Become(a, state) => box' \in [Attempts -> BoxStates]
         /\ StopCommand(a) => box' \in [Attempts -> BoxStates]
         /\ \A kind \in {"create", "start"} : Lost(<<kind, a>>) =>
              /\ box' \in [Attempts -> BoxStates]
              /\ late' \subseteq ({"create", "start"} \X Attempts)
         /\ StopProves(a, StartSettled(a)) \/ StopProves(a, CancelSettled(a)) \/ StopUnresolved(a)
              => RuntimeTypes'
         /\ Proves(a) => RuntimeTypes'
<1>1. \A state \in BoxStates : Become(a, state) => box' \in [Attempts -> BoxStates]
  BY DEF Become, RuntimeTypes
<1>2. StopCommand(a) => box' \in [Attempts -> BoxStates]
  BY DEF StopCommand, Become, RuntimeTypes, BoxStates
<1>3. ASSUME NEW kind \in {"create", "start"}, Lost(<<kind, a>>)
      PROVE  /\ box' \in [Attempts -> BoxStates]
             /\ late' \subseteq ({"create", "start"} \X Attempts)
  <2>1. "created" \in BoxStates /\ "running" \in BoxStates
    BY DEF BoxStates
  <2>2. CASE Performs(<<kind, a>>) /\ UNCHANGED late
    BY <1>1, <2>1, <2>2 DEF Performs, RuntimeTypes
  <2>3. CASE late' = late \cup {<<kind, a>>} /\ UNCHANGED box
    BY <2>3 DEF RuntimeTypes
  <2> QED
    BY <1>3, <2>2, <2>3 DEF Lost, RuntimeTypes
<1>4. StopProves(a, StartSettled(a)) \/ StopProves(a, CancelSettled(a)) \/ StopUnresolved(a)
        => RuntimeTypes'
  BY <1>2 DEF StopProves, StopUnresolved, RuntimeTypes
<1>5. Proves(a) => RuntimeTypes'
  BY <1>4 DEF Proves, RuntimeTypes, runtime
<1> QED
  BY <1>1, <1>2, <1>3, <1>4, <1>5

LEMMA RuntimeTypesKept ==
  ASSUME RuntimeTypes, [SessionNext]_allVars
  PROVE  RuntimeTypes'
<1>1. Workers = Attempts
  BY ControllerAssumption
<1>2. CASE UNCHANGED runtime
  BY <1>2 DEF RuntimeTypes, runtime
<1>3. CASE RuntimeForgotten /\ UNCHANGED <<box, late>>
  BY <1>1, <1>3 DEF RuntimeTypes, RuntimeForgotten, Settlements
<1>4. ASSUME NEW a \in Attempts,
             \/ DrainFailed(a) \/ StopSibling(a) \/ AbortAttempt(a) \/ Reconcile(a)
      PROVE  RuntimeTypes'
  BY <1>2, <1>4, BoxTypes DEF DrainFailed, StopSibling, AbortAttempt, Reconcile, runtime
<1>5. ASSUME NEW a \in Attempts, DrainStopped(a) PROVE RuntimeTypes'
  BY <1>5 DEF DrainStopped, RuntimeTypes
<1>6. ASSUME NEW a \in Attempts, CreateContainer(a) \/ StartContainer(a) PROVE RuntimeTypes'
  <2>1. "created" \in BoxStates /\ "running" \in BoxStates
    BY DEF BoxStates
  <2>2. CASE CreateSucceeds(a)
    BY <2>1, <2>2, BoxTypes DEF CreateSucceeds, RuntimeTypes, Settlements
  <2>3. CASE CreateFails(a)
    BY <2>3, BoxTypes DEF CreateFails, RuntimeTypes
  <2>4. CASE StartSucceeds(a)
    BY <2>1, <2>4, BoxTypes DEF StartSucceeds, RuntimeTypes, Settlements
  <2>5. CASE StartFails(a)
    BY <2>5, BoxTypes DEF StartFails, RuntimeTypes, Settlements
  <2> QED
    BY <1>6, <2>2, <2>3, <2>4, <2>5 DEF CreateContainer, StartContainer
<1>7. CASE WorldStep
  <2>1. ASSUME NEW a \in Attempts, WorkerEnds(a) PROVE RuntimeTypes'
    BY <2>1, BoxTypes DEF WorkerEnds, RuntimeTypes, BoxStates
  <2>2. ASSUME NEW a \in Attempts, FollowerSees(a) \/ FollowerFails(a) PROVE RuntimeTypes'
    BY <2>2 DEF FollowerSees, FollowerFails, RuntimeTypes
  <2>3. CASE DaemonCatchesUp
    <3> PICK request \in late : /\ late' = late \ {request}
                                /\ Performs(request) \/ UNCHANGED box
                                /\ UNCHANGED <<requests, follower>>
      BY <2>3 DEF DaemonCatchesUp
    <3>1. request[2] \in Attempts
      BY DEF RuntimeTypes
    <3>2. "created" \in BoxStates /\ "running" \in BoxStates
      BY DEF BoxStates
    <3>3. box' \in [Attempts -> BoxStates]
      BY <3>1, <3>2, BoxTypes DEF Performs, RuntimeTypes
    <3> QED
      BY <3>3 DEF RuntimeTypes
  <2> QED
    BY <1>7, <2>1, <2>2, <2>3 DEF WorldStep
<1>8. CASE UNCHANGED allVars
  BY <1>2, <1>8 DEF allVars
<1>9. CASE Launch \/ Throw \/ Drained \/ AuditDone \/ Resolve \/ Complete \/ Sleep \/ WaitSpacing
  BY <1>2, <1>9 DEF Launch, Throw, Drained, AuditDone, Resolve, Complete, Sleep, WaitSpacing
<1>10. \A a \in Attempts : Bind(a) \/ Receipt(a) => UNCHANGED runtime
  BY DEF Bind, Receipt
<1>11. /\ \A b \in Blocks : AuditBlock(b) => UNCHANGED runtime
       /\ \A p \in Primaries : Exhaust(p) \/ ActivateBlock(p) => UNCHANGED runtime
  BY DEF AuditBlock, Exhaust, ActivateBlock
<1>12. CASE AbortEnd
  BY <1>2, <1>3, <1>12 DEF AbortEnd, runtime
<1>13. CASE Finish \/ Crash
  BY <1>3, <1>13 DEF Finish, Crash
<1>14. CASE Cancel \/ CancelEnds
  BY <1>2, <1>14 DEF Cancel, CancelEnds
<1> QED
  BY <1>2, <1>4, <1>5, <1>6, <1>7, <1>8, <1>9, <1>10, <1>11, <1>12, <1>13, <1>14
     DEF SessionNext, ControllerStep, CancellerStep

----
(* Stopping a worker. *)

HaltsAt(a) ==
  /\ box'[a] = box[a] \/ (box[a] = "running" /\ box'[a] = "exited")
  /\ requests' = requests /\ late' = late
  /\ follower'[a] = follower[a] \/ (follower[a] = "stopped" /\ follower'[a] = "read")
  /\ \A o \in Attempts \ {a} : box'[o] = box[o] /\ follower'[o] = follower[o]

BuriesOnly(a) == Buries(a) /\ \A o \in Attempts \ {a} : Rests(o)

LEMMA StopCommandHalts ==
  ASSUME RuntimeTypes, NEW a \in Attempts
  PROVE  /\ Proves(a) => HaltsAt(a) /\ box'[a] # "running" /\ requests[a] # "uncertain"
         /\ StopUnresolved(a) => HaltsAt(a)
         /\ StopProves(a, CancelSettled(a)) =>
              /\ HaltsAt(a) /\ box'[a] # "running"
              /\ requests[a] = "none" => CancelSettled(a) # "uncertain"
         /\ Absent(a) /\ UNCHANGED runtime => HaltsAt(a) /\ box'[a] # "running"
<1> DEFINE Sent == box' = [box EXCEPT ![a] = IF box[a] = "running" THEN "exited" ELSE box[a]]
           Same == requests' = requests /\ late' = late /\ follower' = follower
<1>1. StopCommand(a) => Sent
  BY DEF StopCommand, Become
<1>2. Sent => /\ box'[a] = IF box[a] = "running" THEN "exited" ELSE box[a]
              /\ \A o \in Attempts \ {a} : box'[o] = box[o]
  BY DEF RuntimeTypes
<1> HIDE DEF Sent
<1>3. Sent /\ Same => HaltsAt(a) /\ box'[a] # "running"
  BY <1>2 DEF HaltsAt
<1>4. UNCHANGED runtime => HaltsAt(a)
  BY DEF runtime, HaltsAt
<1>5. \A journal : StopProves(a, journal) =>
        /\ HaltsAt(a) /\ box'[a] # "running"
        /\ requests[a] # "none" => requests[a] # "uncertain"
        /\ requests[a] = "none" => journal # "uncertain"
  BY <1>1, <1>3 DEF StopProves, Settled
<1>6. StopUnresolved(a) => HaltsAt(a)
  <2>1. StopUnresolved(a) => Same /\ (StopCommand(a) \/ UNCHANGED box)
    BY DEF StopUnresolved
  <2>2. UNCHANGED box /\ Same => UNCHANGED runtime
    BY DEF runtime
  <2> QED
    BY <1>1, <1>3, <1>4, <2>1, <2>2
<1>7. Absent(a) /\ UNCHANGED runtime =>
        HaltsAt(a) /\ box'[a] # "running" /\ requests[a] # "uncertain"
  BY <1>4 DEF Absent, runtime
<1>8. Proves(a) => HaltsAt(a) /\ box'[a] # "running" /\ requests[a] # "uncertain"
  BY <1>5, <1>7 DEF Proves
<1> QED
  BY <1>5, <1>6, <1>7, <1>8

LEMMA BurialOnly ==
  ASSUME TypeOK, NEW a \in Attempts, NEW p \in Proofs, NEW c, NEW o,
         AttemptObserved(a, o, None, p, c, 0, 0) \/ AccountingObserved(a, p, c, 0, 0)
  PROVE  BuriesOnly(a)
<1>1. Bury(a, p, c, 0) /\ UNCHANGED <<intents, binding>>
  BY DEF AttemptObserved, AccountingObserved
<1>2. Buries(a)
  BY <1>1, NoneAssumption DEF Bury, Buries, TypeOK, binding
<1>3. \A x \in Attempts \ {a} : Rests(x)
  BY <1>1 DEF Bury, Rests, TypeOK, intents, binding
<1> QED
  BY <1>2, <1>3 DEF BuriesOnly

LEMMA HaltKeeps ==
  ASSUME TypeOK, TypeOK', NEW a \in Attempts, \A o \in Attempts : WorkerInv(o), HaltsAt(a),
         Over' <=> Over,
         \/ UNCHANGED vars
         \/ BuriesOnly(a) /\ box'[a] # "running" /\ <<"start", a>> \notin late
  PROVE  \A o \in Attempts : WorkerInv(o)'
<1>1. ASSUME NEW o \in Attempts \ {a} PROVE WorkerInv(o)'
  <2>1. Calm(o)
    BY VarsCalm DEF BuriesOnly, Calm
  <2>2. Undisturbed(o)
    BY DEF HaltsAt, Undisturbed
  <2> QED
    BY <2>1, <2>2, CalmKeeps
<1>2. WorkerInv(a)'
  <2>0. /\ box'[a] = box[a] \/ (box[a] = "running" /\ box'[a] = "exited")
        /\ follower'[a] = follower[a] \/ (follower[a] = "stopped" /\ follower'[a] = "read")
        /\ requests' = requests /\ late' = late
    BY DEF HaltsAt
  <2>1. CASE UNCHANGED vars
    <3>1. /\ boundAt' = boundAt /\ container' = container /\ proof' = proof
          /\ startedAt' = startedAt
      BY <2>1 DEF vars, binding, death
    <3> QED
      BY <2>0, <3>1 DEF WorkerInv, Stopped
  <2>2. CASE BuriesOnly(a) /\ box'[a] # "running" /\ <<"start", a>> \notin late
    BY <2>0, <2>2 DEF BuriesOnly, Buries, WorkerInv, Stopped
  <2> QED
    BY <2>1, <2>2
<1> QED
  BY <1>1, <1>2

\* The controller's stops: of one that reported, one whose monitor failed, a
\* sibling, and every one left at the end.
LEMMA ControllerStops ==
  ASSUME TypeOK, TypeOK', RuntimeInv, NEW a \in Attempts,
         DrainStopped(a) \/ DrainFailed(a) \/ StopSibling(a) \/ AbortAttempt(a)
  PROVE  \A o \in Attempts : WorkerInv(o)'
<1>1. ~Over /\ ~Over'
  BY DEF DrainStopped, DrainFailed, StopSibling, AbortAttempt, Commit, Go, Over
<1>2. WorkerInv(a) /\ RuntimeTypes /\ \A o \in Attempts : WorkerInv(o)
  BY DEF RuntimeInv
<1>3. ProofOf(a) \in Proofs /\ "inspected_stopped" \in Proofs
  BY ProofTypes
<1>4. CASE HaltsAt(a) /\ UNCHANGED vars
  BY <1>1, <1>2, <1>4, HaltKeeps
<1>5. CASE HaltsAt(a) /\ BuriesOnly(a) /\ box'[a] # "running" /\ requests[a] # "uncertain"
  <2>1. <<"start", a>> \notin late
    BY <1>1, <1>2, <1>5 DEF WorkerInv
  <2> QED
    BY <1>1, <1>2, <1>5, <2>1, HaltKeeps
<1>6. CASE DrainStopped(a)
  <2>1. /\ HaltsAt(a) /\ box'[a] # "running" /\ requests[a] # "uncertain"
    BY <1>2, <1>6 DEF DrainStopped, HaltsAt, RuntimeTypes, WorkerInv
  <2>2. UNCHANGED vars
        \/ \E o \in Seen(a) : AttemptObserved(a, o, None, "inspected_stopped", a, 0, 0)
    BY <1>6 DEF DrainStopped, Commit
  <2> QED
    BY <1>3, <1>4, <1>5, <2>1, <2>2, BurialOnly
<1>7. CASE DrainFailed(a)
  <2>1. CASE UNCHANGED runtime /\ UNCHANGED vars
    BY <1>4, <2>1 DEF HaltsAt, runtime
  <2>2. CASE StopUnresolved(a) /\ UNCHANGED vars
    BY <1>2, <1>4, <2>2, StopCommandHalts
  <2>3. CASE Proves(a) /\ (\/ UNCHANGED vars
                          \/ AttemptObserved(a, Indeterminate, None, ProofOf(a), ContainerOf(a), 0, 0))
    BY <1>2, <1>3, <1>4, <1>5, <2>3, BurialOnly, StopCommandHalts
  <2> QED
    BY <1>7, <2>1, <2>2, <2>3 DEF DrainFailed, Commit
<1>8. CASE StopSibling(a)
  <2>1. CASE StopUnresolved(a) /\ UNCHANGED vars
    BY <1>2, <1>4, <2>1, StopCommandHalts
  <2>2. CASE Proves(a) /\ (\/ UNCHANGED vars
                          \/ \E o \in Seen(a) :
                               AttemptObserved(a, o, None, ProofOf(a), ContainerOf(a), 0, 0))
    BY <1>2, <1>3, <1>4, <1>5, <2>2, BurialOnly, StopCommandHalts
  <2> QED
    BY <1>8, <2>1, <2>2 DEF StopSibling, Commit
<1>9. CASE AbortAttempt(a)
  <2>1. CASE StopUnresolved(a) /\ UNCHANGED vars
    BY <1>2, <1>4, <2>1, StopCommandHalts
  <2>2. CASE Proves(a) /\ (\/ UNCHANGED vars
                          \/ AccountingObserved(a, ProofOf(a), ContainerOf(a), 0, 0))
    BY <1>2, <1>3, <1>4, <1>5, <2>2, BurialOnly, StopCommandHalts
  <2> QED
    BY <1>9, <2>1, <2>2 DEF AbortAttempt, Commit
<1> QED
  BY <1>6, <1>7, <1>8, <1>9

\* The canceller's: it goes by the journal, and a start that was bound and has
\* no receipt it never settles.
LEMMA CancellerStops ==
  ASSUME TypeOK, TypeOK', RuntimeInv, NEW a \in Attempts, Reconcile(a)
  PROVE  \A o \in Attempts : WorkerInv(o)'
<1>1. Over /\ (Over' <=> Over)
  BY DEF Reconcile, Over
<1>2. WorkerInv(a) /\ RuntimeTypes /\ \A o \in Attempts : WorkerInv(o)
  BY DEF RuntimeInv
<1>3. "verified_absent" \in Proofs /\ "inspected_stopped" \in Proofs
  BY ProofTypes
<1>4. CASE HaltsAt(a) /\ UNCHANGED vars
  BY <1>1, <1>2, <1>4, HaltKeeps
<1>5. CASE HaltsAt(a) /\ BuriesOnly(a) /\ box'[a] # "running" /\ <<"start", a>> \notin late
  BY <1>1, <1>2, <1>5, HaltKeeps
<1>6. CASE /\ Absent(a) /\ UNCHANGED runtime
           /\ boundAt[a] # None => startedAt[a] # None
           /\ UNCHANGED vars \/ AccountingObserved(a, "verified_absent", container[a], 0, 0)
  <2>1. HaltsAt(a) /\ box'[a] # "running"
    BY <1>2, <1>6, StopCommandHalts
  <2>2. <<"start", a>> \notin late
    BY <1>2, <1>6 DEF WorkerInv
  <2> QED
    BY <1>3, <1>4, <1>5, <1>6, <2>1, <2>2, BurialOnly
<1>7. CASE /\ StopProves(a, CancelSettled(a))
           /\ UNCHANGED vars \/ AccountingObserved(a, "inspected_stopped", a, 0, 0)
  <2>1. HaltsAt(a) /\ box'[a] # "running" /\ CancelSettled(a) # "uncertain"
    BY <1>1, <1>2, <1>7, StopCommandHalts DEF WorkerInv
  <2>2. <<"start", a>> \notin late
    BY <1>2, <2>1 DEF WorkerInv, CancelSettled
  <2> QED
    BY <1>3, <1>4, <1>5, <1>7, <2>1, <2>2, BurialOnly
<1> QED
  BY <1>6, <1>7 DEF Reconcile, CancelCommit

----
(* Creating and starting a worker, and the daemon's own steps. *)

\* The rest of the workers, when a step of docker's is about one.
Aside(a) ==
  /\ UNCHANGED vars
  /\ \A o \in Attempts \ {a} : Undisturbed(o)

LEMMA AsideKeeps ==
  ASSUME TypeOK, TypeOK', NEW a \in Attempts, \A o \in Attempts : WorkerInv(o), Aside(a),
         Over' <=> Over, WorkerInv(a)'
  PROVE  \A o \in Attempts : WorkerInv(o)'
<1>1. ASSUME NEW o \in Attempts \ {a} PROVE WorkerInv(o)'
  BY VarsCalm, CalmKeeps DEF Aside
<1> QED
  BY <1>1

LEMMA SameLedger ==
  ASSUME UNCHANGED vars
  PROVE  boundAt' = boundAt /\ container' = container /\ proof' = proof /\ startedAt' = startedAt
BY DEF vars, binding, death

LEMMA CreationKeeps ==
  ASSUME JournalInv, TypeOK', RuntimeInv, NEW a \in Attempts, CreateContainer(a)
  PROVE  \A o \in Attempts : WorkerInv(o)'
<1>1. ~Over /\ ~Over' /\ UNCHANGED vars
  BY DEF CreateContainer, Go, Over
<1>2. WorkerInv(a) /\ RuntimeTypes /\ \A o \in Attempts : WorkerInv(o)
  BY DEF RuntimeInv
<1>3. /\ follower' = follower
      /\ \A o \in Attempts \ {a} : box'[o] = box[o] /\ requests'[o] = requests[o]
      /\ \A o \in Attempts : <<"start", o>> \in late' <=> <<"start", o>> \in late
      /\ \/ box'[a] = box[a] /\ requests'[a] = requests[a]
         \/ box[a] = "none" /\ box'[a] = "created" /\ requests'[a] \in {requests[a], "never-issued"}
  <2>1. CASE CreateSucceeds(a)
    BY <1>2, <2>1 DEF CreateSucceeds, Become, RuntimeTypes
  <2>2. CASE CreateFails(a)
    BY <1>2, <2>2 DEF CreateFails, Lost, Performs, Become, RuntimeTypes
  <2> QED
    BY <2>1, <2>2 DEF CreateContainer
<1>4. Aside(a)
  BY <1>1, <1>3 DEF Aside, Undisturbed
<1>5. boundAt[a] = None
  BY DEF CreateContainer, Unbound, JournalInv, LinesInv, InLine
<1>6. WorkerInv(a)'
  BY <1>1, <1>2, <1>3, <1>5, SameLedger DEF WorkerInv, Stopped
<1> QED
  BY <1>1, <1>2, <1>4, <1>6, AsideKeeps DEF JournalInv

LEMMA StartKeeps ==
  ASSUME JournalInv, TypeOK', RuntimeInv, NEW a \in Attempts, StartContainer(a)
  PROVE  \A o \in Attempts : WorkerInv(o)'
<1>1. ~Over /\ ~Over' /\ UNCHANGED vars
  BY DEF StartContainer, Go, Over
<1>2. WorkerInv(a) /\ RuntimeTypes /\ \A o \in Attempts : WorkerInv(o)
  BY DEF RuntimeInv
<1>3. container[a] # None /\ startedAt[a] = None /\ ~Stopped(a)
  BY DEF StartContainer, ToStart, Running
<1>4. box[a] = "created" /\ requests[a] = "never-issued"
  BY DEF StartContainer, StartSucceeds, StartFails, Startable
<1>5. CASE StartSucceeds(a)
  <2>1. /\ box'[a] = "running" /\ requests'[a] = "settled" /\ follower'[a] = "watching"
        /\ late' = late
        /\ \A o \in Attempts \ {a} : /\ box'[o] = box[o] /\ requests'[o] = requests[o]
                                     /\ follower'[o] = follower[o]
    BY <1>2, <1>5 DEF StartSucceeds, Become, RuntimeTypes
  <2>2. Aside(a)
    BY <1>1, <2>1 DEF Aside, Undisturbed
  <2>3. WorkerInv(a)'
    BY <1>1, <1>2, <1>3, <1>4, <2>1, SameLedger DEF WorkerInv, Stopped
  <2> QED
    BY <1>1, <1>2, <2>2, <2>3, AsideKeeps DEF JournalInv
<1>6. CASE StartFails(a)
  <2>1. /\ requests'[a] = "uncertain" /\ follower' = follower
        /\ \A o \in Attempts \ {a} : box'[o] = box[o] /\ requests'[o] = requests[o]
        /\ \A o \in Attempts \ {a} : <<"start", o>> \in late' <=> <<"start", o>> \in late
        /\ box'[a] \in {"created", "running"}
    BY <1>2, <1>4, <1>6 DEF StartFails, Lost, Performs, Become, RuntimeTypes
  <2>2. Aside(a)
    BY <1>1, <2>1 DEF Aside, Undisturbed
  <2>3. WorkerInv(a)'
    BY <1>1, <1>2, <1>3, <1>4, <2>1, SameLedger DEF WorkerInv, Stopped
  <2> QED
    BY <1>1, <1>2, <2>2, <2>3, AsideKeeps DEF JournalInv
<1> QED
  BY <1>5, <1>6 DEF StartContainer

LEMMA ReceiptKeeps ==
  ASSUME JournalInv, TypeOK', RuntimeInv, NEW a \in Attempts, Receipt(a)
  PROVE  \A o \in Attempts : WorkerInv(o)'
<1>1. ~Over /\ ~Over' /\ UNCHANGED runtime
  BY DEF Receipt, Commit, Go, Over
<1>2. WorkerInv(a) /\ RuntimeTypes /\ \A o \in Attempts : WorkerInv(o)
  BY DEF RuntimeInv
<1>3. \A o \in Attempts : Undisturbed(o)
  BY <1>1 DEF Undisturbed, runtime
<1>4. CASE UNCHANGED vars
  BY <1>1, <1>2, <1>3, <1>4, VarsCalm, CalmKeeps DEF JournalInv
<1>5. CASE RuntimeStarted(a, 0, 0)
  <2>1. /\ boundAt' = boundAt /\ container' = container /\ proof' = proof
        /\ \A o \in Attempts \ {a} : startedAt'[o] = startedAt[o]
        /\ UNCHANGED intents /\ stoppedAt' = stoppedAt
    BY <1>5 DEF RuntimeStarted, death, JournalInv, TypeOK
  <2>2. ASSUME NEW o \in Attempts \ {a} PROVE WorkerInv(o)'
    <3>1. Calm(o)
      BY <2>1 DEF Calm, Rests, intents
    <3> QED
      BY <1>1, <1>2, <1>3, <3>1, CalmKeeps DEF JournalInv
  <2>3. requests[a] = "settled"
    BY DEF Receipt
  <2>4. WorkerInv(a)'
    BY <1>1, <1>2, <1>3, <2>1, <2>3 DEF WorkerInv, Undisturbed, Stopped
  <2> QED
    BY <2>2, <2>4
<1> QED
  BY <1>4, <1>5 DEF Receipt, Commit

LEMMA WorldKeeps ==
  ASSUME JournalInv, TypeOK', RuntimeInv, WorldStep
  PROVE  \A o \in Attempts : WorkerInv(o)'
<1>1. UNCHANGED vars /\ (Over' <=> Over)
  BY DEF WorldStep, Over
<1>2. RuntimeTypes /\ \A o \in Attempts : WorkerInv(o)
  BY DEF RuntimeInv
<1>3. ASSUME NEW a \in Attempts, WorkerEnds(a) \/ FollowerSees(a) \/ FollowerFails(a)
      PROVE  \A o \in Attempts : WorkerInv(o)'
  <2>1. /\ requests' = requests /\ late' = late
        /\ \A o \in Attempts \ {a} : box'[o] = box[o] /\ follower'[o] = follower[o]
        /\ \/ box[a] = "running" /\ box'[a] = "exited" /\ follower' = follower
           \/ /\ box' = box /\ follower[a] = "watching"
              /\ \/ follower'[a] = "failed"
                 \/ follower'[a] = "stopped" /\ box[a] = "exited"
    BY <1>2, <1>3 DEF WorkerEnds, FollowerSees, FollowerFails, Become, RuntimeTypes
  <2>2. Aside(a)
    BY <1>1, <2>1 DEF Aside, Undisturbed
  <2>3. WorkerInv(a)
    BY <1>2
  <2>4. WorkerInv(a)'
    BY <1>1, <2>1, <2>3, SameLedger DEF WorkerInv, Stopped
  <2> QED
    BY <1>1, <1>2, <2>2, <2>4, AsideKeeps DEF JournalInv
<1>4. CASE DaemonCatchesUp
  <2> PICK request \in late : /\ late' = late \ {request}
                              /\ (Performs(request) \/ UNCHANGED box)
                              /\ UNCHANGED <<requests, follower>>
    BY <1>4 DEF DaemonCatchesUp
  <2> PICK kind \in {"create", "start"}, a \in Attempts : request = <<kind, a>>
    BY <1>2 DEF RuntimeTypes
  <2>1. /\ \A o \in Attempts \ {a} : box'[o] = box[o]
        /\ \A o \in Attempts \ {a} : <<"start", o>> \in late' <=> <<"start", o>> \in late
        /\ <<"start", a>> \in late' => <<"start", a>> \in late
        /\ requests' = requests /\ follower' = follower
        /\ \/ box'[a] = box[a]
           \/ box[a] = "none" /\ box'[a] = "created"
           \/ box[a] = "created" /\ box'[a] = "running" /\ <<"start", a>> \in late
    BY <1>2 DEF Performs, Become, RuntimeTypes
  <2>2. Aside(a)
    BY <1>1, <2>1 DEF Aside, Undisturbed
  <2>3. WorkerInv(a)
    BY <1>2
  <2>4. WorkerInv(a)'
    BY <1>1, <2>1, <2>3, SameLedger DEF WorkerInv, Stopped
  <2> QED
    BY <1>1, <1>2, <2>2, <2>4, AsideKeeps DEF JournalInv
<1> QED
  BY <1>3, <1>4 DEF WorldStep

----
(* Every other step leaves docker and the workers' lives alone, or ends the  *)
(* controller.                                                               *)

LEMMA CommitsCalm ==
  ASSUME JournalInv,
         \/ Launch \/ Complete \/ AbortEnd \/ Finish \/ CancelEnds
         \/ \E b \in Blocks : AuditBlock(b)
         \/ \E p \in Primaries : Exhaust(p) \/ ActivateBlock(p)
  PROVE  \A a \in Attempts : Calm(a)
<1> DEFINE Quiet == \A a \in Attempts : Calm(a)
<1>1. UNCHANGED vars => Quiet
  BY VarsCalm
<1>2. \A outcome : Ended(outcome, 0) => Quiet
  BY SessionStepsCalm
<1>3. Running = {} /\ TerminationVerified(start, Recorded, 0) => Quiet
  BY InventoryCalm
<1>4. Launch => Quiet
  BY SessionStepsCalm
<1>5. /\ \A b \in Blocks : AuditBlock(b) => Quiet
      /\ \A p \in Primaries : Exhaust(p) \/ ActivateBlock(p) => Quiet
  BY BlocksCalm
<1> HIDE DEF Quiet
<1>6. Complete => Quiet
  BY <1>1, <1>2 DEF Complete, Commit
<1>7. AbortEnd => Quiet
  BY <1>1, <1>2 DEF AbortEnd, Commit
<1>8. Finish => Quiet
  BY <1>1, <1>3 DEF Finish, Commit, Closable
<1>9. CancelEnds => Quiet
  BY <1>1, <1>2, <1>3 DEF CancelEnds, CancelCommit
<1>10. Quiet
  BY <1>4, <1>5, <1>6, <1>7, <1>8, <1>9
<1> QED
  BY <1>10 DEF Quiet

LEMMA BindCalm ==
  ASSUME TypeOK, NEW a \in Attempts, Bind(a)
  PROVE  \A o \in Attempts : Calm(o)
<1>1. CASE UNCHANGED vars
  BY <1>1, VarsCalm
<1>2. CASE RuntimeBound(a, a, 0)
  <2>1. Binds(a)
    BY <1>2, NoneAssumption, ControllerAssumption
       DEF RuntimeBound, CanBind, Stamp, Binds, Stopped, TypeOK, intents, Known
  <2>2. \A o \in Attempts \ {a} : Rests(o)
    BY <1>2 DEF RuntimeBound, Rests, TypeOK, intents
  <2> QED
    BY <2>1, <2>2 DEF Calm
<1> QED
  BY <1>1, <1>2 DEF Bind, Commit

\* Steps that leave docker and its clients alone.
LEMMA QuietSteps ==
  ASSUME \/ UNCHANGED allVars
         \/ Launch \/ Throw \/ Drained \/ AuditDone \/ Resolve \/ Complete \/ Sleep
         \/ WaitSpacing \/ (AbortEnd /\ pc' # "done") \/ Cancel \/ CancelEnds
         \/ \E a \in Attempts : Bind(a)
         \/ \E b \in Blocks : AuditBlock(b)
         \/ \E p \in Primaries : Exhaust(p) \/ ActivateBlock(p)
  PROVE  UNCHANGED runtime /\ (Over' <=> Over)
<1>1. UNCHANGED allVars => UNCHANGED runtime /\ (Over' <=> Over)
  BY DEF allVars, Over
<1>2. Launch \/ Throw \/ AuditDone \/ Resolve \/ Complete \/ Sleep \/ WaitSpacing
        => UNCHANGED runtime /\ (Over' <=> Over)
  BY DEF Launch, Throw, AuditDone, Resolve, Complete, Sleep, WaitSpacing, Settling, Guarded,
         Commit, Go, Over
<1>3. Drained => UNCHANGED runtime /\ (Over' <=> Over)
  <2>1. Resume \in {"start", "create", "audit"}
    BY DEF Resume
  <2> QED
    BY <2>1 DEF Drained, Go, Over
<1>4. AbortEnd /\ pc' # "done" => UNCHANGED runtime /\ (Over' <=> Over)
  BY DEF AbortEnd, Commit, Go, Over, runtime
<1>5. Cancel \/ CancelEnds => UNCHANGED runtime /\ (Over' <=> Over)
  BY DEF Cancel, CancelEnds, Over
<1>6. \A a \in Attempts : Bind(a) => UNCHANGED runtime /\ (Over' <=> Over)
  BY DEF Bind, Commit, Go, Over
<1>7. \A b \in Blocks : AuditBlock(b) => UNCHANGED runtime /\ (Over' <=> Over)
  BY DEF AuditBlock, Commit, Go, Over
<1>8. \A p \in Primaries : Exhaust(p) \/ ActivateBlock(p) => UNCHANGED runtime /\ (Over' <=> Over)
  BY DEF Exhaust, ActivateBlock, Settling, Commit, Go, Over
<1> QED
  BY <1>1, <1>2, <1>3, <1>4, <1>5, <1>6, <1>7, <1>8

LEMMA QuietCalm ==
  ASSUME \/ UNCHANGED allVars
         \/ Throw \/ Drained \/ AuditDone \/ Resolve \/ Sleep \/ WaitSpacing \/ Cancel
  PROVE  UNCHANGED vars
BY DEF allVars, Throw, Drained, AuditDone, Resolve, Sleep, WaitSpacing, Cancel

\* Steps at which the controller's runtime is forgotten.
LEMMA EndingKeeps ==
  ASSUME JournalInv, TypeOK', RuntimeInv, Crash \/ Finish \/ (AbortEnd /\ pc' = "done")
  PROVE  \A o \in Attempts : WorkerInv(o)'
<1>1. /\ RuntimeForgotten /\ box' = box /\ late' = late /\ Over'
  BY DEF Crash, Finish, AbortEnd, Commit, Go, Over
<1>2. \A a \in Attempts : Calm(a)
  <2>1. CASE Crash
    BY <2>1, VarsCalm DEF Crash
  <2>2. CASE Finish \/ AbortEnd
    BY <2>2, CommitsCalm
  <2> QED
    BY <2>1, <2>2
<1> QED
  BY <1>1, <1>2, ForgettingKeeps, ControllerAssumption DEF RuntimeInv, JournalInv

LEMMA RuntimeKept ==
  ASSUME JournalInv, RuntimeInv, [SessionNext]_allVars
  PROVE  RuntimeInv'
<1>1. RuntimeTypes'
  BY RuntimeTypesKept DEF RuntimeInv
<1>2. TypeOK /\ TypeOK'
  BY JournalKept DEF JournalInv
<1> DEFINE Kept == \A o \in Attempts : WorkerInv(o)'
<1>3. ASSUME \A a \in Attempts : Calm(a), UNCHANGED runtime, Over' <=> Over PROVE Kept
  <2>1. \A a \in Attempts : Undisturbed(a)
    BY <1>3 DEF Undisturbed, runtime
  <2> QED
    BY <1>2, <1>3, <2>1, CalmKeeps DEF RuntimeInv
<1>4. ASSUME \/ UNCHANGED allVars
             \/ Throw \/ Drained \/ AuditDone \/ Resolve \/ Sleep \/ WaitSpacing \/ Cancel
      PROVE  Kept
  <2>1. UNCHANGED runtime /\ (Over' <=> Over)
    BY <1>4, QuietSteps
  <2>2. \A a \in Attempts : Calm(a)
    BY <1>4, QuietCalm, VarsCalm
  <2> QED
    BY <1>3, <2>1, <2>2
<1>5. ASSUME \/ Launch \/ Complete \/ (AbortEnd /\ pc' # "done") \/ CancelEnds
             \/ \E b \in Blocks : AuditBlock(b)
             \/ \E p \in Primaries : Exhaust(p) \/ ActivateBlock(p)
      PROVE  Kept
  <2>1. UNCHANGED runtime /\ (Over' <=> Over)
    BY <1>5, QuietSteps
  <2>2. \A a \in Attempts : Calm(a)
    BY <1>5, CommitsCalm
  <2> QED
    BY <1>3, <2>1, <2>2
<1>6. ASSUME NEW a \in Attempts, Bind(a) PROVE Kept
  <2>1. UNCHANGED runtime /\ (Over' <=> Over)
    BY <1>6, QuietSteps
  <2>2. \A o \in Attempts : Calm(o)
    BY <1>2, <1>6, BindCalm
  <2> QED
    BY <1>3, <2>1, <2>2
<1>7. ASSUME Crash \/ Finish \/ (AbortEnd /\ pc' = "done") PROVE Kept
  BY <1>2, <1>7, EndingKeeps
<1>8. ASSUME NEW a \in Attempts,
             \/ DrainStopped(a) \/ DrainFailed(a) \/ StopSibling(a) \/ AbortAttempt(a)
             \/ CreateContainer(a) \/ StartContainer(a) \/ Receipt(a) \/ Reconcile(a)
      PROVE  Kept
  BY <1>2, <1>8, ControllerStops, CancellerStops, CreationKeeps, StartKeeps, ReceiptKeeps
<1>9. WorldStep => Kept
  BY <1>2, WorldKeeps
<1> HIDE DEF Kept
<1>10. Kept
  BY <1>4, <1>5, <1>6, <1>7, <1>8, <1>9 DEF SessionNext, ControllerStep, CancellerStep
<1> QED
  BY <1>1, <1>10 DEF RuntimeInv, Kept

LEMMA RuntimeAlways == SessionSpec => []RuntimeInv
<1>1. SessionInit => RuntimeInv
  <2> SUFFICES ASSUME SessionInit PROVE RuntimeInv
    OBVIOUS
  <2>1. RuntimeTypes
    BY ControllerAssumption DEF SessionInit, RuntimeInit, RuntimeTypes, BoxStates, Settlements
  <2>2. ASSUME NEW a \in Attempts PROVE WorkerInv(a)
    BY ControllerAssumption
       DEF SessionInit, RuntimeInit, Init, WorkerInv, Stopped, Over
  <2> QED
    BY <2>1, <2>2 DEF RuntimeInv
<1> QED
  BY <1>1, RuntimeKept, JournalAlways, PTL DEF SessionSpec

\* WorkersAreKnown: a proof of death in the journal is true and stays true, no
\* worker runs before its container is bound, and nothing outlives a terminated
\* campaign, whatever docker clients timed out, whenever the controller died,
\* and whether it or the canceller took the proof (controller.ts, cancellation.ts
\* and the runtime of container-spawner.ts).
THEOREM WorkersAreKnownAlways == SessionSpec => []WorkersAreKnown
<1>1. JournalInv /\ RuntimeInv => WorkersAreKnown
  <2> SUFFICES ASSUME JournalInv, RuntimeInv PROVE WorkersAreKnown
    OBVIOUS
  <2>1. DeathIsReal /\ BoundBeforeRunning
    BY DEF RuntimeInv, WorkerInv, DeathIsReal, BoundBeforeRunning
  <2>2. ASSUME terminated, NEW a \in Attempts
        PROVE  box[a] # "running" /\ <<"start", a>> \notin late
    <3>1. CASE a \in Known
      BY <2>2, <3>1 DEF JournalInv, ClosedInv, RuntimeInv, WorkerInv
    <3>2. CASE a \notin Known
      <4>1. boundAt[a] = None
        BY <3>2 DEF JournalInv, LinesInv, InLine, Known
      <4> QED
        BY <4>1 DEF RuntimeInv, WorkerInv
    <3> QED
      BY <3>1, <3>2
  <2> QED
    BY <2>1, <2>2 DEF WorkersAreKnown, NothingOutlives
<1> QED
  BY <1>1, JournalAlways, RuntimeAlways, PTL

----
(* The host. *)

\* Only an activation adds to the attempts, and only these end the campaign.
LEMMA SessionStepFrame ==
  ASSUME [SessionNext]_allVars
  PROVE  /\ UNCHANGED blockOf \/ \E p \in Primaries : ActivateBlock(p)
         /\ UNCHANGED ended \/ Complete \/ AbortEnd \/ CancelEnds
<1> DEFINE Same == UNCHANGED <<blockOf, ended>>
           Frame == /\ UNCHANGED blockOf \/ \E p \in Primaries : ActivateBlock(p)
                    /\ UNCHANGED ended \/ Complete \/ AbortEnd \/ CancelEnds
<1>1. UNCHANGED vars => Same
  BY DEF vars, session, intents
<1>2. /\ Registered(0) => Same
      /\ \A s : Started(s, 0) => Same
      /\ \A s, proc : ControllerBound(s, proc, 0) => Same
      /\ \A outcome : Ended(outcome, 0) => UNCHANGED blockOf
      /\ \A s, stops : TerminationVerified(s, stops, 0) => Same
  BY DEF Registered, Started, ControllerBound, Ended, TerminationVerified, intents
<1>3. /\ \A b : BlockValidated(b, 0) => Same
      /\ \A b, cause : BlockInvalidated(b, cause, 0) => Same
      /\ \A p, cause : BlockExhausted(p, cause, 0) => Same
      /\ \A p, number : BlockActivated(p, number, 0) => UNCHANGED ended
      /\ \A p, r, cause, number : BlockReplaced(p, r, cause, number, 0) => UNCHANGED ended
  BY DEF BlockValidated, BlockInvalidated, BlockExhausted, BlockActivated, BlockReplaced,
     intents, session
<1>4. /\ \A a, c : RuntimeBound(a, c, 0) => Same
      /\ \A a, t : RuntimeStarted(a, t, 0) => Same
      /\ \A a, o, cause, p, c, t : AttemptObserved(a, o, cause, p, c, t, 0) => Same
      /\ \A a, p, c, t : AccountingObserved(a, p, c, t, 0) => Same
  BY DEF RuntimeBound, RuntimeStarted, AttemptObserved, AccountingObserved, intents, session
<1>5. Same => Frame
  OBVIOUS
<1>6. UNCHANGED vars => UNCHANGED blockOf /\ UNCHANGED ended
  BY <1>1
<1> HIDE DEF Same
<1>7. CASE UNCHANGED allVars
  BY <1>1, <1>5, <1>7 DEF allVars
<1>8. CASE \/ Throw \/ Drained \/ AuditDone \/ Resolve \/ Sleep \/ WaitSpacing \/ Cancel \/ Crash
           \/ WorldStep
  BY <1>1, <1>5, <1>8, QuietCalm DEF Crash, WorldStep
<1>9. CASE Launch
  BY <1>2, <1>5, <1>9 DEF Launch
<1>10. CASE Complete
  BY <1>2, <1>6, <1>10 DEF Complete, Commit
<1>11. CASE AbortEnd
  BY <1>2, <1>6, <1>11 DEF AbortEnd, Commit
<1>12. CASE Finish
  BY <1>1, <1>2, <1>5, <1>12 DEF Finish, Commit
<1>13. CASE CancelEnds
  <2>1. UNCHANGED blockOf
    BY <1>2, <1>6, <1>13 DEF CancelEnds, CancelCommit, Same
  <2> QED
    BY <1>13, <2>1
<1>14. ASSUME NEW a \in Attempts,
              \/ DrainStopped(a) \/ DrainFailed(a) \/ StopSibling(a) \/ AbortAttempt(a)
              \/ CreateContainer(a) \/ StartContainer(a) \/ Receipt(a) \/ Reconcile(a) \/ Bind(a)
       PROVE  Frame
  BY <1>1, <1>4, <1>5, <1>14
     DEF DrainStopped, DrainFailed, StopSibling, AbortAttempt, CreateContainer, StartContainer,
         Receipt, Reconcile, Bind, Commit, CancelCommit
<1>15. ASSUME NEW b \in Blocks, AuditBlock(b) PROVE Frame
  BY <1>1, <1>3, <1>5, <1>15 DEF AuditBlock, Commit
<1>16. ASSUME NEW p \in Primaries, Exhaust(p) PROVE Frame
  BY <1>1, <1>3, <1>5, <1>16 DEF Exhaust, Commit
<1>17. ASSUME NEW p \in Primaries, ActivateBlock(p) PROVE Frame
  <2>1. UNCHANGED ended
    BY <1>3, <1>6, <1>17 DEF ActivateBlock, Commit
  <2> QED
    BY <1>17, <2>1
<1> QED
  BY <1>7, <1>8, <1>9, <1>10, <1>11, <1>12, <1>13, <1>14, <1>15, <1>16, <1>17
     DEF SessionNext, ControllerStep, CancellerStep

LEMMA FiniteAttempts ==
  /\ IsFiniteSet(Attempts) /\ IsFiniteSet(Running)
  /\ \A p \in Primaries : IsFiniteSet(SlotsOf(p)) /\ Cardinality(SlotsOf(p)) \in Nat
<1>1. IsFiniteSet(1..MaxAttempts)
  BY ConstantsAssumption, FS_Interval
<1>2. IsFiniteSet(Attempts)
  BY <1>1, ControllerAssumption, FS_Product DEF Attempts
<1>3. Running \subseteq Attempts
  BY DEF Running
<1>4. \A p \in Primaries : SlotsOf(p) \subseteq Samples
  BY DEF SlotsOf
<1>5. \A p \in Primaries : IsFiniteSet(SlotsOf(p))
  BY <1>4, ControllerAssumption, FS_Subset
<1> QED
  BY <1>2, <1>3, <1>5, FS_Subset, FS_CardinalityType

\* The attempts of a new block are as many as its slots, or fewer.
LEMMA NewMembers ==
  ASSUME NEW p \in Primaries, NEW number
  PROVE  LET ids == {<<s, number[s]>> : s \in SlotsOf(p)} IN
         IsFiniteSet(ids) /\ Cardinality(ids) <= Cardinality(SlotsOf(p))
<1> DEFINE ids == {<<s, number[s]>> : s \in SlotsOf(p)}
           f == [s \in SlotsOf(p) |-> <<s, number[s]>>]
<1>1. f \in Surjection(SlotsOf(p), ids)
  BY DEF Surjection
<1> HIDE DEF ids, f
<1>2. IsFiniteSet(ids) /\ Cardinality(ids) <= Cardinality(SlotsOf(p))
  BY <1>1, FiniteAttempts, FS_Surjection
<1> QED
  BY <1>2 DEF ids

\* What holds a place on the host: an attempt not known to be dead.
CapInv == Cardinality(Running) <= RunCap

LEMMA CapKept ==
  ASSUME JournalInv, CapInv, [SessionNext]_allVars
  PROVE  CapInv'
<1>0. RunCap \in Nat /\ Cardinality(Running) \in Nat
  BY ControllerAssumption, FiniteAttempts, FS_CardinalityType
<1>1. [Next]_vars /\ TypeOK
  BY SessionJournals DEF JournalInv
<1>2. \A a \in Attempts : Stopped(a) => Stopped(a)'
  BY <1>1, LivesAreFinal
<1>3. CASE UNCHANGED blockOf
  <2>1. Running' \subseteq Running
    BY <1>2, <1>3 DEF Running, Known
  <2>2. Cardinality(Running') <= Cardinality(Running)
    BY <2>1, FiniteAttempts, FS_Subset
  <2>3. Cardinality(Running') \in Nat
    BY <2>1, FiniteAttempts, FS_Subset, FS_CardinalityType
  <2> QED
    BY <1>0, <2>2, <2>3 DEF CapInv
<1>4. ASSUME NEW p \in Primaries, ActivateBlock(p) PROVE CapInv'
  <2>1. CASE UNCHANGED vars
    BY <1>3, <2>1 DEF vars, intents
  <2>2. ASSUME NEW b, NEW pred, Activate(b, p, pred, Ordinal(p), 0) PROVE CapInv'
    <3> DEFINE number == Ordinal(p)
               ids == {<<s, number[s]>> : s \in SlotsOf(p)}
    <3>1. blockOf' = [a \in Attempts |-> IF a \in ids THEN b ELSE blockOf[a]]
      BY <2>2 DEF Activate
    <3> HIDE DEF number
    <3>2. IsFiniteSet(ids) /\ Cardinality(ids) <= Cardinality(SlotsOf(p))
      BY NewMembers
    <3> HIDE DEF ids
    <3>3. Running' \subseteq Running \cup ids
      BY <1>2, <3>1 DEF Running, Known
    <3>4. /\ IsFiniteSet(Running \cup ids)
          /\ Cardinality(Running \cup ids)
               = Cardinality(Running) + Cardinality(ids) - Cardinality(Running \cap ids)
      BY <3>2, FiniteAttempts, FS_Union
    <3>5. /\ Cardinality(Running') <= Cardinality(Running \cup ids)
          /\ IsFiniteSet(Running')
      BY <3>3, <3>4, FS_Subset
    <3>6. IsFiniteSet(Running \cap ids)
      BY <3>2, FS_Subset
    <3>7. /\ Cardinality(ids) \in Nat /\ Cardinality(Running \cap ids) \in Nat
          /\ Cardinality(Running') \in Nat /\ Cardinality(SlotsOf(p)) \in Nat
      BY <3>2, <3>5, <3>6, FiniteAttempts, FS_CardinalityType
    <3>8. Cardinality(Running) + Cardinality(SlotsOf(p)) <= RunCap
      BY <1>4 DEF ActivateBlock, Fits
    <3>9. Cardinality(Running') <= RunCap
      BY <1>0, <3>2, <3>4, <3>5, <3>7, <3>8
    <3> QED
      BY <3>9 DEF CapInv
  <2>3. BlockActivated(p, Ordinal(p), 0) => CapInv'
    BY <2>2 DEF BlockActivated
  <2>4. ASSUME NEW r, NEW cause, BlockReplaced(p, r, cause, Ordinal(p), 0) PROVE CapInv'
    BY <2>2, <2>4 DEF BlockReplaced
  <2> QED
    BY <1>4, <2>1, <2>3, <2>4 DEF ActivateBlock, Commit
<1> QED
  BY <1>3, <1>4, SessionStepFrame

\* HostIsShared: the workers running are never more than the cap, and two
\* generations of one pair never run side by side, for any cap, any pairs and any
\* number of faults (controller.ts: an attempt holds its place until its death is
\* in the journal).
THEOREM HostIsSharedAlways == SessionSpec => []HostIsShared
<1>1. SessionInit => CapInv
  <2> SUFFICES ASSUME SessionInit PROVE CapInv
    OBVIOUS
  <2>1. Running = {}
    BY DEF SessionInit, Init, Running, Known
  <2> QED
    BY <2>1, FS_EmptySet, ControllerAssumption DEF CapInv
<1>2. SessionSpec => []CapInv
  BY <1>1, CapKept, JournalAlways, PTL DEF SessionSpec
<1>3. JournalInv /\ RuntimeInv /\ CapInv => HostIsShared
  <2> SUFFICES ASSUME JournalInv, RuntimeInv, CapInv PROVE HostIsShared
    OBVIOUS
  <2> DEFINE running == {a \in Attempts : box[a] = "running"}
  <2>1. running \subseteq Running
    BY DEF JournalInv, LinesInv, InLine, RuntimeInv, WorkerInv, Running, Known
  <2>2. Cardinality(running) <= RunCap
    <3>1. Cardinality(running) <= Cardinality(Running) /\ IsFiniteSet(running)
      BY <2>1, FiniteAttempts, FS_Subset
    <3>2. Cardinality(running) \in Nat /\ Cardinality(Running) \in Nat /\ RunCap \in Nat
      BY <3>1, FiniteAttempts, FS_CardinalityType, ControllerAssumption
    <3> QED
      BY <3>1, <3>2 DEF CapInv
  <2>3. ASSUME NEW a \in running PROVE blockOf[a] = selected[PrimaryOf[Sample(a)]]
    <3> DEFINE b == blockOf[a]
    <3>1. a \in Attempts /\ a \in Known /\ ~Stopped(a)
      BY <2>1 DEF Running
    <3>2. b \in Activated /\ a \in Members(b)
      BY <3>1 DEF JournalInv, PlanInv, BlocksAreWhole, Members
    <3>3. selected[blockPrimary[b]] = b
      BY <3>1, <3>2 DEF JournalInv, SupersededIsOver
    <3>4. PICK n \in 1..MaxAttempts : Members(b) = {<<s, n>> : s \in SlotsOf(blockPrimary[b])}
      BY <3>2 DEF JournalInv, PlanInv, BlocksAreWhole
    <3>5. Sample(a) \in SlotsOf(blockPrimary[b])
      BY <3>2, <3>4 DEF Sample
    <3>6. PrimaryOf[Sample(a)] = blockPrimary[b]
      BY <3>5 DEF SlotsOf
    <3> QED
      BY <3>3, <3>6
  <2> QED
    BY <2>2, <2>3 DEF HostIsShared
<1> QED
  BY <1>2, <1>3, JournalAlways, RuntimeAlways, PTL

----
(* Completion. *)

Honest(p) == exhausted[p] # None \/ CausesOf(selected[p]) = {}

\* In the final audit every pair is answered, or its answer was taken back.
FinalInv ==
  pc = "final" => \A p \in Primaries :
                    selected[p] # None /\ (Honest(p) \/ excluded[selected[p]] # None)

\* The final audit is entered when every pair is answered, and in it only an
\* audit changes the journal before the end.
LEMMA FinalFrame ==
  ASSUME [SessionNext]_allVars, pc' = "final"
  PROVE  Resolve \/ (pc = "final" /\ (UNCHANGED vars \/ \E b \in Blocks : AuditBlock(b)))
<1>1. CASE UNCHANGED allVars
  BY <1>1 DEF allVars
<1>2. CASE WorldStep \/ Cancel
  BY <1>2 DEF WorldStep, Cancel
<1>3. ~Crash /\ ~Throw /\ ~AuditDone /\ ~Sleep /\ ~WaitSpacing /\ ~Launch
  BY DEF Crash, Throw, AuditDone, Sleep, WaitSpacing, Launch, Go
<1>4. ~Drained
  BY DEF Drained, Resume, Go
<1>5. ~Complete /\ ~AbortEnd /\ ~Finish
  BY DEF Complete, AbortEnd, Finish, Commit, Go
<1>6. CASE CancelEnds \/ \E a \in Attempts : Reconcile(a)
  BY <1>6 DEF CancelEnds, Reconcile, Over
<1>7. \A a \in Attempts :
        /\ ~DrainStopped(a) /\ ~DrainFailed(a) /\ ~StopSibling(a) /\ ~AbortAttempt(a)
        /\ ~CreateContainer(a) /\ ~StartContainer(a) /\ ~Receipt(a) /\ ~Bind(a)
  BY DEF DrainStopped, DrainFailed, StopSibling, AbortAttempt, CreateContainer, StartContainer,
         Receipt, Bind, Commit, Go
<1>8. \A b \in Blocks : AuditBlock(b) => pc = "final"
  BY DEF AuditBlock, Commit, Go
<1>9. \A p \in Primaries : ~Exhaust(p) /\ ~ActivateBlock(p)
  BY DEF Exhaust, ActivateBlock, Commit, Go
<1> QED
  BY <1>1, <1>2, <1>3, <1>4, <1>5, <1>6, <1>7, <1>8, <1>9
     DEF SessionNext, ControllerStep, CancellerStep

LEMMA FinalKept ==
  ASSUME JournalInv, FinalInv, [SessionNext]_allVars
  PROVE  FinalInv'
<1> SUFFICES ASSUME pc' = "final", NEW p \in Primaries
             PROVE  selected'[p] # None /\ (Honest(p)' \/ excluded'[selected'[p]] # None)
  BY DEF FinalInv
<1>1. CASE Resolve
  <2>1. Answered(p)
    BY <1>1 DEF Resolve
  <2>2. UNCHANGED <<blockOf, observation, excluded, selected, exhausted>>
    BY <1>1 DEF Resolve, vars, plan, audit, intents, evidence
  <2>3. CausesOf(selected[p])' = CausesOf(selected[p])
    BY <2>2 DEF CausesOf, Members
  <2> QED
    BY <2>1, <2>2, <2>3 DEF Answered, Honest
<1>2. CASE pc = "final"
  <2>1. selected[p] # None /\ (Honest(p) \/ excluded[selected[p]] # None)
    BY <1>2 DEF FinalInv
  <2>2. selected[p] \in Blocks
    BY <2>1 DEF JournalInv, TypeOK
  <2>3. CASE UNCHANGED <<blockOf, observation, selected, exhausted>>
             /\ excluded'[selected[p]] \in {excluded[selected[p]]} \cup ValidityCauses
    <3>1. CASE excluded'[selected[p]] = excluded[selected[p]]
      <4>1. CausesOf(selected[p])' = CausesOf(selected[p])
        BY <2>3, <3>1 DEF CausesOf, Members
      <4> QED
        BY <2>1, <2>3, <3>1, <4>1 DEF Honest
    <3>2. CASE excluded'[selected[p]] \in ValidityCauses
      BY <2>1, <2>3, <3>2, NoneAssumption DEF Causes
    <3> QED
      BY <2>3, <3>1, <3>2
  <2>4. CASE UNCHANGED vars
    BY <2>3, <2>4 DEF vars, plan, audit, intents, evidence
  <2>5. ASSUME NEW b \in Blocks, AuditBlock(b)
        PROVE  UNCHANGED vars
               \/ (/\ UNCHANGED <<blockOf, observation, selected, exhausted>>
                   /\ excluded'[selected[p]] \in {excluded[selected[p]]} \cup ValidityCauses)
    <3>1. ASSUME NEW cause \in ValidityCauses, BlockInvalidated(b, cause, 0)
          PROVE  /\ UNCHANGED <<blockOf, observation, selected, exhausted>>
                 /\ excluded'[selected[p]] \in {excluded[selected[p]]} \cup ValidityCauses
      BY <2>2, <3>1 DEF BlockInvalidated, Exclude, FirstReason, plan, intents, evidence,
         JournalInv, TypeOK
    <3>2. BlockValidated(b, 0) => /\ UNCHANGED <<blockOf, observation, selected, exhausted>>
                                 /\ excluded' = excluded
      BY DEF BlockValidated, plan, intents, evidence
    <3> QED
      BY <2>5, <3>1, <3>2 DEF AuditBlock, Commit
  <2> QED
    BY <1>1, <2>3, <2>4, <2>5, FinalFrame
<1> QED
  BY <1>1, <1>2, FinalFrame

LEMMA HonestyKept ==
  ASSUME JournalInv, FinalInv, HonestCompletion, [SessionNext]_allVars
  PROVE  HonestCompletion'
<1> SUFFICES ASSUME ended' = "completed", NEW p \in Primaries PROVE Honest(p)'
  BY DEF HonestCompletion, Honest
<1>0. UNCHANGED <<blockOf, observation, excluded, selected, exhausted>> /\ Honest(p) => Honest(p)'
  BY DEF Honest, CausesOf, Members
<1>1. CASE ended = "completed"
  <2>1. ended # None
    BY <1>1, NoneAssumption DEF Outcomes
  <2>2. UNCHANGED <<plan, audit, intents, observation>>
    BY <2>1, SessionJournals, EndFreezes
  <2>3. Honest(p)
    BY <1>1 DEF HonestCompletion, Honest
  <2> QED
    BY <1>0, <2>2, <2>3 DEF plan, audit, intents
<1>2. CASE ended # "completed"
  <2>1. ended' # ended
    BY <1>2
  <2>2. AbortOutcome # "completed"
    BY DEF AbortOutcome
  <2>3. UNCHANGED vars => ended' = ended
    BY DEF vars, session
  <2>4. ~AbortEnd
    BY <2>1, <2>2, <2>3 DEF AbortEnd, Commit, Ended
  <2>5. ~CancelEnds
    BY <2>1, <2>2, <2>3 DEF CancelEnds, CancelCommit, Ended, TerminationVerified
  <2>6. Complete
    BY <2>1, <2>4, <2>5, SessionStepFrame
  <2>7. pc = "final" /\ ~Reopened /\ Ended("completed", 0)
    BY <2>1, <2>3, <2>6 DEF Complete, Commit
  <2>8. Honest(p)
    BY <2>7 DEF FinalInv, Reopened, Honest
  <2> QED
    BY <1>0, <2>7, <2>8 DEF Ended, plan, audit, intents, evidence
<1> QED
  BY <1>1, <1>2

\* HonestCompletion: a campaign is called complete only when no pair it counts has
\* an attempt that failed for a reason of the instrument, although the replay
\* policy alone would let one pass (controller.ts: the selection before the end,
\* the final audit, and the answers that it takes back).
THEOREM HonestCompletionAlways == SessionSpec => []HonestCompletion
<1>1. SessionInit => FinalInv /\ HonestCompletion
  BY NoneAssumption DEF SessionInit, Init, FinalInv, HonestCompletion, Outcomes
<1>2. SessionSpec => []FinalInv
  BY <1>1, FinalKept, JournalAlways, PTL DEF SessionSpec
<1> QED
  BY <1>1, <1>2, HonestyKept, JournalAlways, PTL DEF SessionSpec

----
(* Refusals.  What the journal keeps besides, and the fold goes by. *)

\* An attempt known is of a block of its sample's primary, which has a selected one.
LEMMA KnownSlot ==
  ASSUME TypeOK, PlanInv, NEW a \in Known
  PROVE  /\ a \in Attempts /\ a = <<Sample(a), Number(a)>>
         /\ blockOf[a] \in Activated /\ a \in Members(blockOf[a])
         /\ PrimaryOf[Sample(a)] = blockPrimary[blockOf[a]]
         /\ PrimaryOf[Sample(a)] \in Primaries /\ selected[PrimaryOf[Sample(a)]] # None
<1> DEFINE b == blockOf[a]
<1>1. a \in Attempts /\ a = <<Sample(a), Number(a)>> /\ b \in Activated /\ a \in Members(b)
  BY DEF Known, PlanInv, BlocksAreWhole, Members, Attempts, Sample, Number
<1>2. PICK n \in 1..MaxAttempts : Members(b) = {<<s, n>> : s \in SlotsOf(blockPrimary[b])}
  BY <1>1 DEF PlanInv, BlocksAreWhole
<1>3. Sample(a) \in SlotsOf(blockPrimary[b])
  BY <1>1, <1>2 DEF Sample
<1>4. PrimaryOf[Sample(a)] = blockPrimary[b]
  BY <1>3 DEF SlotsOf
<1>5. blockPrimary[b] \in Primaries /\ selected[blockPrimary[b]] # None
  BY <1>1 DEF TypeOK, Activated, PlanInv, BlocksAreWhole
<1> QED
  BY <1>1, <1>4, <1>5

\* A selected block is its primary's newest: no attempt of its samples is later.
Newest(p) ==
  \A a \in Members(selected[p]), o \in Known : Sample(o) = Sample(a) => Number(o) <= Number(a)
NewestInv == \A p \in Primaries : selected[p] # None => Newest(p)

LEMMA ActivationNewest ==
  ASSUME TypeOK, PlanInv, NewestInv, NEW at \in Times, NEW p \in Primaries, NEW b \in Blocks,
         NEW pred, NEW number \in [SlotsOf(p) -> 1..MaxAttempts], Activate(b, p, pred, number, at),
         \A o \in Known : Sample(o) \in SlotsOf(p) => Number(o) <= number[Sample(o)]
  PROVE  NewestInv'
<1> DEFINE ids == {<<s, number[s]>> : s \in SlotsOf(p)}
<1>1. /\ \A x \in Blocks \ {b} : Members(x)' = Members(x)
      /\ Members(b)' = ids
      /\ \A q \in Primaries : selected'[q] = IF q = p THEN b ELSE selected[q]
  BY ActivationMembers
<1>2. \A o \in Known' : o \in Known \/ o \in ids
  BY DEF Activate, Known
<1>3. \A o \in ids : Sample(o) \in SlotsOf(p) /\ Number(o) = number[Sample(o)]
  BY DEF Sample, Number
<1>4. \A s \in SlotsOf(p) : number[s] \in Nat
  OBVIOUS
<1> HIDE DEF ids
<1> SUFFICES ASSUME NEW q \in Primaries, selected'[q] # None,
                    NEW a \in Members(selected[q])', NEW o \in Known', Sample(o) = Sample(a)
             PROVE  Number(o) <= Number(a)
  BY DEF NewestInv, Newest
<1>5. CASE q = p
  <2>1. a \in ids
    BY <1>1, <1>5
  <2> QED
    BY <1>2, <1>3, <1>4, <2>1
<1>6. CASE q # p
  <2>1. selected'[q] = selected[q] /\ selected[q] \in Activated /\ blockPrimary[selected[q]] = q
    BY <1>1, <1>6 DEF PlanInv
  <2>2. selected[q] # b
    BY <2>1 DEF Activate, CanActivate, Activated
  <2>3. a \in Members(selected[q])
    BY <1>1, <2>1, <2>2 DEF Activated
  <2>4. blockOf[a] = selected[q] /\ a \in Known
    BY <2>1, <2>3, NoneAssumption DEF Members, Known, Activated
  <2>5. PrimaryOf[Sample(a)] = q
    BY <2>1, <2>4, KnownSlot
  <2>6. o \in Known
    BY <1>2, <1>3, <1>6, <2>5 DEF SlotsOf
  <2> QED
    BY <2>1, <2>3, <2>6 DEF NewestInv, Newest, Activated
<1> QED
  BY <1>5, <1>6

LEMMA NewestKept ==
  ASSUME TypeOK, PlanInv, NewestInv, [Next]_vars
  PROVE  NewestInv'
<1>1. CASE UNCHANGED <<blockPrimary, selected, consumed, blockOf>>
  BY <1>1 DEF NewestInv, Newest, Members, Known
<1>2. CASE ActivationStep
  <2> PICK at \in Times, p \in Primaries :
        \E number \in [SlotsOf(p) -> 1..MaxAttempts] : BlockActivated(p, number, at)
    BY <1>2 DEF ActivationStep
  <2> PICK number \in [SlotsOf(p) -> 1..MaxAttempts] : BlockActivated(p, number, at)
    OBVIOUS
  <2>1. p \in Blocks /\ Activate(p, p, None, number, at) /\ selected[p] = None
    BY DEF BlockActivated, CanBegin, Blocks
  <2>2. \A o \in Known : Sample(o) \notin SlotsOf(p)
    BY <2>1, KnownSlot DEF SlotsOf
  <2> QED
    BY <2>1, <2>2, ActivationNewest
<1>3. CASE ReplacementStep
  <2> PICK at \in Times, p \in Primaries, r \in Reserves, cause \in ReplacementCauses :
        \E number \in [SlotsOf(p) -> 1..MaxAttempts] : BlockReplaced(p, r, cause, number, at)
    BY <1>3 DEF ReplacementStep
  <2> PICK number \in [SlotsOf(p) -> 1..MaxAttempts] : BlockReplaced(p, r, cause, number, at)
    OBVIOUS
  <2> DEFINE pred == selected[p]
  <2>1. r \in Blocks /\ Activate(r, p, pred, number, at) /\ pred # None
    BY DEF BlockReplaced, CanReplace, Blocks
  <2>2. ASSUME NEW o \in Known, Sample(o) \in SlotsOf(p)
        PROVE  Number(o) <= number[Sample(o)]
    <3> DEFINE s == Sample(o)
               a == <<s, number[s] - 1>>
    <3>1. number[s] > 1 /\ blockOf[a] = pred
      BY <2>1, <2>2 DEF Activate, CanActivate, Numbered
    <3>2. number[s] \in 1..MaxAttempts /\ MaxAttempts \in Nat /\ s \in Samples
      BY <2>2, ConstantsAssumption DEF SlotsOf
    <3>3. number[s] - 1 \in 1..MaxAttempts
      BY <3>1, <3>2
    <3>4. a \in Members(pred) /\ Sample(a) = s /\ Number(a) = number[s] - 1
      BY <3>1, <3>2, <3>3 DEF Members, Attempts, Sample, Number
    <3>5. Number(o) <= Number(a)
      BY <2>1, <3>4 DEF NewestInv, Newest
    <3>6. Number(o) \in Nat
      BY DEF Known, Attempts, Number
    <3> QED
      BY <3>2, <3>4, <3>5, <3>6
  <2> QED
    BY <2>1, <2>2, ActivationNewest
<1> QED
  BY <1>1, <1>2, <1>3, PlanFrame

AccountingStep ==
  \E at \in Times, a \in Known, r \in StopRecords :
    AccountingObserved(a, r.proof, r.container, r.at, at)

LEMMA AccountFrame ==
  ASSUME [Next]_vars
  PROVE  UNCHANGED accounted \/ AccountingStep
<1>1. CASE UNCHANGED vars
  BY <1>1 DEF vars, evidence
<1>2. ASSUME NEW at \in Times, SessionStep(at) \/ BlockStep(at) PROVE UNCHANGED accounted
  BY <1>2 DEF SessionStep, BlockStep, Registered, Started, ControllerBound, Ended,
     TerminationVerified, BlockActivated, BlockReplaced, BlockValidated, BlockInvalidated,
     BlockExhausted, evidence
<1>3. ASSUME NEW at \in Times, AttemptStep(at) PROVE UNCHANGED accounted \/ AccountingStep
  <2>1. /\ \A a, c : RuntimeBound(a, c, at) => UNCHANGED accounted
        /\ \A a, t : RuntimeStarted(a, t, at) => UNCHANGED accounted
        /\ \A a, o, cause, p, c, t : AttemptObserved(a, o, cause, p, c, t, at)
                                       => UNCHANGED accounted
    BY DEF RuntimeBound, RuntimeStarted, AttemptObserved, evidence
  <2> QED
    BY <1>3, <2>1 DEF AttemptStep, AccountingStep
<1> QED
  BY <1>1, <1>2, <1>3 DEF Next

\* A proof of death names a container when there is one, and an account is of the dead.
ProvedInv ==
  \A a \in Attempts : /\ Stopped(a) => ProofNames(proof[a], container[a])
                      /\ accounted[a] => Stopped(a)

LEMMA ProvedKept ==
  ASSUME TypeOK, ProvedInv, [Next]_vars
  PROVE  ProvedInv'
<1>1. \A a \in Attempts : Stopped(a) => Stopped(a)'
  BY LivesAreFinal
<1>2. ASSUME NEW a \in Attempts, Stopped(a)' PROVE ProofNames(proof'[a], container'[a])
  <2>1. CASE UNCHANGED death
    BY <1>2, <2>1 DEF death, Stopped, ProvedInv
  <2>2. CASE BindingStep
    BY <1>2, <2>2 DEF BindingStep, RuntimeBound, CanBind, Stopped, ProvedInv, TypeOK
  <2>3. CASE BurialStep
    <3> PICK at \in Times, x \in Known, r \in StopRecords : Bury(x, r.proof, r.container, r.at)
      BY <2>3 DEF BurialStep
    <3>1. CASE a = x
      BY <3>1, StopRecordType DEF Bury, TypeOK
    <3>2. CASE a # x
      BY <1>2, <3>2 DEF Bury, TypeOK, Stopped, ProvedInv
    <3> QED
      BY <3>1, <3>2
  <2>4. CASE InventoryStep
    <3> PICK at \in Times, s \in StartIds, stops \in [Known -> StopRecords] :
               TerminationVerified(s, stops, at)
      BY <2>4 DEF InventoryStep
    <3>1. CASE a \in Known
      BY <3>1, StopRecordType DEF TerminationVerified
    <3>2. CASE a \notin Known
      BY <1>2, <3>2 DEF TerminationVerified, Stopped, ProvedInv
    <3> QED
      BY <3>1, <3>2
  <2> QED
    BY <2>1, <2>2, <2>3, <2>4, DeathFrame
<1>3. ASSUME NEW a \in Attempts, accounted'[a], ~accounted[a] PROVE Stopped(a)'
  <2> PICK at \in Times, x \in Known, r \in StopRecords :
             AccountingObserved(x, r.proof, r.container, r.at, at)
    BY <1>3, AccountFrame DEF AccountingStep
  <2>1. a = x /\ Bury(x, r.proof, r.container, r.at)
    BY <1>3 DEF AccountingObserved, TypeOK
  <2> QED
    BY <2>1, StopRecordType DEF Bury, Stopped, TypeOK
<1> QED
  BY <1>1, <1>2, <1>3 DEF ProvedInv

----
(* What a session keeps between its commits. *)

\* Where the controller has neither ended the campaign nor given it up.
Loop == Guarded \cup {"launch", "receipt"}

NamedInv ==
  /\ lastAt = 0
  /\ \A a \in Attempts : container[a] \in {None, a}
BoundInv ==
  /\ start # None => registered
  /\ controller # None => start # None
  /\ pc # "launch" \/ cancel => controller # None
OpenInv ==
  /\ pc \in Loop => ended = None /\ \A a \in Attempts : Stopped(a) => observation[a] # None
  /\ pc = "finish" => ended # None
  /\ terminated => Over
AnsweredInv ==
  pc = "final" => \A p \in Primaries :
                    selected[p] # None /\ (exhausted[p] # None \/ receipt[selected[p]])

\* Every commit is stamped with the one instant, names a worker by its own
\* container, and leaves the session's controller as it is.
LEMMA CommitFrame ==
  ASSUME TypeOK, [SessionNext]_allVars
  PROVE  /\ lastAt' \in {lastAt, 0}
         /\ \A a \in Attempts : container'[a] \in {None, a, container[a]}
         /\ UNCHANGED <<registered, start, controller>> \/ Launch
<1> DEFINE Bound == UNCHANGED <<registered, start, controller>>
           Plain == lastAt' \in {lastAt, 0}
           Named == \A a \in Attempts : container'[a] \in {None, a, container[a]}
           Frame == Plain /\ Named /\ (Bound \/ Launch)
<1> SUFFICES Frame
  OBVIOUS
<1>1. UNCHANGED vars => Frame
  BY DEF vars, session, death
<1>2. /\ Registered(0) => Plain /\ Named
      /\ \A s : Started(s, 0) => Plain /\ Named
      /\ \A s, proc : ControllerBound(s, proc, 0) => Plain /\ Named
      /\ \A outcome : Ended(outcome, 0) => Frame
  BY DEF Registered, Started, ControllerBound, Ended, Stamp, death
<1>3. TerminationVerified(start, Recorded, 0) => Frame
  BY DEF TerminationVerified, Recorded, Stamp
<1>4. /\ \A b : BlockValidated(b, 0) => Frame
      /\ \A b, cause : BlockInvalidated(b, cause, 0) => Frame
      /\ \A p, cause : BlockExhausted(p, cause, 0) => Frame
      /\ \A p, number : BlockActivated(p, number, 0) => Frame
      /\ \A p, r, cause, number : BlockReplaced(p, r, cause, number, 0) => Frame
  BY DEF BlockValidated, BlockInvalidated, BlockExhausted, BlockActivated, BlockReplaced, Stamp,
     session, death
<1>5. /\ \A a : RuntimeBound(a, a, 0) => Frame
      /\ \A a, t : RuntimeStarted(a, t, 0) => Frame
  BY DEF RuntimeBound, RuntimeStarted, Stamp, session, death, TypeOK
<1>6. ASSUME NEW a \in Attempts, NEW p, NEW c \in {a, container[a]},
             \/ AccountingObserved(a, p, c, 0, 0)
             \/ \E o : AttemptObserved(a, o, None, p, c, 0, 0)
      PROVE  Frame
  <2>1. Bury(a, p, c, 0) /\ Stamp(0) /\ UNCHANGED session
    BY <1>6 DEF AccountingObserved, AttemptObserved
  <2> QED
    BY <2>1 DEF Bury, Stamp, session, TypeOK
<1>20. Launch => Frame
  BY <1>2 DEF Launch
<1> HIDE DEF Bound, Plain, Named, Frame
<1>7. CASE UNCHANGED allVars
  BY <1>1, <1>7 DEF allVars
<1>8. CASE \/ Throw \/ Drained \/ AuditDone \/ Resolve \/ Sleep \/ WaitSpacing \/ Cancel \/ Crash
           \/ WorldStep
  BY <1>1, <1>8, QuietCalm DEF Crash, WorldStep
<1>10. CASE Complete \/ AbortEnd \/ Finish \/ CancelEnds
  BY <1>1, <1>2, <1>3, <1>10 DEF Complete, AbortEnd, Finish, CancelEnds, Commit, CancelCommit
<1>11. ASSUME NEW a \in Attempts, DrainStopped(a) \/ DrainFailed(a) \/ StopSibling(a)
       PROVE  Frame
  <2>1. ContainerOf(a) \in {a, container[a]}
    BY DEF ContainerOf
  <2> QED
    BY <1>1, <1>6, <1>11, <2>1 DEF DrainStopped, DrainFailed, StopSibling, Commit
<1>12. ASSUME NEW a \in Attempts, AbortAttempt(a) \/ Reconcile(a)
       PROVE  Frame
  <2>1. ContainerOf(a) \in {a, container[a]}
    BY DEF ContainerOf
  <2> QED
    BY <1>1, <1>6, <1>12, <2>1 DEF AbortAttempt, Reconcile, Commit, CancelCommit
<1>13. ASSUME NEW a \in Attempts, CreateContainer(a) \/ StartContainer(a) \/ Receipt(a) \/ Bind(a)
       PROVE  Frame
  BY <1>1, <1>5, <1>13 DEF CreateContainer, StartContainer, Receipt, Bind, Commit
<1>14. ASSUME NEW b \in Blocks, AuditBlock(b) PROVE Frame
  BY <1>1, <1>4, <1>14 DEF AuditBlock, Commit
<1>15. ASSUME NEW p \in Primaries, Exhaust(p) \/ ActivateBlock(p) PROVE Frame
  BY <1>1, <1>4, <1>15 DEF Exhaust, ActivateBlock, Commit
<1> QED
  BY <1>20, <1>7, <1>8, <1>10, <1>11, <1>12, <1>13, <1>14, <1>15
     DEF SessionNext, ControllerStep, CancellerStep

LEMMA NamedKept ==
  ASSUME TypeOK, NamedInv, [SessionNext]_allVars
  PROVE  NamedInv'
BY CommitFrame DEF NamedInv

\* The launcher's own place is left by the launcher only, and nobody but the
\* operator asks for a cancellation.
LEMMA LaunchLeft ==
  ASSUME [SessionNext]_allVars
  PROVE  /\ pc = "launch" => Launch \/ UNCHANGED pc
         /\ UNCHANGED cancel \/ Cancel
<1> DEFINE Left == (pc = "launch" => UNCHANGED pc) /\ UNCHANGED cancel
<1>1. CASE UNCHANGED allVars
  BY <1>1 DEF allVars, intent
<1>2. Throw \/ Drained \/ AuditDone \/ Resolve \/ Sleep \/ WaitSpacing => Left
  BY DEF Throw, Guarded, Drained, AuditDone, Resolve, Settling, Sleep, WaitSpacing, intent
<1>3. Complete \/ AbortEnd \/ Finish => Left
  BY DEF Complete, AbortEnd, Finish, intent
<1>4. WorldStep \/ Crash \/ CancelEnds => Left
  BY DEF WorldStep, Crash, CancelEnds, intent
<1>5. \A a \in Attempts :
        \/ DrainStopped(a) \/ DrainFailed(a) \/ StopSibling(a) \/ AbortAttempt(a) \/ Reconcile(a)
        => Left
  BY DEF DrainStopped, DrainFailed, StopSibling, AbortAttempt, Reconcile, intent
<1>6. \A a \in Attempts :
        CreateContainer(a) \/ StartContainer(a) \/ Receipt(a) \/ Bind(a) => Left
  BY DEF CreateContainer, StartContainer, Receipt, Bind, intent
<1>7. /\ \A b \in Blocks : AuditBlock(b) => Left
      /\ \A p \in Primaries : Exhaust(p) \/ ActivateBlock(p) => Left
  BY DEF AuditBlock, Exhaust, ActivateBlock, Settling, intent
<1>8. Launch => UNCHANGED cancel
  BY DEF Launch, intent
<1>9. Cancel => UNCHANGED pc
  BY DEF Cancel
<1> QED
  BY <1>1, <1>2, <1>3, <1>4, <1>5, <1>6, <1>7, <1>8, <1>9
     DEF SessionNext, ControllerStep, CancellerStep

LEMMA BoundKept ==
  ASSUME TypeOK, BoundInv, [SessionNext]_allVars
  PROVE  BoundInv'
<1>1. CASE Launch
  <2>0. pc = "launch" /\ cancel' = cancel
    BY <1>1, LaunchLeft DEF Launch, Cancel, intent
  <2>1. Registered(0) /\ UNCHANGED pc => BoundInv'
    BY <2>0 DEF Registered, BoundInv
  <2>2. \A s \in StartIds : Started(s, 0) /\ UNCHANGED pc => BoundInv'
    BY <2>0, NoneAssumption DEF Started, Admissible, BoundInv
  <2>3. \A s \in StartIds, proc \in Processes : ControllerBound(s, proc, 0) => BoundInv'
    BY NoneAssumption DEF ControllerBound, Admissible, BoundInv
  <2> QED
    BY <1>1, <2>1, <2>2, <2>3 DEF Launch
<1>2. CASE UNCHANGED <<registered, start, controller>> /\ ~Launch
  <2>1. pc' # "launch" => pc # "launch"
    BY <1>2, LaunchLeft
  <2>2. cancel' => cancel \/ controller # None
    BY LaunchLeft DEF Cancel
  <2> QED
    BY <1>2, <2>1, <2>2 DEF BoundInv
<1> QED
  BY <1>1, <1>2, CommitFrame

\* In the loop no worker dies unobserved and the campaign does not end; what ends
\* it or terminates it is the last thing done.
LEMMA FateFrame ==
  ASSUME TypeOK, [SessionNext]_allVars
  PROVE  /\ pc' \in Loop =>
              /\ pc \in Loop /\ UNCHANGED ended
              /\ \A x \in Attempts : proof'[x] # None => proof[x] # None \/ observation'[x] # None
         /\ pc' = "finish" => (pc = "finish" /\ UNCHANGED ended) \/ ended' # None
         /\ UNCHANGED terminated \/ Over'
         /\ Over => Over'
<1> DEFINE Seldom == \A x \in Attempts :
                       proof'[x] # None => proof[x] # None \/ observation'[x] # None
           Alive == UNCHANGED <<ended, terminated>> /\ Seldom
           Fate == /\ pc' \in Loop => pc \in Loop /\ UNCHANGED ended /\ Seldom
                   /\ pc' = "finish" => (pc = "finish" /\ UNCHANGED ended) \/ ended' # None
                   /\ UNCHANGED terminated \/ Over'
                   /\ Over => Over'
<1> SUFFICES Fate
  OBVIOUS
<1>1. UNCHANGED vars => Alive
  BY DEF vars, session, death
<1>2. /\ Registered(0) => Alive
      /\ \A s : Started(s, 0) => Alive
      /\ \A s, proc : ControllerBound(s, proc, 0) => Alive
  BY DEF Registered, Started, ControllerBound, death
<1>3. /\ \A b : BlockValidated(b, 0) => Alive
      /\ \A b, cause : BlockInvalidated(b, cause, 0) => Alive
      /\ \A p, cause : BlockExhausted(p, cause, 0) => Alive
      /\ \A p, number : BlockActivated(p, number, 0) => Alive
      /\ \A p, r, cause, number : BlockReplaced(p, r, cause, number, 0) => Alive
  BY DEF BlockValidated, BlockInvalidated, BlockExhausted, BlockActivated, BlockReplaced,
     session, death
<1>4. /\ \A a : RuntimeBound(a, a, 0) => Alive
      /\ \A a, t : RuntimeStarted(a, t, 0) => Alive
  BY DEF RuntimeBound, RuntimeStarted, session, death
<1>5. ASSUME NEW a \in Attempts, NEW o \in Observations, NEW p, NEW c,
             AttemptObserved(a, o, None, p, c, 0, 0)
      PROVE  Alive
  <2>1. Bury(a, p, c, 0) /\ observation' = [observation EXCEPT ![a] = o] /\ UNCHANGED session
    BY <1>5 DEF AttemptObserved
  <2> QED
    BY <2>1, NoneAssumption DEF Bury, session, TypeOK
<1>6. /\ \A outcome \in Outcomes : Ended(outcome, 0) => ended' # None /\ UNCHANGED terminated
      /\ \A a, p, c : AccountingObserved(a, p, c, 0, 0) => UNCHANGED <<ended, terminated>>
      /\ AbortOutcome \in Outcomes /\ "completed" \in Outcomes
  BY NoneAssumption DEF Ended, AccountingObserved, session, AbortOutcome, Outcomes
<1>7. \A a \in Attempts : Seen(a) \subseteq Observations /\ Indeterminate \in Observations
  BY ProofTypes
<1>8. pc \in Loop /\ ~Over' /\ pc' # "finish" /\ Alive => Fate
  BY DEF Loop, Over, Guarded
<1>9. UNCHANGED pc /\ Alive => Fate
  BY DEF Over
<1>10. pc = "launch" => pc \in Loop /\ ~Over
  BY DEF Loop, Over
<1> HIDE DEF Alive, Seldom
<1>12. CASE UNCHANGED allVars
  BY <1>1, <1>9, <1>12 DEF allVars
<1>13. CASE WorldStep \/ Cancel
  BY <1>1, <1>9, <1>13 DEF WorldStep, Cancel
<1>14. CASE Crash
  BY <1>1, <1>14 DEF Crash, Go, Over, Loop, Guarded, Alive
<1>15. CASE Throw \/ AuditDone \/ Resolve \/ Sleep \/ WaitSpacing
  BY <1>1, <1>8, <1>15 DEF Throw, AuditDone, Resolve, Sleep, WaitSpacing, Settling, Go, Over, Loop,
     Guarded
<1>16. CASE Drained
  <2>1. Resume \in {"start", "create", "audit"}
    BY DEF Resume
  <2> QED
    BY <1>1, <1>8, <1>16, <2>1 DEF Drained, Go, Over, Loop, Guarded
<1>17. CASE Launch
  <2>1. pc \in Loop /\ ~Over' /\ pc' # "finish"
    BY <1>17 DEF Launch, Go, Loop, Over
  <2> QED
    BY <1>2, <1>8, <1>17, <2>1 DEF Launch
<1>18. CASE Complete
  BY <1>1, <1>6, <1>8, <1>18 DEF Complete, Commit, Go, Over, Loop, Guarded, Alive
<1>19. CASE AbortEnd
  BY <1>1, <1>6, <1>19 DEF AbortEnd, Commit, Go, Over, Loop, Guarded, Alive
<1>20. CASE Finish
  BY <1>20 DEF Finish, Commit, Go, Over, Loop, Guarded
<1>21. CASE CancelEnds
  BY <1>21 DEF CancelEnds, Over, Loop, Guarded
<1>22. ASSUME NEW a \in Attempts, DrainStopped(a) \/ DrainFailed(a) \/ StopSibling(a) PROVE Fate
  <2>1. pc \in Loop /\ ~Over' /\ pc' # "finish"
    BY <1>22 DEF DrainStopped, DrainFailed, StopSibling, Commit, Go, Loop, Over, Guarded
  <2>2. Alive
    BY <1>1, <1>5, <1>7, <1>22 DEF DrainStopped, DrainFailed, StopSibling, Commit
  <2> QED
    BY <1>8, <2>1, <2>2
<1>23. ASSUME NEW a \in Attempts, AbortAttempt(a) PROVE Fate
  BY <1>1, <1>6, <1>23 DEF AbortAttempt, Commit, Go, Over, Loop, Guarded, Alive
<1>24. ASSUME NEW a \in Attempts, Reconcile(a) PROVE Fate
  BY <1>1, <1>6, <1>24 DEF Reconcile, CancelCommit, Over, Loop, Guarded, Alive
<1>25. ASSUME NEW a \in Attempts, CreateContainer(a) \/ StartContainer(a) \/ Receipt(a) \/ Bind(a)
       PROVE  Fate
  <2>1. pc \in Loop /\ ~Over' /\ pc' # "finish"
    BY <1>25 DEF CreateContainer, StartContainer, Receipt, Bind, Commit, Go, Loop, Over, Guarded
  <2>2. Alive
    BY <1>1, <1>4, <1>25 DEF CreateContainer, StartContainer, Receipt, Bind, Commit
  <2> QED
    BY <1>8, <2>1, <2>2
<1>26. ASSUME NEW b \in Blocks, AuditBlock(b) PROVE Fate
  <2>1. pc \in Loop /\ ~Over' /\ pc' # "finish"
    BY <1>26 DEF AuditBlock, Commit, Go, Loop, Over, Guarded
  <2> QED
    BY <1>1, <1>3, <1>8, <1>26, <2>1 DEF AuditBlock, Commit
<1>27. ASSUME NEW p \in Primaries, Exhaust(p) \/ ActivateBlock(p) PROVE Fate
  <2>1. pc \in Loop /\ ~Over' /\ pc' # "finish"
    BY <1>27 DEF Exhaust, ActivateBlock, Settling, Commit, Go, Loop, Over, Guarded
  <2>2. Alive
    BY <1>1, <1>3, <1>27 DEF Exhaust, ActivateBlock, Commit
  <2> QED
    BY <1>8, <2>1, <2>2
<1> HIDE DEF Fate
<1> QED
  BY <1>12, <1>13, <1>14, <1>15, <1>16, <1>17, <1>18, <1>19, <1>20, <1>21, <1>22, <1>23, <1>24,
     <1>25, <1>26, <1>27 DEF SessionNext, ControllerStep, CancellerStep

LEMMA OpenKept ==
  ASSUME TypeOK, OpenInv, [Next]_vars, [SessionNext]_allVars
  PROVE  OpenInv'
<1>1. EvidenceKept
  BY RecordStep
<1>2. ASSUME pc' \in Loop, NEW a \in Attempts, Stopped(a)' PROVE observation'[a] # None
  BY <1>1, <1>2, FateFrame DEF OpenInv, Stopped, EvidenceKept
<1> QED
  BY <1>2, FateFrame DEF OpenInv

LEMMA AnsweredKept ==
  ASSUME JournalInv, AnsweredInv, [SessionNext]_allVars
  PROVE  AnsweredInv'
<1> SUFFICES ASSUME pc' = "final", NEW p \in Primaries
             PROVE  selected'[p] # None /\ (exhausted'[p] # None \/ receipt'[selected'[p]])
  BY DEF AnsweredInv
<1>0. TypeOK /\ AuditKept
  BY SessionJournals, RecordStep DEF JournalInv
<1>1. CASE Resolve
  <2>1. UNCHANGED <<selected, exhausted, receipt>> /\ Answered(p)
    BY <1>1 DEF Resolve, vars, plan, audit
  <2> QED
    BY <2>1 DEF Answered
<1>2. CASE pc = "final" /\ (UNCHANGED vars \/ \E b \in Blocks : AuditBlock(b))
  <2>1. selected[p] # None /\ (exhausted[p] # None \/ receipt[selected[p]])
    BY <1>2 DEF AnsweredInv
  <2>2. UNCHANGED vars => UNCHANGED <<selected, exhausted>>
    BY DEF vars, plan
  <2>3. \A b, cause : BlockInvalidated(b, cause, 0) \/ BlockValidated(b, 0)
          => UNCHANGED <<selected, exhausted>>
    BY DEF BlockInvalidated, BlockValidated, plan
  <2>4. UNCHANGED <<selected, exhausted>>
    BY <1>2, <2>2, <2>3 DEF AuditBlock, Commit
  <2> QED
    BY <1>0, <2>1, <2>4 DEF AuditKept, TypeOK
<1> QED
  BY <1>1, <1>2, FinalFrame

----
(* What the fold asks of each commit, where the session makes it. *)

SessionInv ==
  /\ JournalInv /\ RuntimeInv
  /\ OneOwner /\ ResultInv /\ ExhaustionIsFinal /\ NewestInv /\ ProvedInv
  /\ NamedInv /\ BoundInv /\ OpenInv /\ AnsweredInv

LEMMA StillOpen ==
  ASSUME SessionInv
  PROVE  /\ (pc # "launch" \/ cancel) /\ ~terminated
              => Admissible(0, TRUE) /\ start # None /\ controller # None
         /\ pc # "launch" /\ ~Over => ~terminated
         /\ pc \in Guarded \cup {"receipt"} => Admissible(0, FALSE) /\ Live /\ start # None
<1>1. (pc # "launch" \/ cancel) /\ ~terminated
        => Admissible(0, TRUE) /\ start # None /\ controller # None
  BY DEF SessionInv, BoundInv, NamedInv, Admissible
<1>2. ~Over => ~terminated
  BY DEF SessionInv, OpenInv
<1>3. pc \in Guarded \cup {"receipt"} => pc # "launch" /\ ~Over /\ ended = None
  BY DEF SessionInv, OpenInv, Loop, Guarded, Over
<1> QED
  BY <1>1, <1>2, <1>3 DEF Admissible, Live

LEMMA InstantsAreOne ==
  ASSUME SessionInv, NEW a \in Known
  PROVE  /\ a \in Attempts /\ Floor(a) = 0
         /\ boundAt[a] \in {None, 0} /\ stoppedAt[a] \in {None, 0}
<1>1. Times \subseteq Nat /\ None \notin Nat /\ a \in Attempts
  BY ConstantsAssumption, NoneAssumption DEF Known
<1>2. \A t \in {preparedAt[a], boundAt[a], startedAt[a], stoppedAt[a]} : t \in {None, 0}
  <2>1. /\ preparedAt[a] \in Nat \cup {None} /\ boundAt[a] \in Nat \cup {None}
        /\ startedAt[a] \in Nat \cup {None} /\ stoppedAt[a] \in Nat \cup {None}
    BY <1>1 DEF SessionInv, JournalInv, TypeOK
  <2>2. /\ lastAt = 0
        /\ Ordered(preparedAt[a], lastAt) /\ Ordered(boundAt[a], lastAt)
        /\ Ordered(startedAt[a], lastAt) /\ Ordered(stoppedAt[a], lastAt)
    BY <1>1 DEF SessionInv, NamedInv, JournalInv, LinesInv, InLine
  <2> QED
    BY <1>1, <2>1, <2>2 DEF Ordered
<1>3. preparedAt[a] # None
  BY <1>1 DEF SessionInv, JournalInv, LinesInv, InLine, Known
<1> QED
  BY <1>1, <1>2, <1>3 DEF Floor

\* A worker's container is its own, so nobody else has it.
LEMMA OwnContainer ==
  ASSUME SessionInv, NEW a \in Attempts
  PROVE  /\ a # None /\ container[a] \in {None, a}
         /\ \A o \in Attempts \ {a} : container[o] # a
<1>1. None \notin Attempts
  BY NoneAssumption, ControllerAssumption
<1> QED
  BY <1>1 DEF SessionInv, NamedInv

LEMMA DeadOf ==
  ASSUME SessionInv, NEW a \in Known, ~Stopped(a), NEW p, NEW c \in {None, a},
         ProofNames(p, c), container[a] \in {None, c}, container[a] # None => p # "never_created"
  PROVE  Dead(a, p, c, 0, 0)
<1>1. a \in Attempts /\ Floor(a) = 0
  BY InstantsAreOne
<1>2. Unowned(a, c)
  BY <1>1, OwnContainer DEF Unowned
<1>3. SameContainer(a, c)
  BY DEF SameContainer
<1> QED
  BY <1>1, <1>2, <1>3 DEF Dead

LEMMA ProofOfNames ==
  ASSUME SessionInv, NEW a \in Attempts
  PROVE  /\ ContainerOf(a) \in {None, a} /\ ProofNames(ProofOf(a), ContainerOf(a))
         /\ container[a] \in {None, ContainerOf(a)}
         /\ container[a] # None => ProofOf(a) # "never_created"
<1>1. a # None /\ container[a] \in {None, a}
  BY OwnContainer
<1> QED
  BY <1>1 DEF ProofOf, ContainerOf, ProofNames

\* A worker not proved dead is of the selected block of its pair.
LEMMA RunningSelected ==
  ASSUME SessionInv, NEW a \in Known, ~Stopped(a)
  PROVE  selected[PrimaryOf[Sample(a)]] = blockOf[a]
<1>1. /\ blockOf[a] \in Activated /\ a \in Members(blockOf[a])
      /\ PrimaryOf[Sample(a)] = blockPrimary[blockOf[a]]
  BY KnownSlot DEF SessionInv, JournalInv
<1> QED
  BY <1>1 DEF SessionInv, JournalInv, SupersededIsOver

LEMMA ObservationAccepted ==
  ASSUME SessionInv, pc = "drain", NEW a \in Known, ~Stopped(a), NEW o \in Observations,
         NEW p, NEW c, Dead(a, p, c, 0, 0)
  PROVE  CanObserve(a, o, None, p, c, 0, 0)
<1>1. Admissible(0, FALSE) /\ Live
  BY StillOpen DEF Guarded
<1>2. observation[a] = None
  BY DEF SessionInv, ResultInv, Known
<1>3. o.validity = "valid"
  BY ControllerAssumption
<1> QED
  BY <1>1, <1>2, <1>3, RunningSelected DEF CanObserve

LEMMA FollowedIsKnown ==
  ASSUME SessionInv, NEW a \in Attempts, follower[a] # "none"
  PROVE  a \in Known
BY DEF SessionInv, RuntimeInv, WorkerInv, JournalInv, LinesInv, InLine, Known

LEMMA DrainAccepted ==
  ASSUME SessionInv, NEW a \in Attempts, pc = "drain"
  PROVE  /\ follower[a] = "stopped" /\ observation[a] = None => \A o \in Observations :
              CanObserve(a, o, None, "inspected_stopped", a, 0, 0)
         /\ a \in Known /\ ~Stopped(a) => \A o \in Observations :
              CanObserve(a, o, None, ProofOf(a), ContainerOf(a), 0, 0)
<1>1. ASSUME follower[a] = "stopped", observation[a] = None, NEW o \in Observations
      PROVE  CanObserve(a, o, None, "inspected_stopped", a, 0, 0)
  <2>1. a \in Known
    BY <1>1, FollowedIsKnown
  <2>2. ~Stopped(a)
    BY <1>1 DEF SessionInv, OpenInv, Loop, Guarded
  <2>3. a # None /\ container[a] \in {None, a}
    BY OwnContainer
  <2>4. Dead(a, "inspected_stopped", a, 0, 0)
    BY <2>1, <2>2, <2>3, DeadOf DEF ProofNames
  <2> QED
    BY <2>1, <2>2, <2>4, ObservationAccepted
<1>2. ASSUME a \in Known, ~Stopped(a), NEW o \in Observations
      PROVE  CanObserve(a, o, None, ProofOf(a), ContainerOf(a), 0, 0)
  <2>1. Dead(a, ProofOf(a), ContainerOf(a), 0, 0)
    BY <1>2, DeadOf, ProofOfNames
  <2> QED
    BY <1>2, <2>1, ObservationAccepted
<1> QED
  BY <1>1, <1>2

LEMMA AuditAccepted ==
  ASSUME SessionInv, NEW b \in Blocks, pc \in {"audit", "final"}, Audited(b)
  PROVE  /\ CanInvalidate(b, 0)
         /\ excluded[b] = None /\ ~receipt[b] => CanValidate(b, 0)
<1>1. Admissible(0, FALSE) /\ Live
  BY StillOpen DEF Guarded
<1>2. \A a \in Members(b) : observation[a] # None /\ observation[a].validity = "valid"
  BY ControllerAssumption DEF Audited, Members, SessionInv, JournalInv, TypeOK
<1> QED
  BY <1>1, <1>2 DEF CanInvalidate, CanValidate, Audited

LEMMA FailedReplaceable ==
  ASSUME NEW p \in Primaries, Failed(p), NEW cause \in CausesOf(selected[p])
  PROVE  Replaceable(selected[p], cause)
BY DEF Failed, CausesOf, Replaceable, CauseKnown

LEMMA ExhaustAccepted ==
  ASSUME SessionInv, NEW p \in Primaries, pc = "select", p \in Spent,
         NEW cause \in CausesOf(selected[p])
  PROVE  CanExhaust(p, cause, 0)
<1>1. Admissible(0, FALSE) /\ Live
  BY StillOpen DEF Guarded
<1>2. Failed(p) /\ ~Allowance(selected[p])
  BY DEF Spent
<1> QED
  BY <1>1, <1>2, FailedReplaceable DEF CanExhaust, Failed

\* The first attempts of a pair that has none.
LEMMA BeginAccepted ==
  ASSUME SessionInv, NEW p \in Primaries, pc = "select", selected[p] = None
  PROVE  CanBegin(p, Ordinal(p), 0)
<1>1. Admissible(0, FALSE) /\ Live
  BY StillOpen DEF Guarded
<1>2. blockPrimary[p] = None
  BY DEF SessionInv, JournalInv, PlanInv, BlocksAreWhole, Activated, Blocks
<1>3. exhausted[p] = None
  BY DEF SessionInv, ExhaustionIsFinal
<1>4. ASSUME NEW s \in SlotsOf(p) PROVE blockOf[<<s, 1>>] = None /\ Ordinal(p)[s] = 1
  <2>1. <<s, 1>> \in Attempts /\ Sample(<<s, 1>>) = s /\ PrimaryOf[s] = p
    BY ConstantsAssumption DEF Attempts, Sample, SlotsOf
  <2>2. <<s, 1>> \notin Known
    BY <2>1, KnownSlot DEF SessionInv, JournalInv
  <2> QED
    BY <2>1, <2>2 DEF Known, Ordinal
<1> QED
  BY <1>1, <1>2, <1>3, <1>4 DEF CanBegin, CanActivate, Numbered

\* The next attempts of a pair whose selected block failed.
LEMMA ReplaceAccepted ==
  ASSUME SessionInv, NEW p \in Primaries, pc = "select", Failed(p), Spent = {},
         NEW r \in Reserves \ consumed, CellOf[r] = CellOf[p], NEW cause \in CausesOf(selected[p])
  PROVE  CanReplace(p, r, cause, Ordinal(p), 0)
<1> DEFINE pred == selected[p]
<1>1. Admissible(0, FALSE) /\ Live
  BY StillOpen DEF Guarded
<1>2. pred # None /\ exhausted[p] = None /\ Replaceable(pred, cause) /\ Allowance(pred)
  BY FailedReplaceable DEF Failed, Spent
<1>3. blockPrimary[r] = None
  BY DEF SessionInv, JournalInv, PlanInv, BlocksAreWhole, Activated, Blocks
<1>4. pred \in Activated /\ blockPrimary[pred] = p
  BY <1>2 DEF SessionInv, JournalInv, PlanInv
<1>5. PICK n \in 1..MaxAttempts : Members(pred) = {<<s, n>> : s \in SlotsOf(p)}
  BY <1>4 DEF SessionInv, JournalInv, PlanInv, BlocksAreWhole
<1>6. MaxAttempts \in Nat /\ n \in Nat /\ n >= 1
  BY ConstantsAssumption
<1>7. ASSUME NEW s \in SlotsOf(p)
      PROVE  /\ Ordinal(p)[s] = 1 + n
             /\ blockOf[<<s, n>>] = pred /\ blockOf[<<s, 1 + n>>] = None
  <2>1. <<s, n>> \in Members(pred) /\ Sample(<<s, n>>) = s /\ Number(<<s, n>>) = n
    BY <1>5 DEF Sample, Number
  <2> DEFINE a == CHOOSE x \in Members(pred) : Sample(x) = s
  <2>2. a \in Members(pred)
    BY <2>1
  <2> HIDE DEF a
  <2>3. Number(a) = n
    BY <1>5, <2>2 DEF Number
  <2>4. Ordinal(p)[s] = 1 + n
    BY <1>2, <2>3 DEF Ordinal, a
  <2>5. n < MaxAttempts
    BY <1>2, <2>1 DEF Allowance
  <2>6. 1 + n \in 1..MaxAttempts
    BY <1>6, <2>5
  <2>7. <<s, 1 + n>> \in Attempts /\ Sample(<<s, 1 + n>>) = s /\ Number(<<s, 1 + n>>) = 1 + n
    BY <2>6 DEF Attempts, Sample, Number, SlotsOf
  <2>8. ~(1 + n <= n)
    BY <1>6
  <2>9. <<s, 1 + n>> \notin Known
    BY <1>2, <2>1, <2>7, <2>8 DEF SessionInv, NewestInv, Newest
  <2> QED
    BY <2>1, <2>4, <2>7, <2>9 DEF Known, Members
<1>8. Numbered(p, pred, Ordinal(p))
  <2> SUFFICES ASSUME NEW s \in SlotsOf(p)
               PROVE  /\ blockOf[<<s, Ordinal(p)[s]>>] = None
                      /\ Ordinal(p)[s] > 1 /\ blockOf[<<s, Ordinal(p)[s] - 1>>] = pred
    BY <1>2 DEF Numbered
  <2>1. 1 + n > 1 /\ (1 + n) - 1 = n
    BY <1>6
  <2> QED
    BY <1>7, <2>1
<1> QED
  BY <1>1, <1>2, <1>3, <1>8 DEF CanReplace, CanActivate

LEMMA BindAccepted ==
  ASSUME SessionInv, NEW a \in Attempts, pc = "bind", a \in Unbound
  PROVE  CanBind(a, a, 0)
<1>1. Admissible(0, FALSE) /\ Live
  BY StillOpen DEF Guarded
<1>2. a \in Known /\ ~Stopped(a) /\ container[a] = None
  BY DEF Unbound, Running
<1>3. observation[a] = None /\ ~accounted[a]
  BY <1>2 DEF SessionInv, ResultInv, ProvedInv
<1>4. \A o \in Attempts : container[o] # a
  BY <1>2, OwnContainer
<1> QED
  BY <1>1, <1>2, <1>3, <1>4 DEF CanBind

LEMMA ReceiptAccepted ==
  ASSUME SessionInv, NEW a \in Attempts, pc = "receipt", a \in ToStart
  PROVE  CanStart(a, 0, 0)
<1>1. Admissible(0, FALSE) /\ Live
  BY StillOpen
<1>2. a \in Known /\ ~Stopped(a) /\ container[a] # None /\ startedAt[a] = None
  BY DEF ToStart, Running
<1>3. boundAt[a] # None
  BY <1>2 DEF SessionInv, RuntimeInv, WorkerInv
<1>4. boundAt[a] <= 0 /\ 0 <= 0
  <2>1. boundAt[a] = 0
    BY <1>2, <1>3, InstantsAreOne
  <2> QED
    BY <2>1
<1> QED
  BY <1>1, <1>2, <1>3, <1>4 DEF CanStart

LEMMA AccountAccepted ==
  ASSUME SessionInv, NEW a \in Running, pc # "launch" \/ cancel, ~terminated
  PROVE  /\ CanAccount(a, ProofOf(a), ContainerOf(a), 0, 0)
         /\ CanAccount(a, "verified_absent", container[a], 0, 0)
         /\ CanAccount(a, "inspected_stopped", a, 0, 0)
<1>1. Admissible(0, TRUE)
  BY StillOpen
<1>2. a \in Known /\ ~Stopped(a) /\ a \in Attempts
  BY DEF Running
<1>3. ~accounted[a]
  BY <1>2 DEF SessionInv, ProvedInv
<1>4. Dead(a, ProofOf(a), ContainerOf(a), 0, 0)
  BY <1>2, DeadOf, ProofOfNames
<1>5. a # None /\ container[a] \in {None, a}
  BY <1>2, OwnContainer
<1>6. Dead(a, "verified_absent", container[a], 0, 0)
  BY <1>2, <1>5, DeadOf DEF ProofNames
<1>7. Dead(a, "inspected_stopped", a, 0, 0)
  BY <1>2, <1>5, DeadOf DEF ProofNames
<1> QED
  BY <1>1, <1>3, <1>4, <1>6, <1>7 DEF CanAccount

\* An aborted session may end, if it was not cancelled with a worker not proved dead.
LEMMA AbortAccepted ==
  ASSUME SessionInv, pc = "abort" \/ (cancel /\ Over), ~terminated, ended = None
  PROVE  CanEnd(AbortOutcome, 0) \/ (cancel /\ Running # {})
<1>1. pc # "launch" \/ cancel
  OBVIOUS
<1>2. Admissible(0, FALSE) /\ start # None
  BY <1>1, StillOpen DEF Admissible
<1>3. AbortOutcome # "completed" /\ (AbortOutcome # "interrupted" => cancel)
  BY DEF AbortOutcome
<1>4. Running = {} => \A a \in Known : Stopped(a)
  BY DEF Running, Known
<1> QED
  BY <1>2, <1>3, <1>4 DEF CanEnd

LEMMA CompleteAccepted ==
  ASSUME SessionInv, pc = "final", ~Reopened
  PROVE  CanEnd("completed", 0)
<1>1. Admissible(0, FALSE) /\ Live /\ start # None
  BY StillOpen DEF Guarded
<1>2. \A p \in Primaries : selected[p] # None /\ (exhausted[p] # None \/ receipt[selected[p]])
  BY DEF SessionInv, AnsweredInv
<1>3. \A p \in Primaries : Resolved(p)
  BY <1>2 DEF Resolved, Reopened
<1>4. ASSUME NEW a \in Known PROVE Stopped(a)
  <2> DEFINE b == blockOf[a]
             p == PrimaryOf[Sample(a)]
  <2>1. /\ b \in Activated /\ a \in Members(b) /\ p = blockPrimary[b] /\ p \in Primaries
        /\ a \in Attempts
    BY KnownSlot DEF SessionInv, JournalInv
  <2>2. CASE selected[p] # b
    BY <2>1, <2>2 DEF SessionInv, JournalInv, SupersededIsOver
  <2>3. CASE selected[p] = b /\ exhausted[p] # None
    BY <2>1, <2>3 DEF SessionInv, ExhaustionIsFinal
  <2>4. CASE selected[p] = b /\ receipt[b]
    BY <2>1, <2>4 DEF SessionInv, ResultInv, Activated
  <2> QED
    BY <1>2, <2>1, <2>2, <2>3, <2>4
<1> QED
  BY <1>1, <1>3, <1>4 DEF CanEnd

LEMMA TerminationAccepted ==
  ASSUME SessionInv, pc # "launch" \/ cancel, ~terminated, ended # None, Running = {}
  PROVE  CanTerminate(start, Recorded, 0)
<1>1. Admissible(0, TRUE)
  BY StillOpen
<1>2. ASSUME NEW a \in Known
      PROVE  Dead(a, Recorded[a].proof, Recorded[a].container, Recorded[a].at, 0)
  <2>1. /\ Recorded[a].proof = proof[a] /\ Recorded[a].container = container[a]
        /\ Recorded[a].at = stoppedAt[a]
    BY DEF Recorded
  <2>2. a \in Attempts /\ Stopped(a) /\ stoppedAt[a] # None
    BY DEF Running, Known, SessionInv, JournalInv, LinesInv, InLine, Stopped
  <2>3. stoppedAt[a] = 0 /\ Floor(a) = 0
    BY <2>2, InstantsAreOne
  <2>4. ProofNames(proof[a], container[a])
    BY <2>2 DEF SessionInv, ProvedInv
  <2>5. Unowned(a, container[a])
    BY <2>2 DEF SessionInv, OneOwner, Unowned
  <2>6. Dead(a, proof[a], container[a], stoppedAt[a], 0)
    BY <2>2, <2>3, <2>4, <2>5 DEF Dead, SameContainer, ProofNames
  <2> QED
    BY <2>1, <2>6
<1>3. ASSUME NEW a \in Known, NEW o \in Known, a # o, Recorded[a].container # None
      PROVE  Recorded[a].container # Recorded[o].container
  <2>1. Recorded[a].container = container[a] /\ Recorded[o].container = container[o]
    BY DEF Recorded
  <2> QED
    BY <1>3, <2>1 DEF SessionInv, OneOwner, Known
<1> QED
  BY <1>1, <1>2, <1>3 DEF CanTerminate

\* What could not be proved dead is not forgotten.
LEMMA UnresolvedGrows ==
  ASSUME [SessionNext]_allVars
  PROVE  unresolved \subseteq unresolved'
<1> DEFINE Grows == unresolved \subseteq unresolved'
<1> SUFFICES Grows
  OBVIOUS
<1>1. CASE UNCHANGED allVars
  BY <1>1 DEF allVars
<1>2. CASE Throw \/ Drained \/ AuditDone \/ Resolve \/ Sleep \/ WaitSpacing \/ Launch
  BY <1>2 DEF Throw, Drained, AuditDone, Resolve, Sleep, WaitSpacing, Launch
<1>3. CASE Complete \/ AbortEnd \/ Finish \/ WorldStep \/ Crash \/ CancelEnds \/ Cancel
  BY <1>3 DEF Complete, AbortEnd, Finish, WorldStep, Crash, CancelEnds, Cancel
<1>4. ASSUME NEW a \in Attempts,
             \/ DrainStopped(a) \/ DrainFailed(a) \/ StopSibling(a) \/ Reconcile(a)
             \/ CreateContainer(a) \/ StartContainer(a) \/ Receipt(a) \/ Bind(a)
      PROVE  Grows
  BY <1>4 DEF DrainStopped, DrainFailed, StopSibling, Reconcile, CreateContainer, StartContainer,
     Receipt, Bind
<1>5. ASSUME NEW b \in Blocks, AuditBlock(b) PROVE Grows
  BY <1>5 DEF AuditBlock
<1>6. ASSUME NEW p \in Primaries, Exhaust(p) \/ ActivateBlock(p) PROVE Grows
  BY <1>6 DEF Exhaust, ActivateBlock
<1>7. ASSUME NEW a \in Attempts, AbortAttempt(a) PROVE Grows
  BY <1>7 DEF AbortAttempt
<1> HIDE DEF Grows
<1> QED
  BY <1>1, <1>2, <1>3, <1>4, <1>5, <1>6, <1>7 DEF SessionNext, ControllerStep, CancellerStep

LEMMA RefusalFrame ==
  ASSUME SessionInv, [SessionNext]_allVars
  PROVE  UNCHANGED refused \/ (cancel /\ unresolved # {})
<1> DEFINE Kept == UNCHANGED refused
           Fine == Kept \/ (cancel /\ unresolved # {})
<1> SUFFICES Fine
  OBVIOUS
<1>0. \A a \in Attempts : Seen(a) \subseteq Observations /\ Indeterminate \in Observations
  BY ProofTypes DEF SessionInv, JournalInv
<1>1. CASE UNCHANGED allVars
  BY <1>1 DEF allVars, ghost
<1>2. CASE Throw \/ Drained \/ AuditDone \/ Resolve \/ Sleep \/ WaitSpacing \/ Launch
  BY <1>2 DEF Throw, Drained, AuditDone, Resolve, Sleep, WaitSpacing, Launch, ghost
<1>3. CASE WorldStep \/ Crash \/ Cancel
  BY <1>3 DEF WorldStep, Crash, Cancel, ghost
<1>4. CASE Complete
  <2>1. ~Reopened => CanEnd("completed", 0)
    BY <1>4, CompleteAccepted DEF Complete
  <2> QED
    BY <1>4, <2>1 DEF Complete, Commit, ghost
<1>5. CASE AbortEnd
  <2>1. pc = "abort" /\ Running \subseteq unresolved /\ ~terminated
    BY <1>5, StillOpen DEF AbortEnd, Over
  <2>2. ended = None => CanEnd(AbortOutcome, 0) \/ (cancel /\ unresolved # {})
    BY <2>1, AbortAccepted
  <2> QED
    BY <1>5, <2>2 DEF AbortEnd, Commit, ghost
<1>6. CASE Finish
  <2>1. pc = "finish" /\ ~terminated /\ ended # None
    BY <1>6, StillOpen DEF Finish, Over, SessionInv, OpenInv
  <2>2. Closable => CanTerminate(start, Recorded, 0)
    BY <2>1, TerminationAccepted DEF Closable
  <2> QED
    BY <1>6, <2>2 DEF Finish, Commit, ghost
<1>7. CASE CancelEnds
  <2>1. cancel /\ Over /\ ~terminated /\ Running = {}
    BY <1>7 DEF CancelEnds
  <2>2. ended = None => CanEnd(AbortOutcome, 0)
    BY <2>1, AbortAccepted
  <2>3. ended # None => CanTerminate(start, Recorded, 0)
    BY <2>1, TerminationAccepted
  <2> QED
    BY <1>7, <2>2, <2>3 DEF CancelEnds, CancelCommit
<1>8. ASSUME NEW a \in Attempts, DrainStopped(a) PROVE Fine
  <2>1. observation[a] = None => \A o \in Observations :
          CanObserve(a, o, None, "inspected_stopped", a, 0, 0)
    BY <1>8, DrainAccepted DEF DrainStopped
  <2> QED
    BY <1>0, <1>8, <2>1 DEF DrainStopped, Commit, ghost
<1>9. ASSUME NEW a \in Attempts, DrainFailed(a) PROVE Fine
  <2>1. a \in Known
    BY <1>9, FollowedIsKnown DEF DrainFailed
  <2>2. ~Stopped(a) => CanObserve(a, Indeterminate, None, ProofOf(a), ContainerOf(a), 0, 0)
    BY <1>0, <1>9, <2>1, DrainAccepted DEF DrainFailed
  <2> QED
    BY <1>9, <2>2 DEF DrainFailed, Commit, ghost
<1>10. ASSUME NEW a \in Attempts, StopSibling(a) PROVE Fine
  <2>1. a \in Known /\ ~Stopped(a) /\ pc = "drain"
    BY <1>10 DEF StopSibling, Doomed, Running
  <2>2. \A o \in Observations : CanObserve(a, o, None, ProofOf(a), ContainerOf(a), 0, 0)
    BY <2>1, DrainAccepted
  <2> QED
    BY <1>0, <1>10, <2>2 DEF StopSibling, Commit, ghost
<1>11. ASSUME NEW b \in Blocks, AuditBlock(b) PROVE Fine
  <2>1. CanInvalidate(b, 0) /\ (excluded[b] = None /\ ~receipt[b] => CanValidate(b, 0))
    BY <1>11, AuditAccepted DEF AuditBlock
  <2> QED
    BY <1>11, <2>1 DEF AuditBlock, Commit, ghost
<1>12. ASSUME NEW p \in Primaries, Exhaust(p) PROVE Fine
  <2>1. \A cause \in CausesOf(selected[p]) : CanExhaust(p, cause, 0)
    BY <1>12, ExhaustAccepted DEF Exhaust
  <2> QED
    BY <1>12, <2>1 DEF Exhaust, Commit, ghost
<1>13. ASSUME NEW p \in Primaries, ActivateBlock(p) PROVE Fine
  <2>1. pc = "select" /\ Spent = {}
    BY <1>13 DEF ActivateBlock, Settling
  <2>2. selected[p] = None => CanBegin(p, Ordinal(p), 0)
    BY <2>1, BeginAccepted
  <2>3. ASSUME Failed(p), NEW r \in Reserves \ consumed, NEW cause \in CausesOf(selected[p]),
               CellOf[r] = CellOf[p]
        PROVE  CanReplace(p, r, cause, Ordinal(p), 0)
    BY <2>1, <2>3, ReplaceAccepted
  <2> QED
    BY <1>13, <2>2, <2>3 DEF ActivateBlock, Commit, ghost
<1>14. ASSUME NEW a \in Attempts, CreateContainer(a) \/ StartContainer(a) PROVE Fine
  BY <1>14 DEF CreateContainer, StartContainer, ghost
<1>15. ASSUME NEW a \in Attempts, Bind(a) PROVE Fine
  <2>1. CanBind(a, a, 0)
    BY <1>15, BindAccepted DEF Bind
  <2> QED
    BY <1>15, <2>1 DEF Bind, Commit, ghost
<1>16. ASSUME NEW a \in Attempts, Receipt(a) PROVE Fine
  <2>1. CanStart(a, 0, 0)
    BY <1>16, ReceiptAccepted DEF Receipt
  <2> QED
    BY <1>16, <2>1 DEF Receipt, Commit, ghost
<1>17. ASSUME NEW a \in Attempts, AbortAttempt(a) PROVE Fine
  <2>1. a \in Running /\ pc = "abort" /\ ~terminated
    BY <1>17, StillOpen DEF AbortAttempt, Over
  <2>2. CanAccount(a, ProofOf(a), ContainerOf(a), 0, 0)
    BY <2>1, AccountAccepted
  <2> QED
    BY <1>17, <2>2 DEF AbortAttempt, Commit, ghost
<1>18. ASSUME NEW a \in Attempts, Reconcile(a) PROVE Fine
  <2>1. a \in Running /\ cancel /\ ~terminated
    BY <1>18 DEF Reconcile
  <2>2. /\ CanAccount(a, "verified_absent", container[a], 0, 0)
        /\ CanAccount(a, "inspected_stopped", a, 0, 0)
    BY <2>1, AccountAccepted
  <2> QED
    BY <1>18, <2>2 DEF Reconcile, CancelCommit
<1> HIDE DEF Fine
<1> QED
  BY <1>1, <1>2, <1>3, <1>4, <1>5, <1>6, <1>7, <1>8, <1>9, <1>10, <1>11, <1>12, <1>13, <1>14,
     <1>15, <1>16, <1>17, <1>18 DEF SessionNext, ControllerStep, CancellerStep

LEMMA SessionInvAlways == SessionSpec => []SessionInv
<1> DEFINE Extra == NewestInv /\ ProvedInv /\ NamedInv /\ BoundInv /\ OpenInv /\ AnsweredInv
<1>1. SessionInit => Extra
  <2> SUFFICES ASSUME SessionInit PROVE Extra
    OBVIOUS
  <2>1. NewestInv /\ ProvedInv /\ AnsweredInv
    BY DEF SessionInit, Init, NewestInv, ProvedInv, AnsweredInv, Stopped
  <2>2. NamedInv /\ BoundInv
    BY DEF SessionInit, Init, NamedInv, BoundInv
  <2>3. OpenInv
    BY DEF SessionInit, Init, OpenInv, Stopped, Loop, Over
  <2> QED
    BY <2>1, <2>2, <2>3
<1>2. JournalInv /\ Extra /\ [SessionNext]_allVars => Extra'
  <2> SUFFICES ASSUME JournalInv, Extra, [SessionNext]_allVars PROVE Extra'
    OBVIOUS
  <2>1. TypeOK /\ PlanInv /\ [Next]_vars
    BY SessionJournals DEF JournalInv
  <2> QED
    BY <2>1, NewestKept, ProvedKept, NamedKept, BoundKept, OpenKept, AnsweredKept
<1>3. SessionSpec => []Extra
  BY <1>1, <1>2, JournalAlways, PTL DEF SessionSpec
<1>4. JournalInv /\ RuntimeInv /\ Extra /\ OneOwner /\ ResultInv /\ ExhaustionIsFinal
        => SessionInv
  BY DEF SessionInv
<1> QED
  BY <1>3, <1>4, JournalAlways, RuntimeAlways, SessionImplementsReplay, ContainersHaveOneOwner,
     ResultInvariant, ExhaustionHolds, PTL

\* RefusedOnlyUnproved: of all that a session commits, the launcher, the controller
\* in its loop and when it aborts, and the canceller after it, the fold refuses
\* nothing but the outcome of a cancellation that left a worker whose death could
\* not be proved, for any experiment, any number of faults and whenever the
\* controller died; so a writer poisoned without that is a failure of storage, as
\* commit() in controller.ts takes it to be.
THEOREM RefusedOnlyUnprovedAlways == SessionSpec => []RefusedOnlyUnproved
<1>1. SessionInit => RefusedOnlyUnproved
  BY DEF SessionInit, RefusedOnlyUnproved
<1>2. SessionInv /\ RefusedOnlyUnproved /\ [SessionNext]_allVars => RefusedOnlyUnproved'
  <2> SUFFICES ASSUME SessionInv, RefusedOnlyUnproved, [SessionNext]_allVars, refused'
               PROVE  cancel' /\ unresolved' # {}
    BY DEF RefusedOnlyUnproved
  <2>1. cancel /\ unresolved # {}
    BY RefusalFrame DEF RefusedOnlyUnproved
  <2>2. cancel'
    BY <2>1, LaunchLeft DEF Cancel
  <2> QED
    BY <2>1, <2>2, UnresolvedGrows
<1> QED
  BY <1>1, <1>2, SessionInvAlways, PTL DEF SessionSpec
====
