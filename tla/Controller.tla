---- MODULE Controller ----
(***************************************************************************)
(* One campaign session: runCampaignDispatch of src/src/campaign/          *)
(* controller.ts over the journal (ExecutionState) and docker              *)
(* (ContainerRuntime), the operator's cancel, the death of the controller  *)
(* at any step, and the part of cancelCampaign (cancellation.ts) that      *)
(* settles the workers after it.                                           *)
(*                                                                         *)
(* The controller is one thread.  Callbacks only queue facts, and between  *)
(* two awaits nothing of its own can interleave, but the operator, the     *)
(* daemon, the workers and the controller's death can come between any two *)
(* of its effects, so an action here is one effect: one docker command or  *)
(* one commit, with the guard just before it.  What the controller         *)
(* remembers of the block it is starting (which attempts are left, which   *)
(* one it is at) can be read off the journal and the runtime, and is.      *)
(*                                                                         *)
(* Left out: instants (the journal is stamped with one), telemetry, launch *)
(* spacing and host breaches, which make the controller wait or an audit   *)
(* come out one way or the other, and both are left to chance; the choice  *)
(* among eligible blocks by estimate; pools of credentials but the global  *)
(* one; the fault that a guard may find, which is any.                     *)
(***************************************************************************)
EXTENDS ExecutionState, ContainerRuntime

CONSTANTS
  RunCap,         \* experiment.contention.global_run_cap
  FatalCauses,    \* causes that end the session
  Indeterminate,  \* the observation of an attempt that left no usable evidence
  MaxFaults       \* bound on the faults of one behaviour

ASSUME ControllerAssumption ==
  /\ Workers = Attempts /\ Containers = Attempts /\ StopProofs = Proofs
  /\ IsFiniteSet(Samples)
  /\ RunCap \in Nat /\ MaxFaults \in Nat
  /\ \A p \in Primaries : Cardinality(SlotsOf(p)) <= RunCap
  /\ Indeterminate \in Observations /\ Indeterminate.class = "evidence"
  /\ ValidityCauses \subseteq ReplacementCauses
  /\ \A o \in Observations :
       /\ o.validity = "valid"
       /\ o.class = "instrument" => o.cause \in ReplacementCauses \cup FatalCauses

VARIABLES
  pc,             \* where the controller is
  unresolved,     \* abort: attempts whose death could not be proved
  poisoned,       \* the journal's writer refuses
  storageFailed,  \* storageFailed
  emergency,      \* storage-interruption.json is written, the reserve spent
  cancel,         \* cancel-intent.json is there
  loss,           \* controller_loss_established of it
  faults,         \* how many faults there were
  broken,         \* history: a write to the journal failed
  refused         \* history: the fold refused a transition

store == <<poisoned, storageFailed, emergency>>
intent == <<cancel, loss>>
ghost == <<broken, refused>>
allVars == <<vars, runtime, pc, unresolved, store, intent, faults, ghost>>

SessionInit ==
  /\ Init
  /\ RuntimeInit
  /\ pc = "launch" /\ unresolved = {}
  /\ poisoned = FALSE /\ storageFailed = FALSE /\ emergency = FALSE
  /\ cancel = FALSE /\ loss = FALSE
  /\ faults = 0 /\ broken = FALSE /\ refused = FALSE

Go(next) == pc' = next
Fault == faults < MaxFaults /\ faults' = faults + 1
Over == pc \in {"done", "dead"}

\* commit(): the transition is folded and durable, or the writer is poisoned
\* and the caller catches an error.  Accepted says that the fold takes it.
Commit(accepted, transition, next, caught) ==
  \/ /\ ~poisoned
     /\ transition
     /\ Go(next)
     /\ UNCHANGED <<poisoned, storageFailed, faults, ghost>>
  \/ /\ \/ poisoned /\ UNCHANGED <<faults, ghost>>
        \/ ~poisoned /\ ~accepted /\ refused' = TRUE /\ UNCHANGED <<faults, broken>>
        \/ ~poisoned /\ Fault /\ broken' = TRUE /\ UNCHANGED refused
     /\ poisoned' = TRUE /\ storageFailed' = TRUE
     /\ Go(caught)
     /\ UNCHANGED vars

----
(* What the controller reads off the projection. *)

Running == Known \cap {a \in Attempts : ~Stopped(a)}

\* replacementCause(): what a block may be replaced for.
CausesOf(b) ==
  IF excluded[b] \in ReplacementCauses THEN {excluded[b]}
  ELSE {c \in ReplacementCauses :
          \E a \in Members(b) : /\ observation[a] # None
                                /\ observation[a].class = "instrument"
                                /\ observation[a].cause = c}

\* The attempts of the block being started that have no container yet, and the
\* one that has and is not started.
Unbound == {a \in Running : container[a] = None}
ToStart == {a \in Running : container[a] # None /\ startedAt[a] = None}

\* Workers still alive in a block that has failed are stopped first.
Doomed == {a \in Running : CausesOf(blockOf[a]) # {}}

\* Mutant of Reported: a monitor that failed is not heard.
ReportedStopped == {a \in Attempts : follower[a] = "stopped"}

Reported == {a \in Attempts : follower[a] \in {"stopped", "failed"}}

\* Startable says never-issued for an attempt this controller created.
StartSettled(a) ==
  IF startedAt[a] # None THEN "settled"
  ELSE IF container[a] # None THEN "uncertain"
  ELSE "never-issued"

----
(* The launcher and the loop. *)

\* The launcher registers the start and binds this process, which then takes
\* the session over.
Launch ==
  /\ pc = "launch"
  /\ \/ Registered(0) /\ UNCHANGED pc
     \/ \E s \in StartIds : Started(s, 0) /\ UNCHANGED pc
     \/ \E s \in StartIds, proc \in Processes : ControllerBound(s, proc, 0) /\ Go("drain")
  /\ UNCHANGED <<runtime, unresolved, store, intent, faults, ghost>>

\* guard() and whatever else throws between two effects: the operator's
\* cancellation, or a fault.
Guarded == {"drain", "audit", "select", "create", "bind", "start", "final"}

Throw ==
  /\ pc \in Guarded
  /\ \/ cancel /\ UNCHANGED <<faults, storageFailed, broken>>
     \/ Fault /\ UNCHANGED <<storageFailed, broken>>
     \/ Fault /\ storageFailed' = TRUE /\ broken' = TRUE
  /\ Go("abort")
  /\ UNCHANGED <<vars, runtime, unresolved, poisoned, emergency, intent, refused>>

\* Where the controller goes when no event is left: it starts the block that it
\* has activated before anything else.
Resume == IF ToStart # {} THEN "start" ELSE IF Unbound # {} THEN "create" ELSE "audit"

Drained ==
  /\ pc = "drain" /\ ~cancel
  /\ Reported = {} /\ Doomed = {}
  /\ Go(Resume)
  /\ UNCHANGED <<vars, runtime, unresolved, store, intent, faults, ghost>>

\* A worker whose container never ran left nothing to observe.
Seen(a) == IF box[a] \in {"running", "exited"} THEN Observations ELSE {Indeterminate}

\* observe(): the follower's proof of death, with what the evidence says.
DrainStopped(a) ==
  /\ pc = "drain" /\ ~cancel /\ Doomed = {}
  /\ follower[a] = "stopped"
  /\ follower' = [follower EXCEPT ![a] = "read"]
  /\ IF observation[a] # None THEN UNCHANGED <<vars, pc, poisoned, storageFailed, faults, ghost>>
     ELSE \E o \in Seen(a) :
            Commit(CanObserve(a, o, None, "inspected_stopped", a, 0, 0),
                   AttemptObserved(a, o, None, "inspected_stopped", a, 0, 0),
                   IF o.cause \in FatalCauses THEN "abort" ELSE "drain", "abort")
  /\ UNCHANGED <<box, late, requests, unresolved, emergency, intent>>

\* stopAttempt(): what inspectOwned and stop can prove, and of what container.
ProofOf(a) ==
  IF box[a] # "none" THEN "inspected_stopped"
  ELSE IF container[a] # None THEN "verified_absent" ELSE "never_created"
ContainerOf(a) == IF box[a] # "none" THEN a ELSE container[a]

Proves(a) ==
  \/ Absent(a) /\ NoUnsettledStarts /\ UNCHANGED runtime
  \/ StopProves(a, StartSettled(a))

\* A monitor failed: the worker is stopped and observed, its cause unknown,
\* and the session ends.
DrainFailed(a) ==
  /\ pc = "drain" /\ ~cancel /\ Doomed = {}
  /\ follower[a] = "failed"
  /\ \/ /\ Stopped(a) /\ Go("abort")
        /\ UNCHANGED <<vars, runtime, poisoned, storageFailed, faults, ghost>>
     \/ /\ ~Stopped(a) /\ StopUnresolved(a) /\ Go("abort")
        /\ UNCHANGED <<vars, poisoned, storageFailed, faults, ghost>>
     \/ /\ ~Stopped(a) /\ Proves(a)
        /\ Commit(CanObserve(a, Indeterminate, None, ProofOf(a), ContainerOf(a), 0, 0),
                  AttemptObserved(a, Indeterminate, None, ProofOf(a), ContainerOf(a), 0, 0),
                  "abort", "abort")
  /\ UNCHANGED <<unresolved, emergency, intent>>

StopSibling(a) ==
  /\ pc = "drain" /\ ~cancel
  /\ a \in Doomed
  /\ \/ /\ Proves(a)
        /\ \E o \in Seen(a) :
             Commit(CanObserve(a, o, None, ProofOf(a), ContainerOf(a), 0, 0),
                    AttemptObserved(a, o, None, ProofOf(a), ContainerOf(a), 0, 0),
                    IF o.cause \in FatalCauses THEN "abort" ELSE "drain", "abort")
     \/ /\ Fault /\ StopUnresolved(a) /\ Go("abort")
        /\ UNCHANGED <<vars, poisoned, storageFailed, ghost>>
  /\ UNCHANGED <<unresolved, emergency, intent>>

----
(* Audit, selection, completion. *)

Audited(b) == b \in Activated /\ ~invalidated[b] /\ \A a \in Members(b) : observation[a] # None

\* audit(): a block all observed is validated, invalidated, or left until the
\* telemetry is in.
AuditBlock(b) ==
  /\ pc \in {"audit", "final"} /\ ~cancel
  /\ Audited(b)
  /\ \/ \E cause \in ValidityCauses :
          Commit(CanInvalidate(b, 0), BlockInvalidated(b, cause, 0), pc, "abort")
     \/ /\ excluded[b] = None /\ ~receipt[b]
        /\ Commit(CanValidate(b, 0), BlockValidated(b, 0), pc, "abort")
  /\ UNCHANGED <<runtime, unresolved, emergency, intent>>

AuditDone ==
  /\ pc = "audit" /\ ~cancel
  /\ Go("select")
  /\ UNCHANGED <<vars, runtime, unresolved, store, intent, faults, ghost>>

\* A selected block that failed and is all dead is replaced or given up.
Failed(p) ==
  /\ selected[p] # None /\ exhausted[p] = None
  /\ \A a \in Members(selected[p]) : Stopped(a)
  /\ CausesOf(selected[p]) # {}
Spent == {p \in Primaries : Failed(p) /\ ~Allowance(selected[p])}

Exhaust(p) ==
  /\ pc = "select" /\ ~cancel
  /\ p \in Spent
  /\ \E cause \in CausesOf(selected[p]) :
       Commit(CanExhaust(p, cause, 0), BlockExhausted(p, cause, 0), "select", "abort")
  /\ UNCHANGED <<runtime, unresolved, emergency, intent>>

\* Mutant of Answered: an instrument failure in a validated block is no matter.
AnsweredByReceipt(p) ==
  /\ selected[p] # None
  /\ \/ exhausted[p] # None
     \/ receipt[selected[p]] /\ excluded[selected[p]] = None

Answered(p) ==
  /\ selected[p] # None
  /\ \/ exhausted[p] # None
     \/ /\ receipt[selected[p]] /\ excluded[selected[p]] = None
        /\ CausesOf(selected[p]) = {}

Settling == pc = "select" /\ ~cancel /\ Spent = {}

\* Every pair is answered: one more audit before the end.
Resolve ==
  /\ Settling
  /\ \A p \in Primaries : Answered(p)
  /\ Go("final")
  /\ UNCHANGED <<vars, runtime, unresolved, store, intent, faults, ghost>>

\* Mutant of Reopened: the final audit is not looked at.
ReopenedNever == FALSE

\* The final audit took an answer back.
Reopened == \E p \in Primaries : excluded[selected[p]] # None /\ exhausted[p] = None

Complete ==
  /\ pc = "final" /\ ~cancel
  /\ IF Reopened THEN Go("drain") /\ UNCHANGED <<vars, poisoned, storageFailed, faults, ghost>>
     ELSE Commit(CanEnd("completed", 0), Ended("completed", 0), "finish", "abort")
  /\ UNCHANGED <<runtime, unresolved, emergency, intent>>

\* No event, nothing to start, or a breach, spacing or stale telemetry to wait
\* out: sleep() until the next cadence or a signal.
Sleep ==
  /\ Settling
  /\ \E p \in Primaries : ~Answered(p)
  /\ Go("drain")
  /\ UNCHANGED <<vars, runtime, unresolved, store, intent, faults, ghost>>

\* Mutant of Fits: the block's own demand is forgotten.
FitsBefore(p) == Cardinality(Running) <= RunCap

\* An attempt holds its place until its death is in the journal.
Fits(p) == Cardinality(Running) + Cardinality(SlotsOf(p)) <= RunCap

Ordinal(p) ==
  [s \in SlotsOf(p) |->
     IF selected[p] = None THEN 1
     ELSE 1 + Number(CHOOSE a \in Members(selected[p]) : Sample(a) = s)]

ActivateBlock(p) ==
  /\ Settling
  /\ Fits(p)
  /\ \/ /\ selected[p] = None
        /\ Commit(CanBegin(p, Ordinal(p), 0), BlockActivated(p, Ordinal(p), 0), "drain", "abort")
     \/ /\ selected[p] # None /\ Failed(p)
        /\ \E r \in Reserves \ consumed, cause \in CausesOf(selected[p]) :
             /\ CellOf[r] = CellOf[p]
             /\ Commit(CanReplace(p, r, cause, Ordinal(p), 0),
                       BlockReplaced(p, r, cause, Ordinal(p), 0), "drain", "abort")
  /\ UNCHANGED <<runtime, unresolved, emergency, intent>>

----
(* Starting the block. *)

CreateContainer(a) ==
  /\ pc = "create" /\ ~cancel
  /\ a \in Unbound
  /\ \/ CreateSucceeds(a) /\ Go("bind") /\ UNCHANGED faults
     \/ Fault /\ CreateFails(a) /\ Go("abort")
  /\ UNCHANGED <<vars, unresolved, store, intent, ghost>>

Bind(a) ==
  /\ pc = "bind" /\ ~cancel
  /\ a \in Unbound /\ requests[a] = "never-issued"
  /\ Commit(CanBind(a, a, 0), RuntimeBound(a, a, 0), "start", "abort")
  /\ UNCHANGED <<runtime, unresolved, emergency, intent>>

\* The launch spacing is waited out with the events drained.
WaitSpacing ==
  /\ pc = "start" /\ ~cancel
  /\ Reported # {}
  /\ Go("drain")
  /\ UNCHANGED <<vars, runtime, unresolved, store, intent, faults, ghost>>

StartContainer(a) ==
  /\ pc = "start" /\ ~cancel
  /\ a \in ToStart
  /\ \/ StartSucceeds(a) /\ Go("receipt") /\ UNCHANGED faults
     \/ Fault /\ StartFails(a) /\ Go("abort")
  /\ UNCHANGED <<vars, unresolved, store, intent, ghost>>

\* The receipt of a start is committed though the operator has cancelled.
Receipt(a) ==
  /\ pc = "receipt"
  /\ a \in ToStart /\ requests[a] = "settled"
  /\ Commit(CanStart(a, 0, 0), RuntimeStarted(a, 0, 0),
            IF cancel THEN "abort" ELSE "drain", "abort")
  /\ UNCHANGED <<runtime, unresolved, emergency, intent>>

----
(* The end of the session. *)

AbortAttempt(a) ==
  /\ pc = "abort"
  /\ a \in Running \ unresolved
  /\ \/ /\ Proves(a)
        /\ Commit(CanAccount(a, ProofOf(a), ContainerOf(a), 0, 0),
                  AccountingObserved(a, ProofOf(a), ContainerOf(a), 0, 0), "abort", "abort")
        /\ unresolved' = IF Stopped(a)' THEN unresolved ELSE unresolved \cup {a}
     \/ /\ unresolved' = unresolved \cup {a}
        /\ IF requests[a] = "uncertain" THEN UNCHANGED faults ELSE Fault
        /\ StopUnresolved(a)
        /\ UNCHANGED <<vars, pc, poisoned, storageFailed, ghost>>
  /\ UNCHANGED <<emergency, intent>>

AbortOutcome == IF cancel /\ ~loss THEN "cancelled" ELSE "interrupted"

AbortEnd ==
  /\ pc = "abort"
  /\ Running \subseteq unresolved
  /\ IF ended # None THEN Go("finish") /\ UNCHANGED <<vars, poisoned, storageFailed, faults, ghost>>
     ELSE Commit(CanEnd(AbortOutcome, 0), Ended(AbortOutcome, 0), "finish", "done")
  /\ emergency' = (emergency \/ storageFailed \/ poisoned')
  /\ IF pc' = "done" THEN RuntimeForgotten ELSE UNCHANGED <<requests, follower>>
  /\ UNCHANGED <<box, late, unresolved, intent>>

Recorded ==
  [a \in Known |-> [proof |-> proof[a], container |-> container[a], at |-> stoppedAt[a]]]

Closable == ~storageFailed /\ unresolved = {} /\ NoUnsettledStarts /\ Running = {}

\* finish() clears the host's claim when the termination is in the journal; it
\* may throw, and the session is over all the same.
Finish ==
  /\ pc = "finish"
  /\ \/ /\ Closable
        /\ Commit(CanTerminate(start, Recorded, 0), TerminationVerified(start, Recorded, 0),
                  "done", "done")
     \/ /\ ~Closable
        /\ Go("done")
        /\ UNCHANGED <<vars, poisoned, storageFailed, faults, ghost>>
  /\ emergency' \in {emergency, emergency \/ poisoned'}
  /\ RuntimeForgotten /\ UNCHANGED <<box, late>>
  /\ UNCHANGED <<unresolved, intent>>

\* The controller dies, of itself or because the canceller kills it.
Crash ==
  /\ ~Over /\ pc # "launch"
  /\ \/ cancel /\ UNCHANGED faults
     \/ Fault
  /\ Go("dead")
  /\ RuntimeForgotten /\ UNCHANGED <<box, late>>
  /\ UNCHANGED <<vars, unresolved, store, intent, ghost>>

----
(* The operator and the canceller. *)

\* The intent is on disk before anything is stopped, and says whether the
\* controller was already lost.
Cancel ==
  /\ controller # None /\ ~cancel /\ ~terminated
  /\ cancel' = TRUE /\ loss' = Over
  /\ UNCHANGED <<vars, runtime, pc, unresolved, store, faults, ghost>>

\* A start that was bound and has no receipt is uncertain for ever.
CancelSettled(a) ==
  IF boundAt[a] = None THEN "never-issued"
  ELSE IF startedAt[a] # None THEN "settled"
  ELSE "uncertain"

CancelCommit(accepted, transition) ==
  \/ transition /\ UNCHANGED refused
  \/ ~accepted /\ refused' = TRUE /\ UNCHANGED vars

\* With the controller verified dead, a worker at a time, by a runtime that
\* created no container.
Reconcile(a) ==
  /\ cancel /\ Over /\ ~terminated
  /\ a \in Running
  /\ \/ /\ Absent(a) /\ (boundAt[a] # None => startedAt[a] # None)
        /\ CancelCommit(CanAccount(a, "verified_absent", container[a], 0, 0),
                        AccountingObserved(a, "verified_absent", container[a], 0, 0))
        /\ UNCHANGED runtime
     \/ /\ StopProves(a, CancelSettled(a))
        /\ CancelCommit(CanAccount(a, "inspected_stopped", a, 0, 0),
                        AccountingObserved(a, "inspected_stopped", a, 0, 0))
  /\ UNCHANGED <<pc, unresolved, store, intent, faults, broken>>

CancelEnds ==
  /\ cancel /\ Over /\ ~terminated
  /\ Running = {}
  /\ IF ended = None THEN CancelCommit(CanEnd(AbortOutcome, 0), Ended(AbortOutcome, 0))
     ELSE CancelCommit(CanTerminate(start, Recorded, 0), TerminationVerified(start, Recorded, 0))
  /\ UNCHANGED <<runtime, pc, unresolved, store, intent, faults, broken>>

----
ControllerStep ==
  \/ Launch \/ Throw \/ Drained \/ AuditDone \/ Resolve \/ Complete \/ Sleep
  \/ WaitSpacing \/ AbortEnd \/ Finish
  \/ \E a \in Attempts : \/ DrainStopped(a) \/ DrainFailed(a) \/ StopSibling(a)
                        \/ CreateContainer(a) \/ Bind(a) \/ StartContainer(a) \/ Receipt(a)
                        \/ AbortAttempt(a)
  \/ \E b \in Blocks : AuditBlock(b)
  \/ \E p \in Primaries : Exhaust(p) \/ ActivateBlock(p)

CancellerStep == Cancel \/ CancelEnds \/ \E a \in Attempts : Reconcile(a)

WorldStep ==
  /\ \/ DaemonCatchesUp /\ UNCHANGED faults
     \/ \E a \in Attempts : (WorkerEnds(a) \/ FollowerSees(a)) /\ UNCHANGED faults
     \/ \E a \in Attempts : FollowerFails(a) /\ Fault
  /\ UNCHANGED <<vars, pc, unresolved, store, intent, ghost>>

SessionNext == ControllerStep \/ CancellerStep \/ WorldStep \/ Crash

SessionSpec == SessionInit /\ [][SessionNext]_allVars

\* The controller's thread runs on, and what it waits for comes: a worker ends
\* by its deadline, docker wait reports it, telemetry lets an audit decide, and
\* spacing and breaches let a block in.  An operator's cancel is repeated until
\* it is done.
SessionFairness ==
  /\ WF_allVars(ControllerStep)
  /\ SF_allVars(\E b \in Blocks : excluded[b] = None /\ ~receipt[b] /\ AuditBlock(b))
  /\ SF_allVars(\E p \in Primaries : ActivateBlock(p))
  /\ \A a \in Attempts : /\ WF_allVars(WorkerEnds(a) /\ WorldStep)
                         /\ WF_allVars(FollowerSees(a) /\ WorldStep)
                         /\ WF_allVars(Reconcile(a))
  /\ WF_allVars(CancelEnds)

FairSession == SessionSpec /\ SessionFairness

----
(* Properties. *)

SessionTypeOK ==
  /\ TypeOK
  /\ box \in [Attempts -> BoxStates]
  /\ late \subseteq ({"create", "start"} \X Attempts)
  /\ requests \in [Attempts -> Settlements]
  /\ follower \in [Attempts -> {"none", "watching", "stopped", "failed", "read"}]
  /\ pc \in Guarded \cup {"launch", "receipt", "finish", "abort", "done", "dead"}
  /\ unresolved \subseteq Known
  /\ {poisoned, storageFailed, emergency, cancel, loss, broken, refused} \subseteq BOOLEAN
  /\ faults \in 0..MaxFaults

\* A proof of death in the journal is true and stays true: no worker it names
\* is running or will be, whatever docker clients timed out, whoever died, and
\* whether the controller or the canceller took the proof.
DeathIsReal ==
  \A a \in Attempts : Stopped(a) => box[a] # "running" /\ <<"start", a>> \notin late

\* No worker runs before its container is bound in the journal, so whoever
\* comes after a crash finds every worker that may spend.
BoundBeforeRunning == \A a \in Attempts : box[a] = "running" => boundAt[a] # None

\* Two generations of one pair never run side by side on the host, and the
\* workers running are never more than the cap.
HostIsShared ==
  LET running == {a \in Attempts : box[a] = "running"} IN
  /\ Cardinality(running) <= RunCap
  /\ \A a, o \in running :
       PrimaryOf[Sample(a)] = PrimaryOf[Sample(o)] => blockOf[a] = blockOf[o]

\* When the campaign is terminated, and the host given to the next, nothing of
\* it runs or can still be started.
NothingOutlives ==
  terminated => \A a \in Attempts : box[a] # "running" /\ <<"start", a>> \notin late

\* All three: what the journal says of the workers is what the host has.
WorkersAreKnown == DeathIsReal /\ BoundBeforeRunning /\ NothingOutlives

\* A campaign is called complete only when no pair it counts has an attempt
\* that failed for a reason of the instrument (the journal alone would let one
\* pass).
HonestCompletion ==
  ended = "completed" => \A p \in Primaries : exhausted[p] # None \/ CausesOf(selected[p]) = {}

\* commit() reads a refusal by the journal's own rules as a failure of storage:
\* the controller commits nothing the rules refuse, but an operator's
\* cancellation with a worker whose death it could not prove.
RefusedOnlyUnproved == refused => cancel /\ unresolved # {}

\* The emergency reserve is spent on a failure of storage only.
ReserveIsForStorage == emergency => broken

\* A session that started ends.
SessionEnds == (pc # "launch") ~> Over

\* A cancelled campaign is terminated, but for a start nobody can settle.
CancelEndsIt ==
  cancel ~> \/ terminated
            \/ Over /\ \E a \in Running : boundAt[a] # None /\ startedAt[a] = None

\* Both: every session ends, and a cancelled campaign is terminated.
SessionsEnd == SessionEnds /\ CancelEndsIt
====
