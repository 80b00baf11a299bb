---- MODULE CampaignLifecycle ----
(***************************************************************************)
(* Who owns the host: launchers, the gated children they spawn, cancellers *)
(* and other mutations of the appliance, over run.lock, the live-spend     *)
(* lease, each journal's lease, the host claim, the cancel intent and the  *)
(* launcher's release marker.  Every process may die between two steps.    *)
(*                                                                         *)
(* The leases are taken here in one step, at the grain DirLease refines;   *)
(* run.lock is not a lease: it is a directory and then a record in it, and *)
(* nobody severs it but a canceller.  What a controller does inside its    *)
(* session is Controller's; here it has one worker, from its binding to    *)
(* the proof of its death, its end and its termination.                    *)
(***************************************************************************)
EXTENDS Naturals, FiniteSets

CONSTANTS
  None,
  Blank,        \* a run.lock in which there is no record
  Campaigns,
  Launchers, Controllers, Cancellers, Mutators,  \* disjoint sets of processes
  CampaignOf,   \* the campaign of each launcher, controller and canceller
  ChildOf,      \* the controller process each launcher may spawn
  MaxFaults,    \* deaths and thrown errors in one behaviour
  Casts         \* who takes part in a behaviour, and how many faults befall them

Processes == Launchers \cup Controllers \cup Cancellers \cup Mutators

ASSUME LifecycleAssumption ==
  /\ None \notin Campaigns \cup Processes \cup {"completed", "cancelled", "interrupted"}
  /\ Blank \notin Processes \cup {None}
  /\ Launchers \cap (Controllers \cup Cancellers \cup Mutators) = {}
  /\ Controllers \cap (Cancellers \cup Mutators) = {} /\ Cancellers \cap Mutators = {}
  /\ CampaignOf \in [Launchers \cup Controllers \cup Cancellers -> Campaigns]
  /\ ChildOf \in [Launchers -> Controllers]
  /\ \A l, m \in Launchers : ChildOf[l] = ChildOf[m] => l = m
  /\ \A l \in Launchers : CampaignOf[ChildOf[l]] = CampaignOf[l]
  /\ MaxFaults \in Nat
  /\ Casts \subseteq [who : SUBSET (Processes \ Controllers), faults : 0 .. MaxFaults]

VARIABLES
  run,         \* who holds run.lock, or Blank
  lease,       \* who holds the live-spend lease
  claim,       \* the campaign of the durable host claim
  start,       \* journal: the launcher that consumed the campaign's start
  controller,  \* journal: the bound child
  ended,       \* journal: the outcome
  terminated,  \* journal: the termination is verified
  writer,      \* who holds the journal's lease, and is its elected writer
  intent,      \* the cancel intent: "ordinary", or "loss" of the controller
  released,    \* the launcher's release marker is on disk
  worker,      \* the campaign's worker, as it is and as the journal has it
  pc,          \* where each process is
  gate,        \* the pipe of each launcher's child
  saw,         \* what a canceller read last: claim, controller, loss of it, run.lock
  faults

journal == <<start, controller, ended, terminated>>
locks == <<run, lease, writer>>
marks == <<claim, intent, released>>
vars == <<locks, journal, marks, worker, pc, gate, saw, faults>>

Nothing == [claim |-> FALSE, controller |-> None, loss |-> FALSE, lock |-> None]

Init ==
  /\ run = None /\ lease = None /\ claim = None
  /\ writer = [c \in Campaigns |-> None]
  /\ start = [c \in Campaigns |-> None]
  /\ controller = [c \in Campaigns |-> None]
  /\ ended = [c \in Campaigns |-> None]
  /\ terminated = [c \in Campaigns |-> FALSE]
  /\ intent = [c \in Campaigns |-> None]
  /\ released = [c \in Campaigns |-> FALSE]
  /\ worker = [c \in Campaigns |-> "none"]
  /\ \E cast \in Casts :
       /\ pc = [p \in Processes |-> CASE p \in Controllers -> "unborn"
                                      [] p \in cast.who -> "idle"
                                      [] OTHER -> "done"]
       /\ faults = MaxFaults - cast.faults
  /\ gate = [l \in Launchers |-> "none"]
  /\ saw = [x \in Cancellers |-> Nothing]

At(p, place) == pc[p] = place
Go(p, place) == pc' = [pc EXCEPT ![p] = place]

\* A process that returned has exited.
Gone(p) == pc[p] \in {"dead", "done"}

\* "bound": created, and its binding on record.  "asked": docker was asked to start
\* it.  "started" and "lapsed": it runs or ran, and its start is not on record.
\* "running" and "exited": the start is.  "stopped": its death is.
Workings == {"none", "bound", "asked", "started", "lapsed", "running", "exited", "stopped"}
Settled(c) == worker[c] \in {"none", "stopped"}
Recorded(c) == worker[c] \in {"running", "exited"}

Fault == faults < MaxFaults /\ faults' = faults + 1

----
(* Locks. *)

\* Every entry point releases in its finally what it still holds, and run.lock
\* only if the record is its own.  One that cannot write the record removes what
\* is at the path, whosever it is.
ReleaseAll(p) ==
  /\ run' = IF run = p \/ At(p, "record") THEN None ELSE run
  /\ lease' = IF lease = p THEN None ELSE lease
  /\ writer' = [c \in Campaigns |-> IF writer[c] = p THEN None ELSE writer[c]]

Forget(p) == saw' = [x \in Cancellers |-> IF x = p THEN Nothing ELSE saw[x]]

\* Giving up: an operator repeats a cancel that came back unresolved; a launch
\* that is refused destroys its child's pipe.
GiveUp(p) ==
  /\ ReleaseAll(p)
  /\ Go(p, IF p \in Cancellers THEN "idle" ELSE "done")
  /\ gate' = [l \in Launchers |-> IF l = p /\ gate[l] = "closed" THEN "broken" ELSE gate[l]]
  /\ Forget(p)

Free(holder) == holder # None => Gone(holder)

\* acquireLock: mkdir, which one wins.
TakeRun(p) ==
  /\ At(p, "run")
  /\ \/ /\ run = None
        /\ run' = Blank /\ Go(p, "record")
        /\ UNCHANGED <<lease, writer, gate, saw>>
     \/ run # None /\ GiveUp(p)
  /\ UNCHANGED <<journal, marks, worker, faults>>

\* Then the record, by path, and a look at the directory that is there: it may have
\* been renamed away meanwhile, and be another's by now.
RecordRun(p) ==
  /\ At(p, "record")
  /\ \/ /\ run # None
        /\ run' = p /\ Go(p, "lease")
        /\ UNCHANGED <<lease, writer, gate, saw>>
     \/ run = None /\ GiveUp(p)
  /\ UNCHANGED <<journal, marks, worker, faults>>

AcquireRun(p) == TakeRun(p) \/ RecordRun(p)

\* Nobody is admitted past a claim but its own controller, before any cancel,
\* and the canceller that has the intent.
AuthorityHolds(p) ==
  CASE p \in Controllers ->
         LET c == CampaignOf[p] IN
         claim = c /\ controller[c] = p /\ ended[c] = None /\ intent[c] = None
    [] p \in Cancellers ->
         LET c == CampaignOf[p] IN
         IF saw[p].claim THEN claim = c /\ intent[c] # None ELSE claim = None
    [] OTHER -> claim = None

\* Authority is judged under the lease.
AcquireLease(p, next) ==
  /\ At(p, "lease") /\ Free(lease) /\ AuthorityHolds(p)
  /\ lease' = p /\ Go(p, next)
  /\ UNCHANGED <<run, writer, journal, marks, worker, gate, saw, faults>>

\* A dead holder's lease may still look fresh.
RefuseLease(p) ==
  /\ At(p, "lease")
  /\ lease # None \/ ~AuthorityHolds(p)
  /\ GiveUp(p)
  /\ UNCHANGED <<journal, marks, worker, faults>>

TakeLease(p, next) == AcquireLease(p, next) \/ RefuseLease(p)

Elected(p, next) ==
  LET c == CampaignOf[p] IN
  /\ At(p, "elect") /\ Free(writer[c])
  /\ writer' = [writer EXCEPT ![c] = p] /\ Go(p, next)
  /\ UNCHANGED <<run, lease, journal, marks, worker, gate, saw, faults>>

NotElected(p) ==
  /\ At(p, "elect") /\ writer[CampaignOf[p]] # None
  /\ GiveUp(p)
  /\ UNCHANGED <<journal, marks, worker, faults>>

Elect(p, next) == Elected(p, next) \/ NotElected(p)

----
(* The launcher. *)

\* A claim of another campaign is an error, unless this one is over; so is
\* work without a claim.
LifecycleOk(c) ==
  /\ claim \notin {None, c} => terminated[c]
  /\ claim # c /\ ~terminated[c] => controller[c] = None /\ worker[c] = "none"

\* Only a campaign that shows as registered is launched.
Observe(l) ==
  LET c == CampaignOf[l] IN
  /\ At(l, "idle")
  /\ Go(l, IF LifecycleOk(c) /\ start[c] = None THEN "run" ELSE "done")
  /\ UNCHANGED <<locks, journal, marks, worker, gate, saw, faults>>

\* The fold consumes a start once.
CommitStart(l) ==
  LET c == CampaignOf[l] IN
  /\ At(l, "start")
  /\ \/ /\ writer[c] = l /\ start[c] = None
        /\ start' = [start EXCEPT ![c] = l] /\ Go(l, "claim")
        /\ UNCHANGED <<controller, ended, terminated, locks, gate, saw>>
     \/ (writer[c] # l \/ start[c] # None) /\ GiveUp(l) /\ UNCHANGED journal
  /\ UNCHANGED <<marks, worker, faults>>

PublishClaim(l) ==
  LET c == CampaignOf[l] IN
  /\ At(l, "claim")
  /\ lease = l /\ start[c] = l /\ ended[c] = None /\ claim = None
  /\ claim' = c /\ Go(l, "spawn")
  /\ UNCHANGED <<locks, journal, intent, released, worker, gate, saw, faults>>

Spawn(l) ==
  /\ At(l, "spawn")
  /\ pc' = [pc EXCEPT ![l] = "bind", ![ChildOf[l]] = "gated"]
  /\ gate' = [gate EXCEPT ![l] = "closed"]
  /\ UNCHANGED <<locks, journal, marks, worker, saw, faults>>

\* The child may die between its birth being read and the commit.
BindController(l) ==
  LET c == CampaignOf[l] IN
  /\ At(l, "bind")
  /\ \/ /\ writer[c] = l /\ controller[c] = None
        /\ controller' = [controller EXCEPT ![c] = ChildOf[l]] /\ Go(l, "check")
        /\ UNCHANGED <<start, ended, terminated, locks, gate, saw>>
     \/ Gone(ChildOf[l]) /\ GiveUp(l) /\ UNCHANGED journal
  /\ UNCHANGED <<marks, worker, faults>>

OpenStart(p) ==
  LET c == CampaignOf[p] IN
  /\ writer[c] = p /\ lease = p
  /\ intent[c] = None
  /\ start[c] # None /\ ended[c] = None

\* Under all its locks the launcher looks once more, and lets go of them.
ReleaseLeases(l) ==
  /\ At(l, "check")
  /\ \/ /\ run = l /\ OpenStart(l)
        /\ ReleaseAll(l) /\ Go(l, "publish")
        /\ UNCHANGED <<gate, saw>>
     \/ ~(run = l /\ OpenStart(l)) /\ GiveUp(l)
  /\ UNCHANGED <<journal, marks, worker, faults>>

ReleaseSeemsFree(c, child) ==
  /\ LifecycleOk(c) /\ claim = c
  /\ controller[c] = child /\ ended[c] = None /\ intent[c] = None
  /\ run = None /\ writer[c] = None /\ lease = None

CheckRelease(l) ==
  /\ At(l, "publish")
  /\ \/ /\ ReleaseSeemsFree(CampaignOf[l], ChildOf[l])
        /\ Go(l, "mark")
        /\ UNCHANGED <<locks, gate, saw>>
     \/ ~ReleaseSeemsFree(CampaignOf[l], ChildOf[l]) /\ GiveUp(l)
  /\ UNCHANGED <<journal, marks, worker, faults>>

MarkReleased(l) ==
  /\ At(l, "mark")
  /\ released' = [released EXCEPT ![CampaignOf[l]] = TRUE]
  /\ Go(l, "gate")
  /\ UNCHANGED <<locks, journal, claim, intent, worker, gate, saw, faults>>

OpenGate(l) ==
  /\ At(l, "gate")
  /\ gate' = [gate EXCEPT ![l] = "open"]
  /\ Go(l, "done")
  /\ UNCHANGED <<locks, journal, marks, worker, saw, faults>>

----
(* The controller. *)

ParentOf(k) == CHOOSE l \in Launchers : ChildOf[l] = k

\* The pipe closed without the start's id, or thirty seconds went by.
GateFails(k) ==
  /\ At(k, "gated")
  /\ Go(k, "done")
  /\ UNCHANGED <<locks, journal, marks, worker, gate, saw, faults>>

Enter(k) ==
  LET c == CampaignOf[k] IN
  /\ At(k, "gated") /\ gate[ParentOf(k)] = "open"
  /\ Go(k, IF start[c] # None /\ claim = c /\ controller[c] = k THEN "run" ELSE "done")
  /\ UNCHANGED <<locks, journal, marks, worker, gate, saw, faults>>

Admitted(k) == run = k /\ OpenStart(k) /\ AuthorityHolds(k)

\* Admission is asked for before the dispatch and before every effect in it.
Admit(k) ==
  /\ Admitted(k)
  /\ \/ At(k, "admit") /\ Go(k, "dispatch")
     \/ At(k, "dispatch") /\ worker[CampaignOf[k]] = "none" /\ Go(k, "binding")
     \/ At(k, "bound") /\ Go(k, "starting")
  /\ UNCHANGED <<locks, journal, marks, worker, gate, saw, faults>>

\* create() and runtime_bound.  A container without a binding is known never to
\* have been asked to start.
BindWorker(k) ==
  LET c == CampaignOf[k] IN
  /\ At(k, "binding") /\ writer[c] = k
  /\ worker' = [worker EXCEPT ![c] = "bound"]
  /\ Go(k, "bound")
  /\ UNCHANGED <<locks, journal, marks, gate, saw, faults>>

\* A bound one may not be started any more: refused, or stopped with its sibling.
ForgoStart(k) ==
  /\ At(k, "bound") /\ Go(k, "dispatch")
  /\ UNCHANGED <<locks, journal, marks, worker, gate, saw, faults>>

\* start(): the daemon does what it is asked when it does.
StartWorker(k) ==
  LET c == CampaignOf[k] IN
  /\ At(k, "starting") /\ worker[c] = "bound"
  /\ worker' = [worker EXCEPT ![c] = "asked"]
  /\ Go(k, "waiting")
  /\ UNCHANGED <<locks, journal, marks, gate, saw, faults>>

\* runtime_started.
RecordStart(k) ==
  LET c == CampaignOf[k] IN
  /\ At(k, "waiting") /\ writer[c] = k
  /\ worker[c] \in {"started", "lapsed"}
  /\ worker' = [worker EXCEPT ![c] = IF @ = "started" THEN "running" ELSE "exited"]
  /\ Go(k, "dispatch")
  /\ UNCHANGED <<locks, journal, marks, gate, saw, faults>>

\* docker's client failed: the start is uncertain, and stays so.
StartFails(k) ==
  /\ At(k, "waiting") /\ Go(k, "dispatch")
  /\ UNCHANGED <<locks, journal, marks, worker, gate, saw, faults>>

\* The controller sees its worker end, or stops it, and records its death; an
\* uncertain start it cannot settle.  It knows of one that it could not record.
StopWorker(k) ==
  LET c == CampaignOf[k] IN
  /\ writer[c] = k
  /\ \/ At(k, "dispatch") /\ (worker[c] = "bound" \/ Recorded(c)) /\ UNCHANGED <<pc, faults>>
     \/ At(k, "waiting") /\ worker[c] \in {"started", "lapsed"} /\ Fault /\ Go(k, "dispatch")
  /\ worker' = [worker EXCEPT ![c] = "stopped"]
  /\ UNCHANGED <<locks, journal, marks, gate, saw>>

\* A worker whose death cannot be proved leaves only an interruption.
EndSession(k) ==
  LET c == CampaignOf[k] IN
  /\ At(k, "dispatch") /\ writer[c] = k
  /\ \E outcome \in {"completed", "cancelled", "interrupted"} :
       /\ outcome # "interrupted" => Settled(c)
       /\ outcome = "cancelled" => intent[c] # None
       /\ ended' = [ended EXCEPT ![c] = outcome]
  /\ Go(k, "ended")
  /\ UNCHANGED <<start, controller, terminated, locks, marks, worker, gate, saw, faults>>

\* Mutant of Terminable: the workers on record are not all asked for their death.
TerminableUnsettled(k) ==
  LET c == CampaignOf[k] IN
  /\ run = k /\ lease = k /\ writer[c] = k
  /\ claim = c /\ controller[c] = k /\ released[c]

\* The controller closes its campaign only when its launcher's part is over.
Terminable(k) ==
  LET c == CampaignOf[k] IN
  /\ run = k /\ lease = k /\ writer[c] = k
  /\ claim = c /\ controller[c] = k /\ released[c] /\ Settled(c)

Terminate(k) ==
  /\ At(k, "ended")
  /\ IF Terminable(k)
       THEN /\ terminated' = [terminated EXCEPT ![CampaignOf[k]] = TRUE]
            /\ Go(k, "clear")
       ELSE /\ Go(k, "finish")
            /\ UNCHANGED terminated
  /\ UNCHANGED <<start, controller, ended, locks, marks, worker, gate, saw, faults>>

Clearable(p, c) == lease = p /\ claim = c /\ terminated[c]

ClearClaim(p) ==
  /\ At(p, "clear")
  /\ Clearable(p, CampaignOf[p])
  /\ claim' = None
  /\ Go(p, "finish")
  /\ UNCHANGED <<locks, journal, intent, released, worker, gate, saw, faults>>

\* The fences stay up until the report was tried.
Finish(p) ==
  /\ At(p, "finish")
  /\ ReleaseAll(p) /\ Forget(p)
  /\ Go(p, "done")
  /\ UNCHANGED <<journal, marks, worker, gate, faults>>

----
(* Cancellation.  Whatever it throws comes back as unresolved. *)

Sees(x) == [Nothing EXCEPT !.claim = claim = CampaignOf[x], !.controller = controller[CampaignOf[x]]]

Over(c) == terminated[c] /\ claim # c

\* One reading of the journal, the claim and the intent: the campaign is over,
\* or the cancel goes on, or the records contradict each other.
Reads(x, seen, next) ==
  LET c == CampaignOf[x] IN
  /\ \/ LifecycleOk(c) /\ Over(c) /\ Go(x, "done") /\ Forget(x) /\ UNCHANGED <<locks, gate>>
     \/ /\ LifecycleOk(c) /\ ~Over(c)
        /\ saw' = [saw EXCEPT ![x] = seen] /\ Go(x, next)
        /\ UNCHANGED <<locks, gate>>
     \/ ~LifecycleOk(c) /\ GiveUp(x)
  /\ UNCHANGED <<journal, marks, worker, faults>>

\* Whether the controller, or the launcher before it, was lost is judged now and
\* written with the intent.
BeginCancel(x) ==
  LET c == CampaignOf[x]
      last == IF controller[c] # None THEN controller[c] ELSE start[c]
  IN
  /\ At(x, "idle") /\ start[c] # None
  /\ IF intent[c] = None THEN Reads(x, [Sees(x) EXCEPT !.loss = Gone(last)], "intent")
                         ELSE Reads(x, Sees(x), "settle")

\* Another canceller's intent has other bytes.
PublishIntent(x) ==
  LET c == CampaignOf[x] IN
  /\ At(x, "intent")
  /\ \/ /\ intent[c] = None
        /\ intent' = [intent EXCEPT ![c] = IF saw[x].loss THEN "loss" ELSE "ordinary"]
        /\ saw' = [saw EXCEPT ![x].loss = FALSE]
        /\ Go(x, "settle")
        /\ UNCHANGED <<locks, gate>>
     \/ intent[c] # None /\ GiveUp(x) /\ UNCHANGED intent
  /\ UNCHANGED <<journal, claim, released, worker, faults>>

Kill(p, x, next) ==
  pc' = [q \in Processes |-> IF q = x THEN next
                            ELSE IF q = p /\ ~Gone(p) THEN "dead" ELSE pc[q]]

SettleController(x) ==
  /\ pc[x] \in {"settle", "resettle"}
  /\ Kill(saw[x].controller, x, IF At(x, "settle") THEN "launcher" ELSE "reread")
  /\ UNCHANGED <<locks, journal, marks, worker, gate, saw, faults>>

\* A launcher that has released its role is left alone.
SettleLauncher(x) ==
  LET c == CampaignOf[x] IN
  /\ At(x, "launcher")
  /\ IF released[c] THEN Go(x, "rebind") ELSE Kill(start[c], x, "rebind")
  /\ UNCHANGED <<locks, journal, marks, worker, gate, saw, faults>>

\* Mutant of RereadBinding: the cancel goes on with what it read first.
RereadBindingNot(x) ==
  /\ At(x, "rebind")
  /\ Go(x, "judge")
  /\ UNCHANGED <<locks, journal, marks, worker, gate, saw, faults>>

\* The launcher may have bound a child while it was being stopped.
RereadBinding(x) ==
  /\ At(x, "rebind")
  /\ Reads(x, Sees(x), "resettle")

\* Its binding is stable from now on.
RereadSettled(x) ==
  /\ At(x, "reread")
  /\ IF controller[CampaignOf[x]] = saw[x].controller
       THEN Reads(x, Sees(x), "judge")
       ELSE GiveUp(x) /\ UNCHANGED <<journal, marks, worker, faults>>

\* Mutant of RunLockOwners: a launcher that died before it bound a child is not looked for.
RunLockOwnersBound(c) == {controller[c]} \ {None}

RunLockOwners(c) == {start[c], controller[c]} \ {None}

\* run.lock may be taken away only from this start's dead launcher or controller.
JudgeRunLock(x) ==
  LET owned == run \in RunLockOwners(CampaignOf[x]) /\ Gone(run) IN
  /\ At(x, "judge")
  /\ \/ run = None /\ Go(x, "run") /\ UNCHANGED <<locks, gate, saw>>
     \/ /\ run # None /\ owned
        /\ saw' = [saw EXCEPT ![x].lock = run] /\ Go(x, "reclaim")
        /\ UNCHANGED <<locks, gate>>
     \/ run # None /\ ~owned /\ GiveUp(x)
  /\ UNCHANGED <<journal, marks, worker, faults>>

\* The rename takes whatever is at the path by now.
ReclaimRunLock(x) ==
  /\ At(x, "reclaim")
  /\ \/ run = None /\ GiveUp(x)
     \/ /\ run # None /\ run' = None
        /\ Go(x, IF run = saw[x].lock THEN "run" ELSE "restore")
        /\ saw' = [saw EXCEPT ![x].lock = IF run = @ THEN None ELSE run]
        /\ UNCHANGED <<lease, writer, gate>>
  /\ UNCHANGED <<journal, marks, worker, faults>>

\* What was not judged goes back, unless the path was taken meanwhile; the rename
\* replaces a directory that is empty.
RestoreRunLock(x) ==
  /\ At(x, "restore")
  /\ run' \in CASE run = None -> {saw[x].lock} [] run = Blank -> {Blank, saw[x].lock} [] OTHER -> {run}
  /\ Forget(x) /\ Go(x, "idle")
  /\ UNCHANGED <<lease, writer, journal, marks, worker, gate, faults>>

CancelWriter == {"workers", "end", "terminate"}

\* The elected canceller reads once more, and stops what it finds; a worker whose
\* death cannot be proved ends this cancel.
SettleWorkers(x) ==
  LET c == CampaignOf[x] IN
  /\ At(x, "workers")
  /\ controller[c] = saw[x].controller /\ writer[c] = x
  /\ \/ /\ Settled(c) \/ Recorded(c)
        /\ worker' = [worker EXCEPT ![c] = IF Recorded(c) THEN "stopped" ELSE @]
        /\ Go(x, IF ~terminated[c] THEN "end" ELSE IF saw[x].claim THEN "clear" ELSE "finish")
        /\ UNCHANGED <<locks, gate, saw, faults>>
     \/ Recorded(c) /\ Fault /\ GiveUp(x) /\ UNCHANGED worker
  /\ UNCHANGED <<journal, marks>>

\* Of one that was bound and whose start is not on record nobody can say any more
\* whether docker is to start it: docker stop goes out, and proves nothing.
Unsettleable(x) ==
  LET c == CampaignOf[x] IN
  /\ At(x, "workers")
  /\ ~Settled(c) /\ ~Recorded(c)
  /\ \E now \in {worker[c]} \cup {w \in {"lapsed"} : worker[c] = "started"} :
       worker' = [worker EXCEPT ![c] = now]
  /\ GiveUp(x)
  /\ UNCHANGED <<journal, marks, faults>>

CancelEnd(x) ==
  LET c == CampaignOf[x] IN
  /\ At(x, "end") /\ writer[c] = x
  /\ ended' = [ended EXCEPT ![c] =
        IF @ # None THEN @ ELSE IF intent[c] = "ordinary" THEN "cancelled" ELSE "interrupted"]
  /\ Go(x, "terminate")
  /\ UNCHANGED <<start, controller, terminated, locks, marks, worker, gate, saw, faults>>

CancelTerminates(x) ==
  LET c == CampaignOf[x] IN
  /\ At(x, "terminate") /\ writer[c] = x
  /\ terminated' = [terminated EXCEPT ![c] = TRUE]
  /\ Go(x, IF saw[x].claim THEN "clear" ELSE "finish")
  /\ UNCHANGED <<start, controller, ended, locks, marks, worker, gate, saw, faults>>

----
(* Another mutation of the appliance: an import, a refresh. *)

BeginMutation(m) ==
  /\ At(m, "idle")
  /\ Go(m, "run")
  /\ UNCHANGED <<locks, journal, marks, worker, gate, saw, faults>>

EndMutation(m) ==
  /\ At(m, "mutating")
  /\ ReleaseAll(m)
  /\ Go(m, "done")
  /\ UNCHANGED <<journal, marks, worker, gate, saw, faults>>

----
(* The world. *)

\* The daemon starts what it was asked to, whatever became of who asked.
DaemonStarts(c) ==
  /\ worker[c] = "asked"
  /\ worker' = [worker EXCEPT ![c] = "started"]
  /\ UNCHANGED <<locks, journal, marks, pc, gate, saw, faults>>

\* Containers outlive whoever started them, and end by their own deadline.
WorkerExits(c) ==
  /\ worker[c] \in {"started", "running"}
  /\ worker' = [worker EXCEPT ![c] = IF @ = "started" THEN "lapsed" ELSE "exited"]
  /\ UNCHANGED <<locks, journal, marks, pc, gate, saw, faults>>

Active(p) == pc[p] \notin {"unborn", "idle", "dead", "done"}

Crash(p) ==
  /\ Active(p) /\ Fault
  /\ Go(p, "dead")
  /\ UNCHANGED <<locks, journal, marks, worker, gate, saw>>

\* Any effect of a launcher, a controller or a canceller may throw.
Throws(p) ==
  /\ Active(p) /\ p \notin Mutators /\ Fault
  /\ pc[p] \notin {"gated", "restore"}
  /\ GiveUp(p)
  /\ UNCHANGED <<journal, marks, worker>>

LauncherStep(l) ==
  \/ Observe(l) \/ AcquireRun(l) \/ TakeLease(l, "elect") \/ Elect(l, "start")
  \/ CommitStart(l) \/ PublishClaim(l) \/ Spawn(l) \/ BindController(l)
  \/ ReleaseLeases(l) \/ CheckRelease(l) \/ MarkReleased(l) \/ OpenGate(l)

ControllerStep(k) ==
  \/ Enter(k) \/ AcquireRun(k) \/ TakeLease(k, "elect") \/ Elect(k, "admit")
  \/ Admit(k) \/ BindWorker(k) \/ ForgoStart(k) \/ StartWorker(k) \/ RecordStart(k) \/ StartFails(k)
  \/ StopWorker(k) \/ EndSession(k)
  \/ Terminate(k) \/ ClearClaim(k) \/ Finish(k)

CancelStep(x) ==
  \/ BeginCancel(x) \/ PublishIntent(x) \/ SettleController(x) \/ SettleLauncher(x)
  \/ RereadBinding(x) \/ RereadSettled(x)
  \/ JudgeRunLock(x) \/ ReclaimRunLock(x) \/ RestoreRunLock(x)
  \/ AcquireRun(x) \/ TakeLease(x, "elect") \/ Elect(x, "workers")
  \/ SettleWorkers(x) \/ Unsettleable(x) \/ CancelEnd(x) \/ CancelTerminates(x) \/ ClearClaim(x) \/ Finish(x)

MutatorStep(m) ==
  BeginMutation(m) \/ AcquireRun(m) \/ TakeLease(m, "mutating") \/ EndMutation(m)

Next ==
  \/ \E l \in Launchers : LauncherStep(l)
  \/ \E k \in Controllers : ControllerStep(k) \/ GateFails(k)
  \/ \E x \in Cancellers : CancelStep(x)
  \/ \E m \in Mutators : MutatorStep(m)
  \/ \E c \in Campaigns : DaemonStarts(c) \/ WorkerExits(c)
  \/ \E p \in Processes : Crash(p) \/ Throws(p)

Spec == Init /\ [][Next]_vars

----
(* Properties. *)

\* Scheduling: every process that runs goes on, containers end, and an operator
\* whose cancel came back unresolved asks again, until a dead holder's lease has
\* gone stale.  Nothing obliges anybody to
\* launch, to die or to begin another mutation.
Fairness ==
  /\ \A l \in Launchers : WF_vars(LauncherStep(l) /\ ~At(l, "idle"))
  /\ \A k \in Controllers : WF_vars(ControllerStep(k)) /\ WF_vars(GateFails(k))
  /\ \A x \in Cancellers :
       /\ WF_vars(CancelStep(x))
       /\ SF_vars(AcquireLease(x, "elect")) /\ SF_vars(Elected(x, "workers"))
  /\ \A m \in Mutators : WF_vars(MutatorStep(m) /\ ~At(m, "idle"))
  /\ \A c \in Campaigns : WF_vars(WorkerExits(c))

LiveSpec == Spec /\ Fairness

Places == {"unborn", "idle", "dead", "done", "run", "lease", "elect", "start", "claim", "spawn",
  "bind", "check", "publish", "mark", "gate", "gated", "admit", "dispatch", "binding", "bound",
  "starting", "waiting", "ended", "clear", "finish", "record", "intent", "settle", "launcher", "rebind", "resettle", "reread", "judge",
  "reclaim", "restore", "workers", "end", "terminate", "mutating"}

\* The type of every variable.
TypeOK ==
  /\ run \in Processes \cup {None, Blank} /\ lease \in Processes \cup {None}
  /\ claim \in Campaigns \cup {None}
  /\ start \in [Campaigns -> Launchers \cup {None}]
  /\ controller \in [Campaigns -> Controllers \cup {None}]
  /\ ended \in [Campaigns -> {None, "completed", "cancelled", "interrupted"}]
  /\ terminated \in [Campaigns -> BOOLEAN] /\ released \in [Campaigns -> BOOLEAN]
  /\ writer \in [Campaigns -> Launchers \cup Controllers \cup Cancellers \cup {None}]
  /\ intent \in [Campaigns -> {None, "ordinary", "loss"}]
  /\ worker \in [Campaigns -> Workings]
  /\ pc \in [Processes -> Places]
  /\ gate \in [Launchers -> {"none", "closed", "open", "broken"}]
  /\ saw \in [Cancellers -> [claim : BOOLEAN, controller : Controllers \cup {None}, loss : BOOLEAN,
                             lock : Processes \cup {None, Blank}]]
  /\ faults \in 0 .. MaxFaults

Abstract == INSTANCE HostOwnership WITH
  owner <- claim,
  spent <- {c \in Campaigns : start[c] # None},
  closed <- {c \in Campaigns : terminated[c]},
  busy <- {c \in Campaigns : worker[c] \in {"started", "running"}}

\* The launch, the session and the cancel, whoever dies in them, are the host
\* ownership of HostOwnership: a start is consumed once, work starts only for
\* the claimed campaign, also when docker starts it after everybody died, and the
\* claim is given up only after nothing is left.
ImplementsOwnership == Abstract!Spec

\* Two who spend never overlap, though cancellation may rename a run.lock that
\* somebody has just taken: nobody mutates the appliance while a campaign has
\* the host, and no two processes act as the writer of a campaign.
Acting(p) == pc[p] \in {"start", "claim", "bind", "check", "admit", "dispatch", "binding", "bound",
                        "starting", "waiting", "ended", "clear", "workers", "end", "terminate", "mutating"}
OneSpender ==
  /\ \A p, q \in Processes : Acting(p) /\ Acting(q) => p = q
  /\ \A m \in Mutators : At(m, "mutating") => claim = None

\* A canceller that settles workers, ends or terminates has nobody left who
\* could start one: the bound controller is dead, and so is the launcher unless
\* it is past its last effect; no other child gets through its gate.
MayStartWork(p, c) ==
  CASE p \in Controllers ->
         /\ pc[p] \in {"run", "record", "lease", "elect", "admit", "dispatch", "binding", "bound", "starting",
                       "waiting"}
         /\ CampaignOf[p] = c
    [] p \in Launchers ->
         pc[p] \in {"claim", "spawn", "bind"} /\ start[c] = p
    [] OTHER -> FALSE
TakeoverIsAlone ==
  \A x \in Cancellers : pc[x] \in CancelWriter =>
    \A p \in Processes : ~MayStartWork(p, CampaignOf[x])

\* Both: whoever spends, or takes over what another spent, is alone with it.
SpendingIsAlone == OneSpender /\ TakeoverIsAlone

\* run.lock is reclaimed from this campaign's own launcher or controller only, and
\* from nobody without a record.
Orphaned(c) ==
  \/ run = Blank /\ \A p \in Processes : ~At(p, "record")
  \/ run \in Processes /\ Gone(run) /\ run \notin {start[c], controller[c]}

\* The controller went between the binding of its worker and the receipt of the start.
Uncertain(c) ==
  /\ ~Settled(c) /\ ~Recorded(c)
  /\ controller[c] # None /\ Gone(controller[c])

\* Whoever dies, a cancelled campaign comes to be terminated and gives up the
\* host, unless nobody is left to ask for it, another campaign got the host in
\* between, a start is uncertain for good, or somebody died with run.lock in its
\* hands: a canceller, a mutation, or anybody before it wrote its record.
CancelEnds ==
  \A c \in Campaigns :
    intent[c] # None ~>
      \/ terminated[c] /\ claim # c
      \/ claim \notin {None, c}
      \/ Uncertain(c)
      \/ Orphaned(c)
      \/ \A x \in Cancellers : CampaignOf[x] = c => Gone(x)

====
