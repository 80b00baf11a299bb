---- MODULE ApplianceJob ----
(***************************************************************************)
(* Jobs of the appliance: the record (src/appliance/jobs.ts), the worker   *)
(* and the cancel command (process.ts), the preflight (preflight.ts) and   *)
(* run.lock (locks.ts), around the one container of ScopedContainer.       *)
(*                                                                         *)
(* Each job has a worker and may have a canceller; both are processes of   *)
(* the host, and either may die between any two steps.  The live command   *)
(* runs inside the container and dies with it, not with the docker client  *)
(* or the worker that started it.  updateJob reads the record, patches it  *)
(* and renames a whole new one into place, under no lock: an update is two *)
(* steps here.                                                             *)
(*                                                                         *)
(* Left out: sync.lock and the live-spend lease, which the same workers    *)
(* take under run.lock (CampaignLifecycle has them against campaigns) and  *)
(* which may refuse here; the fetch, build and probe commands, which may   *)
(* fail; provenance; logs.  A command leaves a verdict, or a batch and in  *)
(* it verdicts of cells.  A job knows its artifact by name once it read it *)
(* on stdout, and otherwise takes the newest there is since shortly before *)
(* its start: the jobs all ask for one scenario and one agent, so that one *)
(* may take what another left.                                             *)
(***************************************************************************)
EXTENDS ScopedContainer, FiniteSets

CONSTANTS
  Requests,   \* what may be asked: "run", "run-all" or "prepare" of each job, which
              \* of them somebody cancels, and how many mishaps befall them
  MaxMishaps  \* bound: processes that die and calls that fail

VARIABLES
  job,      \* of each job: its record
  writing,  \* of each process: the record it is about to put in place
  wpc,      \* of each worker
  plan,     \* of each worker: what it reconciles for, Empty or its job
  given,    \* of each worker: the id of the container it was given
  looked,     \* of each worker: whose artifact it saw, waiting for one
  cpc,      \* of each canceller
  live,     \* of each job: its command in the container
  client,   \* of each job: its docker exec
  artifact, \* of each job: the verdict and the batch its command wrote
  printed,  \* the jobs whose command named its artifact while docker listened
  turn,     \* of each job: the id of the container its command was started in, 0 before
  tooOld,    \* of each job: the last turn whose artifacts are too old for it
  runLock,  \* the job whose worker made run.lock
  mishaps

ASSUME JobAssumption ==
  /\ Absent \notin Nat /\ Absent \notin Jobs /\ Empty \notin Jobs
  /\ Absent \notin {"judged", "stopped", "open", "finished"}
  /\ \A asked \in Requests : /\ \A j \in Jobs : asked.command[j] \in {"run", "run-all", "prepare"}
                             /\ asked.mishaps \in 0 .. MaxMishaps

workers == <<wpc, plan, given, looked>>
leavings == <<artifact, printed>>
times == <<turn, tooOld>>
commands == <<live, client, leavings, times>>
records == <<job, writing>>
jobVars == <<containerVars, records, workers, cpc, commands, runLock, mishaps>>

Worker(j) == <<"worker", j>>
Canceller(j) == <<"cancel", j>>
Actors == {Worker(j) : j \in Jobs} \cup {Canceller(j) : j \in Jobs}

\* The command of a job runs as long as the container it was started in.
Running(j) == live[j] # Absent /\ box # Absent /\ box.id = live[j].box

Final == {"done", "failed", "cancelled", "lost", "quarantined"}

JobInit ==
  /\ ContainerInit
  /\ \E asked \in Requests :
       /\ job = [j \in Jobs |-> [command |-> asked.command[j], status |-> "preflighting", box |-> Absent,
                                host |-> FALSE, group |-> FALSE, found |-> Absent]]
       /\ cpc = [j \in Jobs |-> IF j \in asked.cancelled THEN "idle" ELSE "none"]
       /\ mishaps = MaxMishaps - asked.mishaps
  /\ writing = [p \in Actors |-> Absent]
  /\ wpc = [j \in Jobs |-> "queued"]
  /\ plan = [j \in Jobs |-> Empty] /\ given = [j \in Jobs |-> Absent] /\ looked = [j \in Jobs |-> Absent]
  /\ live = [j \in Jobs |-> Absent] /\ client = [j \in Jobs |-> Absent]
  /\ artifact = [j \in Jobs |-> [verdict |-> Absent, batch |-> Absent]] /\ printed = {}
  /\ turn = [j \in Jobs |-> 0] /\ tooOld = [j \in Jobs |-> 0]
  /\ runLock = Absent

----
(* The record. *)

\* updateJob, first half: what is there now, patched.
Patch(p, j, fields) ==
  /\ writing[p] = Absent
  /\ writing' = [writing EXCEPT ![p] =
        [f \in DOMAIN job[j] |-> IF f \in DOMAIN fields THEN fields[f] ELSE job[j][f]]]
  /\ UNCHANGED job

\* Its second half, whoever wrote in between.
Put(p, j) ==
  /\ writing[p] # Absent
  /\ job' = [job EXCEPT ![j] = writing[p]]
  /\ writing' = [writing EXCEPT ![p] = Absent]

WithStatus(s) == [status |-> s]

\* markFailed and failJob leave an end, and markFailed also a stop, alone.
Unless(j, kept) == IF job[j].status \in kept THEN WithStatus(job[j].status) ELSE WithStatus("failed")

----
(* The artifacts. *)

\* What a job may take for its own: of its kind, and not written too long before
\* its start.  A run also takes the verdict of another's cell.
Left(j, k) ==
  IF job[j].command = "run-all" THEN artifact[k].batch # Absent ELSE artifact[k].verdict # Absent
Candidates(j) == {k \in Jobs : Left(j, k) /\ (k = j \/ turn[k] > tooOld[j])}

\* discoverRunArtifact and discoverBatchArtifact: the last written.  Commands
\* run one after another, so it is that of the last started.
NewestLeft(j) == {k \in Candidates(j) : \A l \in Candidates(j) : turn[l] <= turn[k]}

\* currentArtifacts: the recorded one, or what can be discovered and is put on
\* record.
Found(p, j, k) ==
  \/ job[j].found # Absent /\ k = job[j].found /\ UNCHANGED records
  \/ job[j].found = Absent /\ k \in NewestLeft(j) /\ Patch(p, j, [found |-> k])
  \/ job[j].found = Absent /\ Candidates(j) = {} /\ k = Absent /\ UNCHANGED records

\* hasTerminalArtifact, of the artifact that was looked up.
Ended(j, k) ==
  k # Absent /\ IF job[j].command = "run-all" THEN artifact[k].batch = "finished"
                ELSE artifact[k].verdict # Absent

\* cancellationTerminal.
CancelledAs(j, k) ==
  IF job[j].command = "run-all" \/ artifact[k].verdict = "stopped" THEN "cancelled" ELSE "done"

----
(* The worker. *)

At(j, here) == wpc[j] = here /\ writing[Worker(j)] = Absent
Goto(j, there) == wpc' = [wpc EXCEPT ![j] = there] /\ UNCHANGED mishaps
Mishap == mishaps < MaxMishaps /\ mishaps' = mishaps + 1
GoesWrong(j, there) == wpc' = [wpc EXCEPT ![j] = there] /\ Mishap
Forgets(j) ==
  /\ plan' = [plan EXCEPT ![j] = Empty]
  /\ given' = [given EXCEPT ![j] = Absent] /\ looked' = [looked EXCEPT ![j] = Absent]
Quiet == UNCHANGED <<cpc, commands>>

\* What runs in a container goes with it.
Killed ==
  /\ live' = [k \in Jobs |->
        IF live[k] # Absent /\ box' # Absent /\ box'.id = live[k].box THEN live[k] ELSE Absent]
  /\ UNCHANGED <<client, leavings, times>>

Lock(j) ==
  /\ At(j, "queued")
  /\ IF runLock = Absent
     THEN runLock' = j /\ \/ Goto(j, "preflight")
                          \/ GoesWrong(j, "failing")   \* the lease or sync.lock refuses
     ELSE Goto(j, "failing") /\ UNCHANGED runLock
  /\ UNCHANGED <<containerVars, records, plan, given, looked>> /\ Quiet

\* preflightThroughEmptyProbe up to the build.
Preflight(j) ==
  /\ At(j, "preflight")
  /\ Goto(j, "stage") \/ GoesWrong(j, "failing")
  /\ Patch(Worker(j), j, WithStatus("preflighting"))
  /\ UNCHANGED <<containerVars, plan, given, looked, runLock>> /\ Quiet

\* stageProbeCredentialMaterial, then stageLiveCredentialMaterial while the
\* probe still runs: a refusal of the second cleans the probe up.
StageFor(j) ==
  /\ At(j, "stage")
  /\ \/ StageMaterial(plan[j]) /\ Goto(j, "down")
     \/ StageRefused /\ GoesWrong(j, IF plan[j] = Empty THEN "failing" ELSE "clean")
  /\ UNCHANGED <<box, boxes, records, plan, given, looked, runLock>> /\ Quiet

DownBox(j) ==
  /\ At(j, "down")
  /\ \/ Down /\ Goto(j, "recover") /\ UNCHANGED slots
     \/ Discard /\ GoesWrong(j, "failing") /\ UNCHANGED box
  /\ UNCHANGED <<boxes, records, plan, given, looked, runLock, cpc>> /\ Killed

RecoverSlots(j) ==
  /\ At(j, "recover")
  /\ IF Ambiguous THEN Discard /\ Goto(j, "failing")
     ELSE Recover /\ Goto(j, "retire")
  /\ UNCHANGED <<box, boxes, records, plan, given, looked, runLock>> /\ Quiet

RetireActive(j) ==
  /\ At(j, "retire")
  /\ \/ slots["active"] = Absent /\ Goto(j, "swap") /\ UNCHANGED slots
     \/ slots["active"] # Absent /\ Retire /\ Goto(j, "swap")
     \/ slots["active"] # Absent /\ GoesWrong(j, "failing") /\ UNCHANGED slots
  /\ UNCHANGED <<box, boxes, records, plan, given, looked, runLock>> /\ Quiet

SwapStage(j) ==
  /\ At(j, "swap")
  /\ \/ Swap /\ Goto(j, "drop")
     \/ SwapFails /\ GoesWrong(j, "failing")
  /\ UNCHANGED <<box, boxes, records, plan, given, looked, runLock>> /\ Quiet

DropRetired(j) ==
  /\ At(j, "drop")
  /\ \/ Drop /\ Goto(j, "up")
     \/ slots["recovery"] # Absent /\ GoesWrong(j, "failing") /\ UNCHANGED slots
  /\ UNCHANGED <<box, boxes, records, plan, given, looked, runLock>> /\ Quiet

\* scopedUpContainerArgs: an id, a container without an id, or nothing.
UpBox(j) ==
  /\ At(j, "up")
  /\ \/ Up /\ given' = [given EXCEPT ![j] = boxes + 1] /\ Goto(j, "inspect")
     \/ Up /\ GoesWrong(j, "unproved") /\ UNCHANGED given
     \/ GoesWrong(j, "unproved") /\ UNCHANGED <<box, boxes, given>>
  /\ UNCHANGED <<slots, records, plan, looked, runLock>> /\ Quiet

\* Without an id, material is retired only when the container is proved absent.
Unproved(j) ==
  /\ At(j, "unproved")
  /\ IF box = Absent THEN RetireAll ELSE UNCHANGED slots
  /\ Goto(j, "failing")
  /\ UNCHANGED <<box, boxes, records, plan, given, looked, runLock>> /\ Quiet

\* inspectCapturedContainer by that id, and for the probe what runs in it.
Inspect(j) ==
  /\ At(j, "inspect")
  /\ \/ /\ box # Absent /\ box.id = given[j]
        /\ \/ plan[j] = j /\ Goto(j, "commit") /\ UNCHANGED plan
           \/ plan[j] = Empty /\ job[j].command = "prepare" /\ Goto(j, "commit") /\ UNCHANGED plan
           \/ plan[j] = Empty /\ job[j].command # "prepare" /\ Goto(j, "stage")
              /\ plan' = [plan EXCEPT ![j] = j]
     \/ GoesWrong(j, "clean") /\ UNCHANGED plan
  /\ UNCHANGED <<containerVars, records, given, looked, runLock>> /\ Quiet

\* cleanupPreflightLease and the rollback of cleanupFailedScopedReconcile.
CleanUp(j) == (Remove(given[j]) /\ RetireAll) \/ UNCHANGED <<box, slots>>

Clean(j) ==
  /\ At(j, "clean")
  /\ CleanUp(j)
  /\ Goto(j, "failing")
  /\ UNCHANGED <<boxes, records, plan, given, looked, runLock, cpc>> /\ Killed

\* commitPreflightEvidence.
CommitEvidence(j) ==
  /\ At(j, "commit")
  /\ \/ /\ Patch(Worker(j), j, [box |-> given[j]])
        /\ \/ Goto(j, IF job[j].command = "prepare" THEN "prepared" ELSE "exec")
           \/ GoesWrong(j, "clean")   \* the provenance cannot be written
     \/ GoesWrong(j, "clean") /\ UNCHANGED records
  /\ UNCHANGED <<containerVars, plan, given, looked, runLock>> /\ Quiet

Prepared(j) ==
  /\ At(j, "prepared")
  /\ Patch(Worker(j), j, WithStatus("done"))
  /\ Goto(j, "postflight")
  /\ UNCHANGED <<containerVars, plan, given, looked, runLock>> /\ Quiet

\* liveCommandArgs binds the record to the given and the wrapper the name to
\* its id; the supervisor's file is read at this moment, by path.  The start goes
\* on record, and artifacts count from five seconds before it.
Bound(j) == job[j].box = given[j] /\ box # Absent /\ box.id = given[j]

Exec(j) ==
  /\ At(j, "exec")
  /\ \/ /\ Bound(j)
        /\ live' = [live EXCEPT ![j] =
              [box |-> box.id, agent |-> box.mounts, supervisor |-> slots["active"],
               named |-> FALSE, told |-> FALSE]]
        /\ client' = [client EXCEPT ![j] = "runs"]
        /\ turn' = [turn EXCEPT ![j] = box.id]
        /\ \E k \in {j} \cup {l \in Jobs : Left(j, l)} : tooOld' = [tooOld EXCEPT ![j] = turn[k]]
        /\ Goto(j, "spawned")
     \/ ~Bound(j) /\ Goto(j, "failing") /\ UNCHANGED <<live, client, times>>
  /\ UNCHANGED <<containerVars, records, plan, given, looked, runLock, cpc, leavings>>

\* updateProcess of onSpawn: the first handle makes the job run.
Spawned(j) ==
  /\ At(j, "spawned")
  /\ Patch(Worker(j), j,
       [status |-> IF job[j].status = "preflighting" THEN "running" ELSE job[j].status,
        host |-> TRUE])
  /\ Goto(j, "poll")
  /\ UNCHANGED <<containerVars, plan, given, looked, runLock>> /\ Quiet

\* pollContainerPid; without it the client is interrupted, and the command it
\* attached to is on its own.
Poll(j) ==
  /\ At(j, "poll")
  /\ \/ /\ live[j] # Absent /\ live[j].named
        /\ Patch(Worker(j), j, [group |-> TRUE])
        /\ Goto(j, "runs") /\ UNCHANGED client
     \/ /\ client' = [client EXCEPT ![j] = "interrupted"]
        /\ GoesWrong(j, "runs") /\ UNCHANGED records
  /\ UNCHANGED <<containerVars, plan, given, looked, runLock, cpc, live, leavings, times>>

\* streamStdout: what has been read so far names the artifact.
Streams(j) ==
  /\ wpc[j] \in {"spawned", "poll", "runs"} /\ j \in printed /\ job[j].found # j
  /\ Patch(Worker(j), j, [found |-> j])
  /\ UNCHANGED <<containerVars, workers, runLock, mishaps>> /\ Quiet

\* The same for all of stdout, when docker's client has ended.
ReadsAll(j) ==
  /\ At(j, "runs") /\ client[j] # "runs"
  /\ IF j \in printed THEN Patch(Worker(j), j, [found |-> j]) ELSE UNCHANGED records
  /\ printed' = printed \ {j}
  /\ Goto(j, "await")
  /\ UNCHANGED <<containerVars, plan, given, looked, runLock, cpc, live, client, artifact, times>>

\* jobProcessGroupAlive by the recorded identity.
Verified(j) == box # Absent /\ box.id = job[j].box
Alive(j) ==
  IF job[j].group THEN Verified(j) /\ \E k \in Jobs : Running(k)
  ELSE job[j].host /\ client[j] = "runs"

\* waitForLiveTerminalArtifact: it waits only for a client that ended well, until
\* there is one or the command is gone.
Await(j) ==
  /\ At(j, "await")
  /\ \E k \in Jobs \cup {Absent} :
       /\ Found(Worker(j), j, k)
       /\ \/ /\ client[j] = "zero" => Ended(j, k) \/ ~Alive(j)
             /\ looked' = [looked EXCEPT ![j] = k] /\ Goto(j, "decide")
          \/ client[j] = "zero" /\ ~Ended(j, k) /\ Goto(j, "await") /\ UNCHANGED looked
  /\ UNCHANGED <<containerVars, plan, given, runLock>> /\ Quiet

\* Mutant of LiveStatus: a client that ended well is a command that did.
LiveStatusByExit(j) == IF client[j] = "zero" THEN "done" ELSE "lost"

\* liveStatus, by the artifact the worker saw.
LiveStatus(j) ==
  CASE job[j].status = "cancelled" -> "cancelled"
    [] job[j].status = "lost" /\ Ended(j, looked[j]) -> CancelledAs(j, looked[j])
    [] job[j].status = "stopping" -> IF Ended(j, looked[j]) THEN CancelledAs(j, looked[j]) ELSE "lost"
    [] Ended(j, looked[j]) -> "done"
    [] client[j] = "nonzero" -> "failed"
    [] OTHER -> "lost"

\* What was decided is patched onto the record read afterwards.
Decide(j) ==
  /\ At(j, "decide")
  /\ \/ ~job[j].group /\ Goto(j, "failed")
     \/ /\ job[j].group /\ (job[j].status \notin Final \/ Ended(j, looked[j]))
        /\ Goto(j, LiveStatus(j))
     \/ job[j].group /\ job[j].status \in Final /\ ~Ended(j, looked[j]) /\ Goto(j, "postflight")
  /\ looked' = [looked EXCEPT ![j] = Absent] /\ client' = [client EXCEPT ![j] = Absent]
  /\ UNCHANGED <<containerVars, records, plan, given, runLock, cpc, live, leavings, times>>

MarkTerminal(j) ==
  /\ \E s \in Final : At(j, s) /\ Patch(Worker(j), j, WithStatus(s))
  /\ Goto(j, "postflight")
  /\ UNCHANGED <<containerVars, plan, given, looked, runLock>> /\ Quiet

\* postflightDirtyCheck.
Postflight(j) ==
  /\ At(j, "postflight")
  /\ \/ Goto(j, "release") /\ UNCHANGED records
     \/ GoesWrong(j, "release") /\ Patch(Worker(j), j, WithStatus("quarantined"))
  /\ UNCHANGED <<containerVars, plan, given, looked, runLock>> /\ Quiet

Failing(j) ==
  /\ At(j, "failing")
  /\ Patch(Worker(j), j, Unless(j, Final \cup {"stopping"}))
  /\ Goto(j, "release")
  /\ UNCHANGED <<containerVars, plan, given, looked, runLock>> /\ Quiet

\* release: only the directory this process made.
ReleaseLock(j) ==
  /\ At(j, "release")
  /\ runLock' = IF runLock = j THEN Absent ELSE runLock
  /\ Goto(j, "ended") /\ Forgets(j)
  /\ UNCHANGED <<containerVars, records>> /\ Quiet

WorkerPuts(j) ==
  /\ wpc[j] # "dead"
  /\ Put(Worker(j), j)
  /\ UNCHANGED <<containerVars, workers, cpc, commands, runLock, mishaps>>

----
(* The live command. *)

Elsewhere == UNCHANGED <<containerVars, records, workers, cpc, runLock, mishaps>>

WritesPid(j) ==
  /\ Running(j) /\ ~live[j].named /\ wpc[j] \in {"spawned", "poll"}
  /\ live' = [live EXCEPT ![j].named = TRUE]
  /\ UNCHANGED <<client, leavings, times>> /\ Elsewhere

\* It names what it wrote, and docker's client may hear it.
Prints(j) == printed' = printed \cup {j} /\ client[j] = "runs" /\ wpc[j] # "dead"

\* run-all: the batch and its header, then its footer.
Batches(j) ==
  /\ Running(j) /\ job[j].command = "run-all"
  /\ \/ /\ artifact[j].batch = Absent
        /\ artifact' = [artifact EXCEPT ![j].batch = "open"]
        /\ Prints(j) \/ UNCHANGED printed
     \/ /\ artifact[j].batch = "open"
        /\ artifact' = [artifact EXCEPT ![j].batch = "finished"]
        /\ UNCHANGED printed
  /\ UNCHANGED <<live, client, times>> /\ Elsewhere

\* The verdict of the run, or of a cell for which some run may take it.  After a
\* SIGINT it says stopped, unless it is late; only a run that was not stopped is
\* named.
Concludes(j) ==
  /\ Running(j) /\ artifact[j].verdict = Absent
  /\ job[j].command = "run-all" =>
       artifact[j].batch = "open" /\ \E k \in Jobs : job[k].command = "run"
  /\ \/ /\ artifact' = [artifact EXCEPT ![j].verdict = "judged"]
        /\ (job[j].command = "run" /\ Prints(j)) \/ UNCHANGED printed
     \/ /\ live[j].told
        /\ artifact' = [artifact EXCEPT ![j].verdict = "stopped"]
        /\ UNCHANGED printed
  /\ UNCHANGED <<live, client, times>> /\ Elsewhere

\* It exits, or the container went and it with it; nobody reads the code for a
\* dead worker.
Exits(j) ==
  /\ live[j] # Absent \/ client[j] = "runs"
  /\ live' = [live EXCEPT ![j] = Absent]
  /\ \E code \in IF wpc[j] = "dead" THEN {Absent} ELSE IF Running(j) THEN {"zero", "nonzero"} ELSE {"nonzero"} :
       client' = [client EXCEPT ![j] = IF @ = "runs" THEN code ELSE @]
  /\ UNCHANGED <<leavings, times>> /\ Elsewhere

----
(* The cancel command: it may be given again whenever it has returned. *)

Cancels(j, here) == cpc[j] = here /\ writing[Canceller(j)] = Absent
Then(j, there) == cpc' = [cpc EXCEPT ![j] = there]
CancelFrame == UNCHANGED <<containerVars, workers, runLock, mishaps>>

CancelReads(j) ==
  /\ Cancels(j, "idle") \/ Cancels(j, "returned")
  /\ job[j].group \/ job[j].host
  /\ \/ job[j].status = "stopping" /\ Then(j, "stopping")
     \/ job[j].status = "running" /\ Then(j, IF job[j].group THEN "group" ELSE "host")
  /\ UNCHANGED <<records, commands>> /\ CancelFrame

\* runRecordedContainerLifecycle: the recorded id, verified under the name.
SignalTarget(j) == {k \in Jobs : Running(k) /\ Verified(j)}

Told(reached) == live' = [k \in Jobs |-> IF k \in reached THEN [live[k] EXCEPT !.told = TRUE] ELSE live[k]]

SignalGroup(j) ==
  /\ Cancels(j, "group")
  /\ \/ Told(SignalTarget(j)) /\ Then(j, "stopping")
     \/ Then(j, IF Alive(j) THEN "refused" ELSE "stopping") /\ UNCHANGED live
  /\ UNCHANGED <<records, client, leavings, times>> /\ CancelFrame

\* Before the process group is known only docker's client can be signalled.
SignalHost(j) ==
  /\ Cancels(j, "host")
  /\ \/ /\ client[j] = "runs" /\ client' = [client EXCEPT ![j] = "interrupted"]
        /\ Then(j, "stopping")
     \/ /\ Then(j, IF client[j] = "runs" THEN "refused" ELSE "stopping") /\ UNCHANGED client
  /\ UNCHANGED <<records, live, leavings, times>> /\ CancelFrame

Refused(j) ==
  /\ Cancels(j, "refused")
  /\ Patch(Canceller(j), j, WithStatus("running"))
  /\ Then(j, "returned")
  /\ UNCHANGED commands /\ CancelFrame

Stopping(j) ==
  /\ Cancels(j, "stopping")
  /\ Patch(Canceller(j), j, WithStatus("stopping"))
  /\ Then(j, "grace")
  /\ UNCHANGED commands /\ CancelFrame

\* waitForTerminalArtifact ends with one, or at the end of the grace.
Grace(j) ==
  /\ Cancels(j, "grace")
  /\ \E k \in Jobs \cup {Absent} :
       /\ Found(Canceller(j), j, k)
       /\ IF Ended(j, k) THEN Then(j, "ended") ELSE Then(j, "grace") \/ Then(j, "late")
  /\ UNCHANGED commands /\ CancelFrame

Late(j) ==
  /\ Cancels(j, "late")
  /\ IF Alive(j) THEN Patch(Canceller(j), j, WithStatus("stopping")) /\ Then(j, "returned")
     ELSE Then(j, "lost") /\ UNCHANGED records
  /\ UNCHANGED commands /\ CancelFrame

\* It is looked up once more, and may be another by now, or none that ended.
Settles(j) ==
  /\ Cancels(j, "ended")
  /\ \E k \in Jobs \cup {Absent} :
       /\ Found(Canceller(j), j, k)
       /\ Then(j, IF Ended(j, k) THEN CancelledAs(j, k) ELSE "lost")
  /\ UNCHANGED commands /\ CancelFrame

CancelFinal(j) ==
  /\ \E s \in {"cancelled", "done", "lost"} : Cancels(j, s) /\ Patch(Canceller(j), j, WithStatus(s))
  /\ Then(j, "returned")
  /\ UNCHANGED commands /\ CancelFrame

CancelPuts(j) ==
  /\ Put(Canceller(j), j)
  /\ UNCHANGED <<cpc, commands>> /\ CancelFrame

----
(* The host. *)

Vanishes(p, j) ==
  /\ \/ /\ p = Worker(j) /\ wpc[j] \notin {"queued", "ended", "dead"}
        /\ GoesWrong(j, "dead") /\ Forgets(j) /\ UNCHANGED cpc
        /\ printed' = printed \ {j}
        /\ client' = [client EXCEPT ![j] = IF @ = "runs" THEN @ ELSE Absent]
     \/ /\ p = Canceller(j) /\ cpc[j] \notin {"none", "idle", "returned"}
        /\ Then(j, "returned") /\ Mishap /\ UNCHANGED <<workers, client, printed>>
  /\ writing' = [writing EXCEPT ![p] = Absent]
  /\ UNCHANGED <<containerVars, job, live, artifact, times, runLock>>

\* By hand, as the runbook has it: a run.lock whose maker is dead is removed,
\* and a credential state that cannot be recovered is taken away with the
\* container down.
Repair ==
  /\ runLock # Absent => wpc[runLock] = "dead"
  /\ \/ runLock # Absent /\ runLock' = Absent /\ UNCHANGED <<slots, box>>
     \/ /\ Ambiguous /\ box' = Absent /\ slots' = [s \in Slots |-> Absent]
        /\ UNCHANGED runLock
  /\ UNCHANGED <<boxes, records, workers, cpc, mishaps>>
  /\ Killed

Reconciles(j) ==
  \/ StageFor(j) \/ DownBox(j) \/ RecoverSlots(j) \/ RetireActive(j) \/ SwapStage(j)
  \/ DropRetired(j) \/ UpBox(j) \/ Unproved(j) \/ Inspect(j) \/ Clean(j)

Supervises(j) ==
  \/ Exec(j) \/ Spawned(j) \/ Poll(j) \/ Streams(j) \/ ReadsAll(j) \/ Await(j) \/ Decide(j)
  \/ MarkTerminal(j)

CommandStep(j) == WritesPid(j) \/ Batches(j) \/ Concludes(j) \/ Exits(j)

WorkerStep(j) ==
  \/ Lock(j) \/ Preflight(j) \/ Reconciles(j) \/ CommitEvidence(j) \/ Prepared(j)
  \/ Supervises(j) \/ Postflight(j) \/ Failing(j) \/ ReleaseLock(j) \/ WorkerPuts(j)

CancelStep(j) ==
  \/ CancelReads(j) \/ SignalGroup(j) \/ SignalHost(j) \/ Refused(j) \/ Stopping(j)
  \/ Grace(j) \/ Late(j) \/ Settles(j) \/ CancelFinal(j) \/ CancelPuts(j)

JobNext ==
  \/ \E j \in Jobs : WorkerStep(j) \/ CancelStep(j) \/ CommandStep(j)
  \/ \E j \in Jobs, p \in Actors : Vanishes(p, j)
  \/ Repair

JobSpec == JobInit /\ [][JobNext]_jobVars

----
(* Properties. *)

\* A job is done or cancelled only when a command of its kind left what a command
\* has to leave, and a run is cancelled only on a verdict that says it was stopped,
\* whichever of worker and cancel command wrote the record last.  It is the job's
\* own command unless another of the kind wrote something that is not too old for
\* it: then another's may stand for it.
StatusIsWitnessed ==
  \A j \in Jobs :
    job[j].status \in {"done", "cancelled"} /\ job[j].command # "prepare" =>
      \E k \in Candidates(j) :
        /\ Ended(j, k)
        /\ job[j].status = "cancelled" => CancelledAs(j, k) = "cancelled"

\* One live command runs at a time, and it was given the credentials its own
\* job asserted, as an agent and as a supervisor: also after a worker died and
\* left its command behind.
OneOwnCommand ==
  \A j, k \in Jobs : Running(j) =>
    /\ live[j].agent = j /\ live[j].supervisor = j
    /\ Running(k) => k = j

\* A command is interrupted by the cancellation of its own job, never of one
\* whose container was replaced.
SignalsReachOwn == \A j \in Jobs : live[j] # Absent /\ live[j].told => cpc[j] \notin {"idle", "none"}

JobsAreKept == MountsAreActive /\ OneOwnCommand /\ SignalsReachOwn /\ StatusIsWitnessed
====
