---- MODULE RunAll ----
(***************************************************************************)
(* One `quorum run-all` batch: runBatch of src/run-all/index.ts over the   *)
(* dispatcher of Scheduler, whose cells are here child processes, with the *)
(* live-spend lease, the batch directory (run-all/batch-index.ts), the pid *)
(* registry and the graceful stop (run-all/child-stop.ts).                 *)
(*                                                                         *)
(* The process is one thread: the first pass of the dispatcher runs before *)
(* the signal handlers are there, and a handler or a child's end is heard  *)
(* only while the dispatcher is parked.  Children are runs of AttemptRun,  *)
(* seen from outside; they live on when their parent dies.                 *)
(*                                                                         *)
(* Left out: how the lease is taken over (DirLease), the rendered lines,   *)
(* the heartbeat, costs.  A throw while a finished cell is recorded is an  *)
(* unhandled rejection: it kills the process, as Killed does.              *)
(***************************************************************************)
EXTENDS Scheduler

CONSTANT Skipped  \* the entries of the matrix that are not runnable

ASSUME RunAllAssumption ==
  /\ Skipped \cap Cells = {}
  /\ None \notin {"open", "closed", "judged", "limited", "stopped", "dead"}

VARIABLES
  phase,      \* of runBatch
  lease,      \* the live-spend lease: "free" or "held"
  header,     \* batch.json: absent, "open" while finished_at is null, "closed"
  records,    \* results.jsonl: of each entry, its records in order
  child,      \* of each cell: the process that runs it
  result,     \* of each cell: what its process came to
  pids,       \* the cells whose process is in the registry
  listening,  \* the handlers of the stop signals are installed
  stopping    \* the first of them was heard

batch == <<phase, lease, header, records>>
children == <<child, result, pids>>
signals == <<listening, stopping>>
batchVars == <<vars, batch, children, signals>>

Entries == Cells \cup Skipped
Live == {c \in Cells : child[c] \in {"boot", "runs", "stopping"}}

BatchInit ==
  /\ Init
  /\ phase = "lock" /\ lease = "free" /\ header = None
  /\ records = [e \in Entries |-> <<>>]
  /\ child = [c \in Cells |-> "none"] /\ result = [c \in Cells |-> None] /\ pids = {}
  /\ listening = FALSE /\ stopping = FALSE

----
(* Before the drive. *)

\* acquireLiveSpendLock: taken, or refused for a living holder.
Acquire ==
  /\ phase = "lock"
  /\ \/ lease' = "held" /\ phase' = "validate"
     \/ phase' = "over" /\ UNCHANGED lease
  /\ UNCHANGED <<vars, header, records, children, signals>>

\* The floors of the host, the credentials and the matrix: nothing is on disk
\* when one of them throws.
Validate ==
  /\ phase = "validate"
  /\ phase' \in {"index", "release"}
  /\ UNCHANGED <<vars, lease, header, records, children, signals>>

\* The batch directory, its header, the frozen credentials, the grid manifest.
WriteHeader ==
  /\ phase = "index"
  /\ \/ header' = "open" /\ phase' \in {"skips", "release"}
     \/ phase' = "release" /\ UNCHANGED header
  /\ UNCHANGED <<vars, lease, records, children, signals>>

\* One record of results.jsonl: whether it names a run, and how it is counted.
Ran == [run_id |-> TRUE, counted |-> "verdict"]
NoRun(counted) == [run_id |-> FALSE, counted |-> counted]

RecordSkips ==
  /\ phase = "skips"
  /\ \/ /\ records' = [e \in Entries |->
              IF e \in Skipped THEN Append(records[e], NoRun("skipped")) ELSE records[e]]
        /\ phase' = "drive"
     \/ phase' = "release" /\ UNCHANGED records
  /\ UNCHANGED <<vars, lease, header, children, signals>>

----
(* The children. *)

\* onPid, the instant the process exists.
Register(c) == pids' = pids \cup {c}

\* spawn of invokeChild; a process that could not be made has no pid.
Spawn(c) ==
  \/ /\ child' = [child EXCEPT ![c] = "boot"]
     /\ Register(c)
     /\ UNCHANGED result
  \/ /\ child' = [child EXCEPT ![c] = "exited"]
     /\ result' = [result EXCEPT ![c] = "dead"]
     /\ UNCHANGED pids

\* The child has its own handlers from here on.
Boots(c) ==
  /\ child[c] = "boot"
  /\ child' = [child EXCEPT ![c] = "runs"]
  /\ UNCHANGED <<vars, batch, result, pids, signals>>

\* A stopped child writes its verdict and prints no run-id line; a stop that
\* comes late leaves its genuine answer; a child that throws or dies has none.
Exits(c) ==
  /\ c \in Live
  /\ child' = [child EXCEPT ![c] = "exited"]
  /\ \E end \in CASE child[c] = "boot" -> {"dead"}
                  [] child[c] = "runs" -> {"judged", "limited", "dead"}
                  [] child[c] = "stopping" -> {"stopped", "judged", "limited", "dead"} :
       result' = [result EXCEPT ![c] = end]
  /\ UNCHANGED <<vars, batch, pids, signals>>

\* SIGINT reaches these children: one that boots dies of it, one that runs
\* hears it once, and a second one finds no handler.
Interrupt(reached, twice) ==
  LET dying == {c \in reached : child[c] = "boot"} \cup twice
  IN  /\ child' = [c \in Cells |->
            CASE c \in dying -> "exited"
              [] c \in reached \ dying /\ child[c] = "runs" -> "stopping"
              [] OTHER -> child[c]]
      /\ result' = [c \in Cells |-> IF c \in dying THEN "dead" ELSE result[c]]

----
(* The drive: the dispatcher's steps with what runBatch hangs on them. *)

Driving == phase = "drive"

\* Mutant of Finished: a cell without a run leaves no record.
FinishedIfRan(c) ==
  IF result[c] \in {"judged", "limited"} THEN Append(records[c], Ran) ELSE records[c]

\* cell_finished: no run-id line is no run, and is counted as unknown.
Finished(c) ==
  Append(records[c],
    IF result[c] \in {"judged", "limited"} THEN Ran ELSE NoRun("unknown"))

\* cell_skipped, told by the dispatcher's own steps.
Latest(s) == s[Len(s)]
SkippedNow(c) == status[c] = "queued" /\ status'[c] = "terminal"
SkipRecord(c) == Append(records[c], NoRun(Latest(told'[c])))

Pass ==
  /\ Driving /\ PassBegins
  /\ \/ /\ records' = [e \in Entries |->
              IF e \in Cells /\ SkippedNow(e) THEN SkipRecord(e) ELSE records[e]]
        /\ UNCHANGED phase
     \/ /\ \E c \in Cells : SkippedNow(c)
        /\ phase' = "release" /\ UNCHANGED records
  /\ listening' = (listening /\ phase' = "drive")
  /\ UNCHANGED <<lease, header, children, stopping>>

Dispatches ==
  /\ Driving /\ Scan
  /\ IF status' = status THEN UNCHANGED children ELSE Spawn(at)
  /\ UNCHANGED <<batch, signals>>

Turns ==
  /\ Driving
  /\ ScanEnds \/ BatchDone \/ Park \/ (listening /\ Resume)
  /\ UNCHANGED <<batch, children, signals>>

Elapses == Driving /\ Tick /\ UNCHANGED <<batch, children, signals>>

\* The pid leaves the registry before the dispatcher hears of the end; a run
\* whose verdict carries the marker latches its limiter key.
Completes(c) ==
  /\ Driving /\ listening
  /\ child[c] = "exited"
  /\ OnComplete(c, result[c] = "limited")
  /\ pids' = pids \ {c}
  /\ records' = [e \in Entries |->
        CASE e = c -> Finished(c)
          [] e \in Cells \ {c} /\ SkippedNow(e) -> SkipRecord(e)
          [] OTHER -> records[e]]
  /\ UNCHANGED <<phase, lease, header, child, result, signals>>

\* installSignals, once the first pass has parked or was the last.
Listen ==
  /\ Driving /\ pc \in {"parked", "done"} /\ ~listening
  /\ listening' = TRUE
  /\ UNCHANGED <<vars, batch, children, stopping>>

\* onSignal over stopBatch. A terminal signals the whole process group, so its
\* children are signalled by it and by the batch.
FirstSignal ==
  /\ Driving /\ listening /\ ~stopping
  /\ stopping' = TRUE
  /\ RequestStop
  /\ \E group \in BOOLEAN :
       \E twice \in SUBSET {c \in Live \cap pids : group /\ child[c] = "runs"} :
         Interrupt((Live \cap pids) \cup (IF group THEN Live ELSE {}), twice)
  /\ UNCHANGED <<batch, pids, listening>>

\* The second signal exits at once: no finally runs, and nobody waits for the
\* children.
HardExit ==
  /\ Driving /\ listening /\ stopping /\ pc = "parked"
  /\ phase' = "dead"
  /\ \E reached \in {{}, Live} :
       Interrupt(reached, {c \in reached : child[c] = "stopping"})
  /\ UNCHANGED <<vars, lease, header, records, pids, signals>>

\* The footer, the summary; a footer that cannot be written throws.
Footer ==
  /\ Driving /\ pc = "done" /\ listening
  /\ listening' = FALSE
  /\ phase' = "release"
  /\ header' \in {header, "closed"}
  /\ UNCHANGED <<vars, lease, records, children, stopping>>

Release ==
  /\ phase = "release"
  /\ lease' = "free" /\ phase' = "over"
  /\ UNCHANGED <<vars, header, records, children, signals>>

\* SIGKILL, or a signal while the handlers are not there.
Killed ==
  /\ phase \notin {"over", "dead"}
  /\ phase' = "dead"
  /\ UNCHANGED <<vars, lease, header, records, children, signals>>

Drive ==
  \/ Pass \/ Dispatches \/ Turns \/ Elapses \/ Listen \/ Footer
  \/ \E c \in Cells : Completes(c)

BatchNext ==
  \/ Acquire \/ Validate \/ WriteHeader \/ RecordSkips \/ Release
  \/ Drive
  \/ \E c \in Cells : Boots(c) \/ Exits(c)
  \/ FirstSignal \/ HardExit \/ Killed

\* The thread is scheduled, the clock moves, and a child keeps its deadlines.
BatchFairness ==
  /\ WF_batchVars(Acquire \/ Validate \/ WriteHeader \/ RecordSkips \/ Release)
  /\ WF_batchVars(Pass \/ Dispatches \/ Turns \/ Listen \/ Footer)
  /\ WF_batchVars(Elapses)
  /\ \A c \in Cells : WF_batchVars(Exits(c)) /\ WF_batchVars(Completes(c))

BatchSpec == BatchInit /\ [][BatchNext]_batchVars /\ BatchFairness

----
(* Properties. *)

BatchTypeOK ==
  /\ TypeOK
  /\ phase \in {"lock", "validate", "index", "skips", "drive", "release", "over", "dead"}
  /\ lease \in {"free", "held"}
  /\ header \in {None, "open", "closed"}
  /\ \A e \in Entries : records[e] \in Seq([run_id : BOOLEAN,
       counted : {"verdict", "unknown", "skipped", "rate-limited", "stopped"}])
  /\ child \in [Cells -> {"none", "boot", "runs", "stopping", "exited"}]
  /\ result \in [Cells -> {None, "judged", "limited", "stopped", "dead"}]
  /\ pids \subseteq Cells
  /\ {listening, stopping} \subseteq BOOLEAN

\* A batch whose footer is written has accounted for its matrix: no child is
\* left, every entry that came to an end has the one record that tells how, and
\* a record names a run exactly when a child answered with one.
BatchIsAccounted ==
  header = "closed" =>
    /\ Live = {} /\ pids = {}
    /\ \A e \in Skipped : records[e] = <<NoRun("skipped")>>
    /\ \A c \in Cells :
        /\ Len(records[c]) = (IF status[c] = "terminal" THEN 1 ELSE 0)
        /\ \A i \in 1 .. Len(records[c]) :
             /\ records[c][i].run_id <=> result[c] \in {"judged", "limited"}
             /\ records[c][i].counted \in {"rate-limited", "stopped"} <=> child[c] = "none"

\* "SIGINT every member without racing exited ones": once a stop is heard no
\* child is left that it did not reach, and none is started after.
StoppedBatchIsQuiet ==
  stopping => \A c \in Cells : child[c] \notin {"boot", "runs"}

\* A child spends under the lease of its batch: the lease is given back with
\* none alive, unless a record or the footer could not be written.
LeaseCoversChildren ==
  lease = "free" /\ Live # {} => phase = "over" /\ stopping /\ header = "open"

\* The three together.
BatchIsKept == BatchIsAccounted /\ StoppedBatchIsQuiet /\ LeaseCoversChildren
====
