---- MODULE AttemptPublication ----
(***************************************************************************)
(* One attempt of a campaign from its container to the journal: the run of *)
(* AttemptRun inside, and outside the controller, which waits for the      *)
(* death of the container, publishes the run directory                     *)
(* (campaign/attempt-publish.ts) and commits what it observed (observe of  *)
(* controller.ts).  The controller may die between any two of its steps.   *)
(***************************************************************************)
EXTENDS AttemptRun

VARIABLES
  host,     \* where the controller is with this attempt
  results,  \* the published run directory
  journal   \* the observation: its outcome, and whether it has evidence

publication == <<host, results, journal>>
attemptVars == <<runVars, publication>>

AttemptInit ==
  /\ RunInit
  /\ host = "follows" /\ results = Null /\ journal = Null

InContainer == RunNext /\ UNCHANGED publication

\* Something the agent left running in the container writes to the run.
Leftover ==
  /\ Alive /\ disk.manifest = "current"
  /\ disk' = [disk EXCEPT !.manifest = "stale"]
  /\ UNCHANGED <<control, stop, work, outcome, lock, publication>>

ContainerStopped == ~Alive

\* The proof publishExecution asks for: docker inspected the container stopped.
Inspect ==
  /\ host = "follows" /\ ContainerStopped
  /\ host' = "dead"
  /\ UNCHANGED <<runVars, results, journal>>

\* Sizes, digests and inventory are what the manifest says.
Blessed == disk.manifest = "current"

\* publishAttempt: a refusal is an observation without evidence, a failed
\* rename or directory sync interrupts the session.
Publish ==
  /\ host = "dead"
  /\ IF Blessed
     THEN \/ results' = disk /\ host' \in {"synced", "interrupted"}
          \/ UNCHANGED results /\ host' = "interrupted"
     ELSE UNCHANGED results /\ host' = "refused"
  /\ UNCHANGED <<runVars, journal>>

Observable == host \in {"synced", "refused"}

\* verdict.json is read back through its reference; a commit may fail.
Observe ==
  /\ Observable
  /\ \/ /\ journal' = IF host = "synced"
                       THEN [outcome |-> results.verdict.final, evidence |-> TRUE]
                       ELSE [outcome |-> "indeterminate", evidence |-> FALSE]
        /\ host' = "observed"
     \/ host' = "interrupted" /\ UNCHANGED journal
  /\ UNCHANGED <<runVars, results>>

\* A death before the container's leaves nothing of this attempt to publish.
ControllerDies ==
  /\ host \in {"dead", "synced", "refused"}
  /\ host' = "interrupted"
  /\ UNCHANGED <<runVars, results, journal>>

AttemptNext ==
  InContainer \/ Leftover \/ Inspect \/ Publish \/ Observe \/ ControllerDies

\* The command goes on by itself.
Runs == RunStep /\ UNCHANGED publication

\* The children are given a duration and keep it; the kernel runs the command,
\* and the controller follows every attempt.
AttemptFairness ==
  /\ WF_attemptVars(Runs)
  /\ WF_attemptVars(Inspect) /\ WF_attemptVars(Publish) /\ WF_attemptVars(Observe)

AttemptSpec == AttemptInit /\ [][AttemptNext]_attemptVars /\ AttemptFairness

----
(* Properties. *)

AttemptTypeOK ==
  /\ RunTypeOK
  /\ host \in {"follows", "dead", "synced", "refused", "observed", "interrupted"}
  /\ results \in Disks \cup {Null}
  /\ journal \in [outcome : Finals, evidence : BOOLEAN] \cup {Null}

\* What is published is the run's last word: the container was dead, its files
\* are the ones the manifest blessed, and nothing of them changed since.
PublishedIsLast ==
  results # Null => /\ ~Alive
                    /\ results = disk
                    /\ results.manifest = "current"

\* An outcome in the journal was earned inside the container, whatever stops,
\* kills and leftovers the run went through, and stands on published evidence.
ObservedIsEarned ==
  journal # Null /\ journal.outcome \in {"pass", "fail"} =>
    /\ Earned(journal.outcome)
    /\ ~early
    /\ results # Null /\ journal.evidence

\* Both: the run, what is published of it and the journal tell one story.
AttemptIsTrue == PublishedIsLast /\ ObservedIsEarned

\* Every attempt comes to an observation, or its session to an interruption.
AttemptEnds == <>(host \in {"observed", "interrupted"})
====
