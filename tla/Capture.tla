---- MODULE Capture ----
(***************************************************************************)
(* What the harness takes of an agent's session once it has ended: the     *)
(* logs that are new and its own, read again while they say too little,    *)
(* merged into one trajectory, and the verdict on what was found           *)
(* (capture/index.ts, capture/cwd-filter.ts, captureCascadeVerdict).  The  *)
(* logs may still be growing, an agent's own agents write logs too, and    *)
(* a driver may have started the agent in another directory.               *)
(***************************************************************************)
EXTENDS Naturals, Sequences, FiniteSets

CONSTANTS
  Logs, Normalizers,
  Place,      \* of each log among the others, by its path
  RetryAttempts, \* CAPTURE_RETRY_ATTEMPTS
  Timings,    \* when the steps of each log say they were taken, 0 for not at all
  Snapshots   \* the sets of logs that may be there already

ASSUME CaptureAssumption ==
  /\ IsFiniteSet(Logs)
  /\ Place \in [Logs -> Nat] /\ \A l, m \in Logs : Place[l] = Place[m] => l = m
  /\ Timings \subseteq [Logs -> [1 .. 2 -> Nat]]

VARIABLES
  setting,    \* how this session is captured and where its logs come from
  file,       \* what has been written of each log
  indexed,    \* Kimi: the logs its index maps to a directory
  captured,   \* the result of the last attempt
  trajectory, \* trajectory.json
  tokenUsage, \* coding-agent-token-usage.json
  judgement   \* the verdict on what was captured

captureVars == <<setting, file, indexed, captured, trajectory, tokenUsage, judgement>>

\* A log as it grows: a line begun, a header, what was spent, words, calls.
Stages == <<"none", "bare", "headed", "priced", "said", "called">>
Reached(l, stage) ==
  \E i, j \in DOMAIN Stages : Stages[i] = stage /\ Stages[j] = file[l].stage /\ i <= j
Exists(l) == file[l].stage # "none"

Strict == {"antigravity", "copilot", "gemini"}
Filtered == {"codex", "pi", "kimi"}

----
\* Mutant of New: what was there before is not told apart.
Present == {l \in Logs : Exists(l)}

\* newFilesSince.
New == {l \in Logs : Exists(l) /\ l \notin setting.snapshot}

\* firstLineEntry, and for Kimi the index: where the log says it was started.
Origin(l) ==
  IF setting.normalizer = "kimi" THEN IF l \in indexed THEN setting.cwd[l] ELSE "unknown"
  ELSE IF Reached(l, "headed") THEN setting.cwd[l] ELSE "unknown"

\* capturedLogs, through filterLogsByCwd.
CapturedLogs ==
  IF setting.normalizer \in Filtered THEN {l \in New : Origin(l) = "launch"} ELSE New

\* The detectors: what was written elsewhere, and what has no header.
MisplacedCodex == {l \in New : Origin(l) = "inside"}
MisplacedPi == {l \in New : Origin(l) \notin {"unknown", "launch"}}
UnusablePi == {l \in New : Origin(l) = "unknown"}

\* diagnoseKimiUnmatchedLogs.
KimiUnmatched ==
  IF New = {} \/ CapturedLogs # {} THEN "none"
  ELSE IF \E l \in New : Origin(l) \notin {"unknown", "launch"} THEN "wrong-cwd" ELSE "unmapped"

----
\* The steps that a normalizer finds in a log.
StepsOf(l) ==
  IF file[l].stage = "called" THEN 1 .. 2
  ELSE IF file[l].stage \in {"priced", "said"} THEN {1} ELSE {}

\* A step without a time of its own takes that of the step before it, or of the
\* first step that has one.
EffectiveTime(l, k) ==
  LET timed == {i \in StepsOf(l) : setting.times[l][i] # 0}
      before == {i \in timed : i <= k}
      source == IF before = {} THEN CHOOSE i \in timed : \A j \in timed : i <= j
                ELSE CHOOSE i \in before : \A j \in before : j <= i
  IN  IF timed = {} THEN 0 ELSE setting.times[l][source]

\* The order of mergeTrajectories: logs without any time come last.
Earlier(a, b) ==
  IF (a.time = 0) # (b.time = 0) THEN b.time = 0
  ELSE IF a.time # b.time THEN a.time < b.time
  ELSE IF a.log # b.log THEN Place[a.log] < Place[b.log] ELSE a.k < b.k

Sorted(steps) ==
  [n \in 1 .. Cardinality(steps) |->
     CHOOSE s \in steps : Cardinality({t \in steps : Earlier(t, s)}) = n - 1]

Taken(l) == {[log |-> l, k |-> k, time |-> EffectiveTime(l, k)] : k \in StepsOf(l)}
Merge(logs) == Sorted(UNION {Taken(l) : l \in logs})

\* A torn line is told by the normalizers that watch for one.
Errors(logs) == {l \in logs : setting.normalizer \in {"claude", "codex"} /\ file[l].torn}

NoTrajectory == [written |-> FALSE]

\* captureToolCalls: the trajectory is written, or an earlier one taken away.
CaptureToolCalls ==
  LET logs == CapturedLogs
      meaningful == \E l \in logs : Reached(l, "said")
      priceable == \E l \in logs : Reached(l, "priced")
      said == [l \in logs |-> file[l].stage]
  IN  /\ captured' =
           [logs |-> logs, attempts |-> captured.attempts + 1,
            rows |-> Cardinality({l \in logs : Reached(l, "called")}),
            availability |-> IF Errors(logs) # {} THEN "errored"
                             ELSE IF meaningful THEN "available" ELSE "unavailable"]
      /\ trajectory' = IF meaningful \/ priceable
                       THEN [written |-> TRUE, steps |-> Merge(logs), said |-> said]
                       ELSE NoTrajectory

----
NoCapture == [logs |-> {}, attempts |-> 0, rows |-> 0, availability |-> "unread"]
NoUsage == [told |-> FALSE]

CaptureInit ==
  /\ setting \in [normalizer : Normalizers, snapshot : Snapshots, times : Timings,
                  cwd : [Logs -> {"launch", "inside", "outside"}], started : BOOLEAN]
  /\ setting.normalizer # "claude" => setting.times = [l \in Logs |-> <<1, 2>>]
  /\ setting.normalizer \notin Filtered => setting.cwd = [l \in Logs |-> "launch"]
  /\ setting.normalizer # "kimi" => setting.started
  /\ file = [l \in Logs |-> [stage |-> IF l \in setting.snapshot THEN "called" ELSE "none",
                             torn |-> FALSE]]
  /\ indexed = {} /\ captured = NoCapture /\ trajectory = NoTrajectory
  /\ tokenUsage = NoUsage /\ judgement = "none"

\* The agent, or one of its own, writes on.
Tear(l) == ~file[l].torn /\ Exists(l) /\ file' = [file EXCEPT ![l].torn = TRUE]
Grow(l) ==
  \E i \in DOMAIN Stages :
    /\ i < Len(Stages) /\ Stages[i] = file[l].stage
    /\ file' = [file EXCEPT ![l] = [stage |-> Stages[i + 1], torn |-> FALSE]]
Flushes ==
  /\ judgement = "none"
  /\ \/ /\ \E l \in Logs \ setting.snapshot :
             Grow(l) \/ (setting.normalizer \in {"claude", "codex"} /\ Tear(l))
        /\ UNCHANGED indexed
     \/ /\ setting.normalizer = "kimi" /\ UNCHANGED file
        /\ \E l \in New \ indexed : indexed' = indexed \cup {l}
  /\ UNCHANGED <<setting, captured, trajectory, tokenUsage, judgement>>

\* captureToolCallsWithRetry.
TryCapture ==
  /\ captured.attempts < RetryAttempts /\ ~tokenUsage.told /\ captured.availability # "available"
  /\ CaptureToolCalls
  /\ UNCHANGED <<setting, file, indexed, tokenUsage, judgement>>

\* captureTokenUsage: from the trajectory, and from the logs as they are by now.
TokenUsage ==
  /\ captured.attempts = RetryAttempts \/ captured.availability = "available"
  /\ ~tokenUsage.told
  /\ tokenUsage' = [told |-> TRUE, of |-> trajectory, lasted |-> CapturedLogs]
  /\ UNCHANGED <<setting, file, indexed, captured, trajectory, judgement>>

\* captureCascadeVerdict.
ClaudeVerdict == IF captured.availability = "available" THEN "judged" ELSE "capture"
PiVerdict ==
  IF captured.logs = {} THEN IF MisplacedPi # {} THEN "misconfigured" ELSE "capture"
  ELSE IF captured.rows = 0 THEN "capture" ELSE "judged"
StrictVerdict == IF captured.rows = 0 THEN "capture" ELSE "judged"
KimiVerdict ==
  IF captured.logs = {} THEN IF KimiUnmatched = "wrong-cwd" THEN "misconfigured" ELSE "capture"
  ELSE IF captured.rows = 0 \/ ~setting.started THEN "capture" ELSE "judged"

\* codexMisplacedVerdict.
CodexVerdict ==
  IF captured.availability # "available" /\ MisplacedCodex # {} THEN "misconfigured" ELSE "judged"

Cascade ==
  IF setting.normalizer = "claude" THEN ClaudeVerdict
  ELSE IF setting.normalizer = "pi" THEN PiVerdict
  ELSE IF setting.normalizer \in Strict \cup {"opencode"} THEN StrictVerdict
  ELSE IF setting.normalizer = "kimi" THEN KimiVerdict
  ELSE IF setting.normalizer = "codex" THEN CodexVerdict
  ELSE "judged"

Judge ==
  /\ tokenUsage.told /\ judgement = "none"
  /\ judgement' = Cascade
  /\ UNCHANGED <<setting, file, indexed, captured, trajectory, tokenUsage>>

CaptureNext == Flushes \/ TryCapture \/ TokenUsage \/ Judge

CaptureSpec == CaptureInit /\ [][CaptureNext]_captureVars

----
\* No log that was there before, and for the agents that say where they were started
\* none that was started elsewhere, is in the trajectory, which shows what happened in
\* the order in which it says it happened; a run of an agent whose every action must be
\* seen is judged only on a trajectory that shows one; a driver is blamed for the
\* directory only when no evidence could be had and a log from elsewhere is there.
OfOneSession ==
  /\ DOMAIN trajectory.said \cap setting.snapshot = {}
  /\ setting.normalizer \in Filtered =>
       \A l \in DOMAIN trajectory.said : setting.cwd[l] = "launch"
InOrder ==
  \A i, j \in DOMAIN trajectory.steps :
    LET a == trajectory.steps[i]  b == trajectory.steps[j] IN
    i < j => /\ a.time # 0 /\ b.time # 0 => a.time <= b.time
             /\ a.log = b.log /\ a.time = b.time => a.k < b.k
ShowsACall == trajectory.written /\ \E l \in DOMAIN trajectory.said : trajectory.said[l] = "called"
JudgedOnEvidence ==
  judgement = "judged" =>
    /\ setting.normalizer \in Strict \cup {"opencode", "pi", "kimi"} => ShowsACall
    /\ setting.normalizer = "claude" => trajectory.written
BlamedForCause ==
  judgement = "misconfigured" =>
    captured.availability # "available" /\ \E l \in New : setting.cwd[l] # "launch"

\* The trajectory on disk is that of the last attempt, never of an earlier one that a
\* later attempt found less in, and its cost is told from it alone.
EvidenceIsLast ==
  /\ captured.availability = "available" => trajectory.written
  /\ trajectory.written => DOMAIN trajectory.said = captured.logs
  /\ tokenUsage.told => tokenUsage.of = trajectory

\* Invariant: what is judged is the agent's own session, in its order and as its last
\* capture found it (capture/index.ts 105, 198, 339; captureCascadeVerdict).
SessionIsOwn ==
  /\ trajectory.written => OfOneSession /\ InOrder
  /\ JudgedOnEvidence /\ BlamedForCause /\ EvidenceIsLast
====
