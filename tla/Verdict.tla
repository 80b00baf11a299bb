---- MODULE Verdict ----
(***************************************************************************)
(* How one run's facts become its verdict: compose of src/src/composer.ts  *)
(* and the strict-capture cascade of src/src/runner/index.ts, which        *)
(* refuses a run whose evidence its agent's family cannot do without.      *)
(***************************************************************************)
CONSTANT Null

Families == {"claude", "pi", "kimi", "copilot", "codex", "opencode",
             "antigravity", "gemini", "hermes", "serf"}

(* What the capture found: no new log; logs of another cwd; logs that no   *)
(* index maps to the run; tool calls but an unreadable log; usage alone;   *)
(* messages without a tool call; tool calls; tool calls but a secret in an *)
(* artifact; tool calls but no Superpowers session start.                  *)
Captures == {"absent", "misplaced", "unindexed", "errored", "usage",
             "messages", "tools", "leaked", "unmarked"}

Logs == Captures \ {"absent", "misplaced", "unindexed"}
Available == {"messages", "tools", "leaked", "unmarked"}
Rows == {"errored", "tools", "leaked", "unmarked"}

Stages == {"setup", "capture", "checks", "gauntlet", "unknown", "stopped",
           "qa-agent-misconfigured"}
Finals == {"pass", "fail", "indeterminate"}
Verdicts == [final : Finals, stage : Stages \cup {Null}]

\* What the grader came to; a layer that could not be read is "investigate" too.
Layers == {"pass", "fail", "investigate"}

\* captureCascadeVerdict, copilotCascadeVerdict: the captures a family refuses.
Refused(family) ==
  CASE family = "claude" -> Captures \ Available
    [] family = "kimi" -> (Captures \ Rows) \cup {"unmarked"}
    [] family = "copilot" -> (Captures \ Rows) \cup {"leaked"}
    [] family \in {"pi", "opencode", "antigravity", "gemini"} -> Captures \ Rows
    [] OTHER -> {}

CascadeStage(family, capture) ==
  IF capture \notin Refused(family) THEN Null
  ELSE IF family \in {"pi", "kimi"} /\ capture = "misplaced"
       THEN "qa-agent-misconfigured"
       ELSE "capture"

\* codexMisplacedVerdict, asked only after the post-checks.
CodexMisplaced(family, capture) == family = "codex" /\ capture = "misplaced"

Indeterminate(stage) == [final |-> "indeterminate", stage |-> stage]

\* What keeps a run from being judged, the drift of its records from the
\* scenario's manifest apart: drift is looked at last and has a stage.
Unjudged(f) ==
  \/ f.pre = "failed"
  \/ f.layer \notin {"pass", "fail"}
  \/ f.capture \notin Available /\ f.trace

\* Mutant of Compose: the drift of the records is looked at only in a run
\* that would fail anyway.
ComposeDriftLast(error, f) ==
  IF error # Null THEN Indeterminate(error)
  ELSE IF Unjudged(f) THEN Indeterminate(Null)
  ELSE IF f.layer = "pass" /\ f.post = "passed" THEN [final |-> "pass", stage |-> Null]
  ELSE IF f.drift THEN Indeterminate("checks")
  ELSE [final |-> "fail", stage |-> Null]

Compose(error, f) ==
  IF error # Null THEN Indeterminate(error)
  ELSE IF Unjudged(f) THEN Indeterminate(Null)
  ELSE IF f.drift THEN Indeterminate("checks")
  ELSE [final |-> IF f.layer = "pass" /\ f.post = "passed" THEN "pass" ELSE "fail",
        stage |-> Null]

ExitCode(verdict) ==
  CASE verdict.final = "pass" -> "0"
    [] verdict.final = "fail" -> "1"
    [] verdict.final = "indeterminate" -> "2"
====
