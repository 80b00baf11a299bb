---- MODULE AttemptRun ----
(***************************************************************************)
(* One `quorum run`: executeRunCommand of src/src/cli/run-command.ts over  *)
(* runScenario of src/src/runner/index.ts, in both modes.  In "qa" mode    *)
(* one gauntlet child drives the agent under test; in "conversation" mode  *)
(* (runner/conversation.ts) one role child holds the conversation and a    *)
(* second assesses it (runner/gauntlet-role.ts).                           *)
(*                                                                         *)
(* The process is one thread.  A signal is pending until the event loop    *)
(* turns: while a child runs, in the awaits of pricing and attestation,    *)
(* and in the turn a phase boundary gives it.  setup.sh and the check      *)
(* phases block the loop.  The process, its container with it, may be      *)
(* killed between any two steps.                                           *)
(*                                                                         *)
(* Left out: what a phase does inside, which is left to chance; the        *)
(* Windows guest; what the economics say.                                  *)
(***************************************************************************)
EXTENDS Verdict, Naturals

CONSTANTS
  Commands,  \* the commands that may be given, each a record: mode "qa" or
             \* "conversation" (of claude, codex and pi only), family of the agent,
             \* campaign, covered (a parent holds the lease), trace (a check reads it)
  Found      \* what their captures may find

Phases == {"passed", "failed", "crashed"}
Disks == [verdict : Verdicts \cup {Null}, manifest : {Null, "current", "stale"}]

ASSUME AttemptAssumption ==
  /\ Commands \subseteq [mode : {"qa", "conversation"}, family : Families,
                         campaign : BOOLEAN, covered : BOOLEAN, trace : BOOLEAN]
  /\ Found \subseteq Captures
  /\ Null \notin Verdicts \cup Stages \cup Layers \cup Phases \cup Disks
                 \cup {"current", "stale", "0", "1", "2", "thrown"}

VARIABLES
  cmd,         \* the command, its trace telling whether a check reads the trace
  point,       \* where the process is
  signal,      \* SIGINT or SIGTERM: "none", "pending", or "recorded" by onStop
  runStopped,  \* runStopped of the runner
  employed,    \* a gauntlet or role child runs
  cause,       \* stop_cause of the role that ran last
  secret,      \* the agent's runtime directory outside the run directory
  lock,        \* the live-spend lease: "free", "held", "covered" by a parent
  facts,       \* what the phases found
  thrown,      \* what is on its way to runScenario's catch: a stage
  verdict,     \* the verdict the runner holds
  disk,        \* verdict.json, and manifest.json: with the digests of the files
               \* as they are ("current"), or as they were ("stale")
  exit,        \* the exit code, or "thrown"
  early        \* history: the signal came before the run's last look for one

control == <<cmd, point, exit>>
stop == <<signal, runStopped, early>>
work == <<employed, cause, secret, facts>>
outcome == <<thrown, verdict>>
runVars == <<control, stop, work, outcome, lock, disk>>

Unknown == [pre |-> Null, layer |-> Null, capture |-> "absent", conv |-> Null,
            post |-> Null, drift |-> FALSE, assessed |-> FALSE, trace |-> FALSE]

RunInit ==
  /\ cmd \in Commands
  /\ point = "cli"
  /\ signal = "none" /\ runStopped = FALSE /\ early = FALSE
  /\ employed = FALSE /\ cause = Null
  /\ secret = Null
  /\ lock = IF cmd.covered THEN "covered" ELSE "free"
  /\ facts = [Unknown EXCEPT !.trace = cmd.trace]
  /\ thrown = Null /\ verdict = Null
  /\ disk = [verdict |-> Null, manifest |-> Null]
  /\ exit = Null

Goto(next) == point' = next /\ UNCHANGED <<cmd, exit>>

\* The body ends: with a verdict, or throwing to runScenario's catch.
Return(v) == verdict' = v /\ thrown' = Null /\ Goto("cleanup")
Throw(stage) == thrown' = stage /\ UNCHANGED verdict /\ Goto("cleanup")
Proceed(next) == Goto(next) /\ UNCHANGED outcome

\* Mutant of StopSeen: the flag is read without the turn that sets it.
StopSeenNoTurn == signal = "recorded"

\* stopRequested(): the flag, then one turn of the event loop.
StopSeen == signal # "none"

Turn == signal' = IF signal = "pending" THEN "recorded" ELSE signal

\* A phase boundary lets the run go on, or ends it.
Continue == ~StopSeen /\ UNCHANGED signal
Halt(end) == StopSeen /\ signal' = "recorded" /\ end /\ UNCHANGED work

StoppedError == Throw("stopped")

----
(* The command line, up to the runner's body. *)

\* The options are refused, the lease is busy, or the host is below its floors.
Refuse ==
  /\ point = "cli"
  /\ point' = "finish" /\ exit' = "thrown"
  /\ lock' \in IF cmd.covered THEN {"covered"} ELSE {"free", "held"}
  /\ UNCHANGED <<cmd, stop, work, outcome, disk>>

\* The lease is taken and the run directory allocated.  runScenario may reject
\* the run before it has a directory, and after it has one when the campaign's
\* identity cannot be written there.
Begin ==
  /\ point = "cli"
  /\ lock' = IF cmd.covered THEN "covered" ELSE "held"
  /\ runStopped' = FALSE
  /\ \/ Goto("guards")
     \/ point' = "finish" /\ exit' = "thrown" /\ UNCHANGED cmd
     \/ cmd.campaign /\ Goto("rejected")
  /\ UNCHANGED <<signal, early, work, outcome, disk>>

\* Unknown agents, credentials, stories and unparseable manifests throw; a
\* scenario without checks and an excluded agent return.
Guards ==
  /\ point = "guards"
  /\ \/ Proceed("provision")
     \/ Throw("setup")
     \/ \E stage \in {"setup", Null} : Return(Indeterminate(stage))
  /\ UNCHANGED <<stop, work, lock, disk>>

\* KimiAgent.provision makes its directory of secrets outside the run; the
\* runner knows of it only once provision has returned.
Provision ==
  /\ point = "provision"
  /\ IF cmd.family = "kimi"
     THEN \/ Proceed("setup") /\ secret' = "tracked"
          \/ Throw("setup") /\ secret' \in {Null, "untracked"}
     ELSE (Proceed("setup") \/ Throw("setup")) /\ UNCHANGED secret
  /\ UNCHANGED <<stop, employed, cause, facts, lock, disk>>

Setup ==
  /\ point = "setup"
  /\ \/ Halt(StoppedError)
     \/ Continue /\ (Proceed("pre") \/ Throw("setup")) /\ UNCHANGED work
  /\ UNCHANGED <<runStopped, early, lock, disk>>

\* A phase that crashed has an outcome; a shell that cannot be spawned throws.
PreChecks ==
  /\ point = "pre"
  /\ \/ Halt(StoppedError)
     \/ Continue /\ Throw("unknown") /\ UNCHANGED work
     \/ /\ Continue
        /\ \E pre \in Phases :
             /\ facts' = [facts EXCEPT !.pre = pre]
             /\ CASE pre = "passed" -> Proceed("prepare")
                  [] pre = "failed" -> Return(Compose(Null, facts'))
                  [] pre = "crashed" -> Return(Compose("checks", facts'))
        /\ UNCHANGED <<employed, cause, secret>>
  /\ UNCHANGED <<runStopped, early, lock, disk>>

\* The launch directory, the snapshots of the session store, the context with
\* its launcher and substitutions.
Prepare ==
  /\ point = "prepare"
  /\ \/ Proceed(IF cmd.mode = "qa" THEN "launch" ELSE "project")
     \/ Throw("setup")
     \/ cmd.family \in {"opencode", "hermes"} /\ Return(Indeterminate("capture"))
  /\ UNCHANGED <<stop, work, lock, disk>>

----
(* One gauntlet child. *)

Employ(next) ==
  /\ employed' = TRUE /\ cause' = Null
  /\ Proceed(next)
  /\ UNCHANGED <<secret, facts>>

Launch ==
  /\ point = "launch"
  /\ \/ Halt(StoppedError)
     \/ Continue /\ Employ("gauntlet")
     \/ Continue /\ Throw("unknown") /\ UNCHANGED work
  /\ UNCHANGED <<runStopped, early, lock, disk>>

\* The child ends by itself or because onStop signalled it; death by SIGINT,
\* or its exit code, is a stop.  A rate limit of antigravity ends the run.
GauntletEnds ==
  /\ point = "gauntlet"
  /\ employed' = FALSE
  /\ \E layer \in Layers, interrupted \in BOOLEAN :
       /\ facts' = [facts EXCEPT !.layer = layer]
       /\ runStopped' = (runStopped \/ interrupted)
  /\ \/ Proceed("capture")
     \/ cmd.family = "antigravity" /\ Return(Indeterminate("gauntlet"))
  /\ UNCHANGED <<signal, early, cause, secret, lock, disk>>

\* The export of the session store, the capture with its retries, the native
\* logs kept, the attestation of an OpenRouter run.
Capture ==
  /\ point = "capture"
  /\ \E capture \in Found : facts' = [facts EXCEPT !.capture = capture]
  /\ LET stage == CascadeStage(cmd.family, facts'.capture)
     IN  \/ IF stage = Null THEN Proceed("post") ELSE Return(Indeterminate(stage))
         \/ Return(Indeterminate("capture"))
         \/ Throw("unknown")
  /\ UNCHANGED <<stop, employed, cause, secret, lock, disk>>

\* What the post-checks may leave: their outcome, and whether the records of
\* both phases drift from the scenario's manifest.
Checked ==
  /\ \E post \in Phases, drift \in BOOLEAN :
       facts' = [facts EXCEPT !.post = post, !.drift = drift]
  /\ UNCHANGED <<employed, cause, secret>>

\* postCaptureFailureVerdict.
PostStage(f) ==
  CASE CodexMisplaced(cmd.family, f.capture) -> "qa-agent-misconfigured"
    [] f.post = "crashed" -> "checks"
    [] OTHER -> Null

\* The run looks at its stop flag for the last time.
LastLook ==
  /\ point = "post"
  /\ \/ Halt(StoppedError)
     \/ Continue /\ Proceed("checking") /\ UNCHANGED work
  /\ UNCHANGED <<runStopped, early, lock, disk>>

\* The shell of the checks blocks the loop and the verdict is composed in the same
\* turn: a signal that arrives meanwhile waits until there is a verdict.
PostChecks ==
  /\ point = "checking"
  /\ \/ Throw("unknown") /\ UNCHANGED work
     \/ /\ Checked
        /\ verdict' = Compose(PostStage(facts'), facts') /\ UNCHANGED thrown
        /\ Goto(IF PostStage(facts') = Null THEN "economics" ELSE "cleanup")
  /\ UNCHANGED <<stop, lock, disk>>

\* safeBuildRunEconomics: awaited, and never at the cost of the verdict.
Economics ==
  /\ point = "economics"
  /\ Proceed("cleanup")
  /\ UNCHANGED <<stop, work, lock, disk>>

----
(* The conversation, and its assessment. *)

\* Every end of runConversation is priced after: fail(), its last compose, and
\* stopped().
Conclude(stage) == verdict' = Compose(stage, facts') /\ UNCHANGED thrown /\ Goto("accounting")
Cancelled == verdict' = Indeterminate("stopped") /\ UNCHANGED thrown /\ Goto("accounting")

Project ==
  /\ point = "project"
  /\ \/ Halt(Cancelled)
     \/ Continue /\ Employ("converse")
     \/ /\ \E stage \in {"setup", "gauntlet"} : Conclude(stage)
        /\ UNCHANGED <<signal, work>>
  /\ UNCHANGED <<runStopped, early, lock, disk>>

\* The role's deadline; the first cause of a role's end is the one it keeps.
Deadline ==
  /\ point \in {"converse", "assess"} /\ cause = Null
  /\ cause' = "timed_out"
  /\ UNCHANGED <<control, stop, employed, secret, facts, outcome, lock, disk>>

\* The role wrote a completion, ended without one, left its private runtime
\* open, or exited in another way than cleanly.
ConversationEnds ==
  /\ point = "converse"
  /\ employed' = FALSE
  /\ \E conv \in {"completed", "incomplete", "unclosed", "unclean"} :
       facts' = [facts EXCEPT !.conv = conv]
  /\ Proceed("retain")
  /\ UNCHANGED <<stop, cause, secret, lock, disk>>

\* Evidence is captured and kept whatever the role came to; only then is its
\* end judged.
Retain ==
  /\ point = "retain"
  /\ \/ /\ \E capture \in Found : facts' = [facts EXCEPT !.capture = capture]
        /\ Turn
        /\ IF cause = "cancelled" \/ StopSeen THEN Cancelled
           ELSE IF facts.conv # "completed" \/ cause # Null THEN Conclude("gauntlet")
           ELSE IF facts'.capture \notin Available THEN Conclude("capture")
           ELSE Proceed("conversation-post")
     \/ UNCHANGED <<facts, signal>> /\ Conclude("capture")
  /\ UNCHANGED <<runStopped, early, employed, cause, secret, lock, disk>>

ConversationPost ==
  /\ point = "conversation-post"
  /\ \/ Halt(Cancelled)
     \/ Continue /\ Checked /\ Proceed("appoint")
     \/ Continue /\ UNCHANGED work /\ Conclude("checks")
  /\ UNCHANGED <<runStopped, early, lock, disk>>

Appoint ==
  /\ point = "appoint"
  /\ \/ Halt(Cancelled)
     \/ Continue /\ Employ("assess")
  /\ UNCHANGED <<runStopped, early, lock, disk>>

CheckError(f) == IF f.post = "crashed" \/ f.drift THEN "checks" ELSE Null

\* The assessor's completion is read between two looks at the stop flag and
\* the deadline; it counts only with the exit and the criteria that agree.
AssessmentEnds ==
  /\ point = "assess"
  /\ employed' = FALSE
  /\ Turn
  /\ \E layer \in Layers, assessed \in BOOLEAN :
       facts' = [facts EXCEPT !.layer = layer, !.assessed = assessed]
  /\ IF cause = "cancelled" \/ StopSeen THEN Cancelled
     ELSE IF cause # Null \/ ~facts'.assessed THEN Conclude("gauntlet")
     ELSE Conclude(CheckError(facts'))
  /\ UNCHANGED <<runStopped, early, cause, secret, lock, disk>>

\* runPreparedConversation: an assessment whose accounting is incomplete or
\* unreadable takes back a verdict that has no error yet.
Accounting ==
  /\ point = "accounting"
  /\ \/ Proceed("cleanup")
     \/ verdict.stage = Null /\ Return(Indeterminate("gauntlet"))
  /\ UNCHANGED <<stop, work, lock, disk>>

----
(* Back in runScenario, and in the command. *)

\* cleanupAgentRuntime in the finally of runInner: what it throws replaces what
\* was returned or thrown.
Cleanup ==
  /\ point = "cleanup"
  /\ \/ /\ secret' = IF secret = "tracked" THEN Null ELSE secret
        /\ Proceed("settle")
     \/ /\ secret = "tracked" /\ thrown' = "setup" /\ verdict' = Null /\ Goto("settle")
        /\ UNCHANGED secret
  /\ UNCHANGED <<stop, employed, cause, facts, lock, disk>>

\* The catch of runScenario; it prices a conversation that threw.
Settle ==
  /\ point = "settle"
  /\ verdict' = IF thrown = Null THEN verdict ELSE Indeterminate(thrown)
  /\ thrown' = Null
  /\ runStopped' = (runStopped \/ verdict'.stage = "stopped")
  /\ Goto("write")
  /\ UNCHANGED <<signal, early, work, lock, disk>>

WriteVerdict ==
  /\ point = "write"
  /\ \/ /\ disk' = [disk EXCEPT !.verdict = verdict]
        /\ Goto(IF cmd.campaign THEN "prune" ELSE "answer")
     \/ Goto("rejected") /\ UNCHANGED disk
  /\ UNCHANGED <<stop, work, outcome, lock>>

\* Trees of dependencies are pruned before the manifest names the files.
\* writeAttemptManifest drops an old blessing before it looks at anything.
Unbless ==
  /\ point \in {"prune", "stop-prune"}
  /\ disk' = [disk EXCEPT !.manifest = Null]
  /\ Goto(IF point = "prune" THEN "bless" ELSE "stop-bless")
  /\ UNCHANGED <<stop, work, outcome, lock>>

Bless(done, failed) ==
  \/ /\ disk' = [disk EXCEPT !.manifest = "current"]
     /\ done
  \/ failed /\ UNCHANGED disk

BlessVerdict ==
  /\ point = "bless"
  /\ Bless(Goto("answer"), Goto("rejected"))
  /\ UNCHANGED <<stop, work, outcome, lock>>

\* runWasStopped() tells a stop from one that came after the run was over.
Answer ==
  /\ point \in {"answer", "rejected"}
  /\ IF signal = "recorded" /\ runStopped
     THEN Goto("stop-verdict")
     ELSE /\ exit' = IF point = "answer" THEN ExitCode(verdict) ELSE "thrown"
          /\ point' = "finish" /\ UNCHANGED cmd
  /\ UNCHANGED <<stop, work, outcome, lock, disk>>

StopExit == point' = "finish" /\ exit' = "2" /\ UNCHANGED cmd

Rewritten == [verdict |-> Indeterminate("stopped"),
              manifest |-> IF disk.manifest = Null THEN Null ELSE "stale"]

\* writeStoppedVerdict keeps checks, layer and economics, and nothing else.
StopVerdict ==
  /\ point = "stop-verdict"
  /\ \/ /\ disk' = Rewritten
        /\ IF cmd.campaign THEN Goto("stop-prune") ELSE StopExit
     \/ point' = "finish" /\ exit' = "thrown" /\ UNCHANGED <<cmd, disk>>
  /\ UNCHANGED <<stop, work, outcome, lock>>

BlessStopped ==
  /\ point = "stop-bless"
  /\ Bless(StopExit, point' = "finish" /\ exit' = "thrown" /\ UNCHANGED cmd)
  /\ UNCHANGED <<stop, work, outcome, lock>>

Finish ==
  /\ point = "finish"
  /\ lock' = IF lock = "held" THEN "free" ELSE lock
  /\ Goto("over")
  /\ UNCHANGED <<stop, work, outcome, disk>>

----
(* Signals and death. *)

\* The run looks no more for a stop: the post-checks of a driven run have begun, or
\* the assessor of a conversation is done.
LooksNoMore ==
  IF cmd.mode = "qa" THEN point = "checking" \/ facts.post # Null ELSE facts.layer # Null

Alive == point \notin {"over", "killed"}

\* A signal arrives; before the handlers are there and after they are gone it
\* kills.
Signal ==
  /\ Alive /\ signal = "none"
  /\ signal' = "pending" /\ early' = ~LooksNoMore
  /\ UNCHANGED <<control, runStopped, work, outcome, lock, disk>>

\* The event loop turns.
Awaits == {"gauntlet", "capture", "economics", "converse", "retain", "assess",
           "accounting"}

OnStop ==
  /\ \/ point \in Awaits
     \/ point = "settle" /\ thrown # Null /\ cmd.mode = "conversation"
  /\ signal = "pending"
  /\ signal' = "recorded"
  /\ cause' = IF point \in {"converse", "assess"} /\ cause = Null
              THEN "cancelled" ELSE cause
  /\ UNCHANGED <<control, runStopped, early, employed, secret, facts, outcome, lock, disk>>

Perish ==
  /\ Alive
  /\ point' = "killed" /\ employed' = FALSE
  /\ UNCHANGED <<cmd, exit, stop, cause, secret, facts, outcome, lock, disk>>

RunStep ==
  \/ Refuse \/ Begin \/ Guards \/ Provision \/ Setup \/ PreChecks \/ Prepare
  \/ Launch \/ GauntletEnds \/ Capture \/ LastLook \/ PostChecks \/ Economics
  \/ Project \/ Deadline \/ ConversationEnds \/ Retain \/ ConversationPost
  \/ Appoint \/ AssessmentEnds \/ Accounting
  \/ Cleanup \/ Settle \/ WriteVerdict \/ Unbless \/ BlessVerdict \/ Answer
  \/ StopVerdict \/ BlessStopped \/ Finish

RunNext ==
  RunStep \/ Signal \/ OnStop \/ Perish

----
(* Properties. *)

Facts == [pre : Phases \cup {Null}, layer : Layers \cup {Null}, capture : Captures,
          post : Phases \cup {Null}, conv : {Null, "completed", "incomplete", "unclosed", "unclean"},
          drift : BOOLEAN, assessed : BOOLEAN, trace : BOOLEAN]

RunTypes ==
  /\ cmd \in Commands
  /\ point \in {"cli", "guards", "provision", "setup", "pre", "prepare", "launch",
            "gauntlet", "capture", "post", "checking", "economics", "project", "converse",
            "retain", "conversation-post", "appoint", "assess", "accounting",
            "cleanup", "settle", "write", "prune", "bless", "answer", "rejected",
            "stop-verdict", "stop-prune", "stop-bless", "finish", "over", "killed"}
  /\ signal \in {"none", "pending", "recorded"}
  /\ cause \in {Null, "cancelled", "timed_out"}
  /\ secret \in {Null, "untracked", "tracked"}
  /\ lock \in {"free", "held", "covered"}
  /\ facts \in Facts
  /\ thrown \in Stages \cup {Null}
  /\ verdict \in Verdicts \cup {Null}
  /\ disk \in Disks
  /\ exit \in {Null, "0", "1", "2", "thrown"}

Switches == runStopped \in BOOLEAN /\ employed \in BOOLEAN /\ early \in BOOLEAN

RunTypeOK == RunTypes /\ Switches

\* A run is judged, passed or failed, only on evidence: every phase ran to its
\* end, the records are the ones the scenario commits to, what the agent's
\* family needs of a transcript is there, and in a conversation the subject
\* completed it and the assessor agreed with itself; a pass has no failed check.
Earned(final) ==
  /\ facts.pre = "passed" /\ facts.post \in {"passed", "failed"} /\ ~facts.drift
  /\ cmd.mode = "qa" => facts.capture \notin Refused(cmd.family)
  /\ facts.trace => facts.capture \in Available
  /\ cmd.mode = "conversation" =>
       facts.conv = "completed" /\ facts.assessed /\ facts.capture \in Available
  /\ final = "pass" => facts.layer = "pass" /\ facts.post = "passed"
  /\ final = "fail" => facts.layer = "fail" \/ facts.post = "failed"

\* The exit code, verdict.json and, in a campaign, the presence of a manifest
\* tell the parent one story, and no command that answers keeps the lease.
AnswerAgrees ==
  /\ exit \in {"0", "1", "2"} =>
       /\ disk.verdict # Null /\ ExitCode(disk.verdict) = exit
       /\ ~cmd.campaign \/ disk.manifest # Null
  /\ point = "over" => lock # "held"

\* A stop that comes before the run's last look for one is heard, however late the event
\* loop turns: such a run passes and fails nowhere.  One that comes while the post-checks
\* block the loop is never heard, and the verdict stands (run-command.ts 353-365).
StopsAreHeard ==
  early => /\ disk.verdict = Null \/ disk.verdict.final = "indeterminate"
           /\ exit \notin {"0", "1"}

\* Both: what a stopped run leaves and what it answers agree.
StopsAreAnswered == StopsAreHeard /\ AnswerAgrees
====
