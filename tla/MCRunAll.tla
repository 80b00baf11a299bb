---- MODULE MCRunAll ----
(***************************************************************************)
(* A batch of run-all, and the attempt that a command makes whether a      *)
(* batch or a campaign started it: a behaviour is one's or the other's.    *)
(***************************************************************************)
EXTENDS RunAll, AttemptPublication, TLC

CONSTANTS spaced, plain, directive

VARIABLE part  \* whose behaviour it is

all == <<part, attemptVars, batchVars>>

\* Cells of two limiter keys, one capped and spaced and one with neither, and an
\* entry that cannot run.
TwoKeys == [c \in Cells |-> IF c % 2 = 1 THEN spaced ELSE plain]
Caps == spaced :> NumCells @@ plain :> 1
Spacings == spaced :> 2 @@ plain :> 0

\* Every kind of command: in a campaign or by hand, traced or not.
Command(mode, family, campaign, trace) ==
  [mode |-> mode, family |-> family, campaign |-> campaign,
   covered |-> campaign, trace |-> trace]
Cmds ==
  { Command("qa", "claude", TRUE, TRUE), Command("qa", "codex", TRUE, FALSE),
    Command("qa", "kimi", FALSE, TRUE), Command("qa", "antigravity", FALSE, FALSE),
    Command("qa", "opencode", TRUE, TRUE), Command("conversation", "pi", TRUE, TRUE) }
Captured == {"absent", "misplaced", "messages", "tools", "unmarked"}

OfAttempt(A) == part = "attempt" /\ A /\ UNCHANGED <<part, batchVars>>
OfBatch(A) == part = "batch" /\ A /\ UNCHANGED <<part, attemptVars>>

\* In a behaviour of the batch some command waits and never begins.
Opens ==
  /\ BatchInit /\ AttemptInit
  /\ \/ part = "attempt"
     \/ part = "batch" /\ cmd = CHOOSE c \in Commands : TRUE

Moves == OfBatch(BatchNext) \/ OfAttempt(AttemptNext)

\* BatchFairness and AttemptFairness, where it is their turn.
Fairness ==
  /\ WF_all(OfBatch(Acquire \/ Validate \/ WriteHeader \/ RecordSkips \/ Release))
  /\ WF_all(OfBatch(Pass \/ Dispatches \/ Turns \/ Listen \/ Footer))
  /\ WF_all(OfBatch(Elapses))
  /\ \A c \in Cells : WF_all(OfBatch(Exits(c))) /\ WF_all(OfBatch(Completes(c)))
  /\ WF_all(OfAttempt(Runs))
  /\ WF_all(OfAttempt(Inspect))
  /\ WF_all(OfAttempt(Publish))
  /\ WF_all(OfAttempt(Observe))

Lives == Opens /\ [][Moves]_all /\ Fairness

----
(* A property of the whole. *)

\* A batch closes, stopped or not, and every attempt comes to an observation or
\* its session to an interruption (RunAll, AttemptPublication).
RunsEnd ==
  /\ <>(part = "batch" => phase \in {"over", "dead"})
  /\ <>(part = "attempt" => host \in {"observed", "interrupted"})
====
