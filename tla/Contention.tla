---- MODULE Contention ----
(***************************************************************************)
(* The contention guard of a campaign (campaign/contention.ts): the        *)
(* sampler, its fsynced sidecar, the pure evaluator, and what the          *)
(* controller does with them (campaign/controller.ts): it halts admission  *)
(* while a breach is live, waits for fresh telemetry, and audits the block *)
(* that has ended.                                                         *)
(*                                                                         *)
(* The controller and the sampler share one thread, so a sample is taken   *)
(* only while the controller waits; a slow preparation blinds it.  Time is *)
(* counted in cadences.  Metrics are one: a sample is in bounds or over.   *)
(*                                                                         *)
(* Left out: the admission_wait lines (no reader of host lines sees them), *)
(* repairSidecar (a campaign starts once, on no sidecar), exposure and     *)
(* skew, the clipping of a live block (no live block is judged), what the  *)
(* sampler writes after a storage failure (the session ends unread).       *)
(***************************************************************************)
EXTENDS Integers, Sequences, FiniteSets

CONSTANTS
  Never,
  SustainK,   \* sustain_k: the samples an edge needs
  CoverageN,  \* coverage_n: the cadences a covered spacing may have
  Patience,   \* STALE_TELEMETRY_WAIT_CADENCES
  BlockSize,  \* the attempts of a block
  LastInstant \* bound: the last instant

\* sustain_k and coverage_n are positive (contracts/campaign/campaign.ts), and a
\* block has an attempt.
ASSUME ContentionAssumption ==
  /\ SustainK \in Nat \ {0} /\ CoverageN \in Nat \ {0} /\ BlockSize \in Nat \ {0}
  /\ Never \notin Nat

VARIABLES
  clock,
  lines,    \* the valid prefix of the sidecar
  torn,     \* it has a damaged suffix
  due,      \* the sampler's next sample
  crossed,  \* crossedRun
  open,     \* openSince
  within,   \* inBoundsRun
  breach,   \* the controller's flag
  halted,   \* the controller heard of a storage failure
  doing,    \* of the controller
  slot,     \* the attempts prepared for the block being activated
  since,    \* when the wait for telemetry began
  block     \* the one block: its interval, how it was judged

sidecar == <<lines, torn>>
sampler == <<due, crossed, open, within>>
controller == <<doing, slot, since, block>>
contentionVars == <<clock, sidecar, sampler, breach, halted, controller>>

NoBlock == [from |-> Never, until |-> Never, valid |-> FALSE, invalid |-> Never, loud |-> FALSE]

ContentionInit ==
  /\ clock = 0
  /\ lines = <<>> /\ torn = FALSE
  /\ due = 0 /\ crossed = 0 /\ open = Never /\ within = 0
  /\ breach = FALSE /\ halted = FALSE
  /\ doing = "select" /\ slot = 0 /\ since = 0 /\ block = NoBlock

----
(* The evaluator. *)

Earliest(S) == CHOOSE x \in S : \A y \in S : x <= y
Latest(S) == CHOOSE x \in S : \A y \in S : y <= x

Real == {lines[i].at : i \in {j \in DOMAIN lines : lines[j].read # "gap"}}
Newest == Latest({0} \cup Real)

\* breachWindows: one line after the other, gaps neither extend nor interrupt.
Closed == [crossing |-> 0, opened |-> Never, inside |-> 0, windows |-> {}]

Exit(s, at) ==
  [s EXCEPT !.windows = @ \cup {<<s.opened, at>>}, !.opened = Never, !.inside = 0]

Judge(s, line) ==
  CASE line.read = "gap" -> s
    [] s.opened = Never /\ line.read = "over" ->
         IF s.crossing + 1 >= SustainK
         THEN [s EXCEPT !.opened = line.at, !.crossing = 0, !.inside = 0]
         ELSE [s EXCEPT !.crossing = @ + 1]
    [] s.opened = Never /\ line.read = "in" -> [s EXCEPT !.crossing = 0]
    [] s.opened # Never /\ line.read = "over" -> [s EXCEPT !.inside = 0]
    [] s.opened # Never /\ line.read = "in" ->
         IF s.inside + 1 >= SustainK
         THEN Exit(s, line.at)
         ELSE [s EXCEPT !.inside = @ + 1]

ScanOf(seen) ==
  LET after[i \in 0 .. Len(seen)] ==
        IF i = 0 THEN Closed ELSE Judge(after[i - 1], seen[i])
  IN  after[Len(seen)]
Scanned == ScanOf(lines)

BreachWindows ==
  Scanned.windows \cup
    (IF Scanned.opened = Never THEN {} ELSE {<<Scanned.opened, Newest>>})

\* The spacings that are too wide, the campaign's opening and the horizon among
\* the neighbours; without a sample everything is uncovered.
Spacings ==
  LET points == {0, clock} \cup Real
  IN  {w \in points \X points :
         /\ w[2] > w[1] + CoverageN
         /\ \A p \in points : p <= w[1] \/ w[2] <= p}
      \cup (IF Real = {} THEN {<<0, clock>>} ELSE {})

\* A gap line blinds the whole interval between its neighbours.
BlindAround(at) ==
  <<Latest({0} \cup {s \in Real : s < at}),
    Earliest({clock} \cup {s \in Real : s >= at})>>

Uncovered ==
  Spacings
    \cup {BlindAround(lines[i].at) : i \in {j \in DOMAIN lines : lines[j].read = "gap"}}
    \cup (IF torn THEN {<<Newest, clock>>} ELSE {})

Overlaps(interval, from, until) == from <= interval[2] /\ interval[1] <= until

\* evaluateContention: a known breach, else blindness, else clean.
Verdict(from, until) ==
  IF \E w \in BreachWindows : Overlaps(w, from, until) THEN "invalid"
  ELSE IF \E u \in Uncovered : Overlaps(u, from, until) THEN "unknown"
  ELSE "clean"

TelemetryAge ==
  IF lines = <<>> THEN LastInstant + 3 ELSE clock - lines[Len(lines)].at
Recent == TelemetryAge <= 2

----
(* The sampler. *)

\* The controller gives the thread up only where it waits.
Yielded == doing \in {"select", "wait", "run"}

\* Mutant of TrackEdges: a crossing does not interrupt the way back.
TrackEdgesLoose(over) ==
  IF open = Never
  THEN LET n == IF over THEN crossed + 1 ELSE 0
       IN  IF n >= SustainK THEN [c |-> n, o |-> clock, w |-> 0]
           ELSE [c |-> n, o |-> Never, w |-> within]
  ELSE IF over THEN [c |-> crossed, o |-> open, w |-> within]
  ELSE IF within + 1 >= SustainK THEN [c |-> 0, o |-> Never, w |-> 0]
  ELSE [c |-> crossed, o |-> open, w |-> within + 1]

\* trackEdges: the run of crossings, the open window, the run back inside.
TrackEdges(over) ==
  IF open = Never
  THEN LET n == IF over THEN crossed + 1 ELSE 0
       IN  IF n >= SustainK THEN [c |-> n, o |-> clock, w |-> 0]
           ELSE [c |-> n, o |-> Never, w |-> within]
  ELSE IF over THEN [c |-> crossed, o |-> open, w |-> 0]
  ELSE IF within + 1 >= SustainK THEN [c |-> 0, o |-> Never, w |-> 0]
  ELSE [c |-> crossed, o |-> open, w |-> within + 1]

Track(over) ==
  LET e == TrackEdges(over) IN crossed' = e.c /\ open' = e.o /\ within' = e.w

\* A line behind a damaged one is never read again.
Write(read) ==
  IF torn THEN UNCHANGED lines ELSE lines' = Append(lines, [at |-> clock, read |-> read])

Due == Yielded /\ ~halted /\ clock >= due
Rearm == due' = clock + 1

\* The line is durable, then the controller hears of the edge.
Sample ==
  /\ Due /\ Rearm
  /\ \E over \in BOOLEAN :
       /\ Track(over)
       /\ Write(IF over THEN "over" ELSE "in")
  /\ breach' = (open' # Never)
  /\ UNCHANGED <<clock, torn, halted, controller>>

ProbeFails ==
  /\ Due /\ Rearm
  /\ Write("gap")
  /\ UNCHANGED <<clock, torn, crossed, open, within, breach, halted, controller>>

\* The append throws, whole or in the middle of a line, and the gap line lands or
\* not.  The edges have moved, but nobody hears of them any more.
StorageFails ==
  /\ Due /\ Rearm
  /\ \/ Write("gap") /\ UNCHANGED torn
     \/ UNCHANGED lines /\ torn' \in {torn, TRUE}
  /\ halted' = TRUE
  /\ UNCHANGED <<clock, crossed, open, within, breach, controller>>

----
(* The controller. *)

\* guard throws: the session is aborted, and its block with it.
Aborted ==
  /\ doing \in {"select", "wait", "run"} /\ halted
  /\ doing' = "over"
  /\ UNCHANGED <<clock, sidecar, sampler, breach, halted, slot, since, block>>

ToPrepare == doing' = "prepare" /\ since' = 0 /\ UNCHANGED block

\* admit: through at once when the telemetry is fresh, else a wait.
AdmitThen(passed) ==
  \/ Recent /\ passed
  \/ ~Recent /\ doing' = "wait" /\ since' = clock /\ UNCHANGED block

\* The candidates, with no breach live; sampler.start() took the first sample.
Select ==
  /\ doing = "select" /\ ~halted /\ lines # <<>>
  /\ block.from = Never
  /\ ~breach
  /\ AdmitThen(ToPrepare)
  /\ slot' = 0
  /\ UNCHANGED <<clock, sidecar, sampler, breach, halted>>

\* The last admit before the commit; the block has its first prepared_at.
Activated ==
  /\ doing' = "run" /\ since' = 0
  /\ block' = [block EXCEPT !.loud = breach]

\* One attempt is prepared, in one synchronous stretch.
Prepare ==
  /\ doing = "prepare"
  /\ \E d \in {0, 3} : clock + d <= LastInstant /\ clock' = clock + d
  /\ slot' = slot + 1
  /\ block' = [block EXCEPT !.from = IF slot = 0 THEN clock ELSE @]
  /\ doing' = "admit"
  /\ UNCHANGED <<sidecar, sampler, breach, halted, since>>

Admit ==
  /\ doing = "admit"
  /\ AdmitThen(IF slot < BlockSize THEN ToPrepare ELSE Activated)
  /\ UNCHANGED <<clock, sidecar, sampler, breach, halted, slot>>

\* A fresh line ends the wait.  Only the first wait looks at the breach again.
Released ==
  /\ doing = "wait" /\ ~halted /\ Recent
  /\ IF slot = 0 /\ breach THEN doing' = "select" /\ since' = 0 /\ UNCHANGED block
     ELSE IF slot < BlockSize THEN ToPrepare ELSE Activated
  /\ UNCHANGED <<clock, sidecar, sampler, breach, halted, slot>>

\* A sampler that stays silent ends the campaign.
Starved ==
  /\ doing = "wait" /\ ~halted /\ ~Recent /\ clock >= since + Patience
  /\ doing' = "over"
  /\ UNCHANGED <<clock, sidecar, sampler, breach, halted, slot, since, block>>

\* The last worker of the block is proved dead.
Ends ==
  /\ doing = "run" /\ ~halted
  /\ doing' = "select"
  /\ block' = [block EXCEPT !.until = clock]
  /\ UNCHANGED <<clock, sidecar, sampler, breach, halted, slot, since>>

\* A host sample at or after the end of the block.
Closing == \E s \in Real : s >= block.until

\* audit: invalidated by what overlaps it, validated once a sample closes it.
Audit ==
  /\ doing = "select" /\ ~halted
  /\ block.until # Never /\ block.invalid = Never
  /\ LET v == Verdict(block.from, block.until)
     IN  \/ v # "clean" /\ block' = [block EXCEPT !.invalid = v]
         \/ v = "clean" /\ ~block.valid /\ Closing
              /\ block' = [block EXCEPT !.valid = TRUE]
  /\ UNCHANGED <<clock, sidecar, sampler, breach, halted, doing, slot, since>>

Elapses ==
  /\ Yielded /\ clock < LastInstant
  /\ clock' = clock + 1
  /\ UNCHANGED <<sidecar, sampler, breach, halted, controller>>

ContentionNext ==
  \/ Sample \/ ProbeFails \/ StorageFails
  \/ Aborted \/ Select \/ Prepare \/ Admit \/ Released \/ Starved \/ Ends \/ Audit
  \/ Elapses

ContentionSpec == ContentionInit /\ [][ContentionNext]_contentionVars

----
(* Properties. *)

\* What a sustained breach is, without counters: K crossings in a row, gaps
\* apart, and no K samples in a row back inside since.
Collect(samples, line) == IF line.read = "gap" THEN samples ELSE Append(samples, line)
SamplesOf(seen) ==
  LET after[i \in 0 .. Len(seen)] == IF i = 0 THEN <<>> ELSE Collect(after[i - 1], seen[i])
  IN  after[Len(seen)]
RunOf(samples, read, i) ==
  /\ i >= SustainK
  /\ \A j \in i - SustainK + 1 .. i : samples[j].read = read
Breaching(samples) ==
  \E i \in DOMAIN samples :
    /\ RunOf(samples, "over", i)
    /\ ~ \E j \in i + SustainK .. Len(samples) : RunOf(samples, "in", j)
InBreach == Breaching(SamplesOf(lines))

\* The controller's flag, the definition of a sustained breach and the auditor's open
\* window agree whenever the thread is free, whatever was missed: what halts
\* admission is what will invalidate.
FlagIsBreach == ~halted => (breach <=> InBreach)
FlagIsWindow == ~halted => (breach <=> Scanned.opened # Never)

\* Once a sample lies after the end of a block, its verdict is final: no later
\* sample, gap, silence or damage changes what the audit says of it.
Settled == block.until # Never /\ \E s \in Real : s > block.until
FinalStep == Settled => Verdict(block.from, block.until)' = Verdict(block.from, block.until)

\* What halts admission is what invalidates a block, and the audit of a block does
\* not change once a sample lies after it.
ContentionIsSound == [](FlagIsBreach /\ FlagIsWindow) /\ [][FinalStep]_contentionVars
====
