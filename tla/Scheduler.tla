---- MODULE Scheduler ----
(***************************************************************************)
(* The batch scheduler of src/scheduler/index.ts: one dispatcher that owns *)
(* a pool of Jobs slots and starts the cells of a batch under the cap, the *)
(* start-to-start spacing and the rate-limit latch of their limiter key.   *)
(*                                                                         *)
(* The dispatcher runs on one thread and gives it up only where it parks,  *)
(* so completions and the stop request happen only while it is parked.     *)
(* The clock is another matter: every eligibility test and the choice of   *)
(* the wake-up time read it anew, and it moves on between two readings.    *)
(*                                                                         *)
(* Instants are kept relative to now, which loses nothing because the code *)
(* only compares them with now and with one another: rest[k] is what is    *)
(* left until nextStart of k, timer what is left until the wake-up.        *)
(***************************************************************************)
EXTENDS Integers, Sequences, FiniteSets

CONSTANTS
    NumCells,     \* the batch holds the cells 1 .. NumCells, in array order
    Keys,         \* limiter keys
    KeyOf,        \* the limiter key of each cell
    Jobs,         \* slots of the global pool
    CapFor,       \* in-flight cap of each key (NumCells where the code has null)
    SpacingFor,   \* start-to-start gap of each key, in clock steps
    None          \* no timer; never started

Cells == 1 .. NumCells

ASSUME SchedulerAssumption ==
    /\ NumCells \in Nat
    /\ KeyOf \in [Cells -> Keys]
    /\ Jobs \in Nat \ {0}
    /\ CapFor \in [Keys -> Nat \ {0}]
    /\ SpacingFor \in [Keys -> Nat]
    /\ None \notin Int

VARIABLES
    pc,             \* the dispatcher: pass, scan, settle, parked, done
    at,             \* the cell the greedy scan has come to
    status,         \* of each cell: queued, started, terminal
    told,           \* of each cell: the terminal events emitted for it
    freeSlots,      \* slots of the pool that are free
    inflight,       \* of each key: children running
    inflightCount,  \* children running
    rest,           \* of each key: what is left until its next permitted start
    age,            \* of each cell: time since it was started, up to the spacing of its key
    latched,        \* keys whose quota a finished run reported exhausted
    stopRequested,
    armed,          \* the parked promise is unresolved
    timer           \* what is left of the spacing wait the dispatcher parked on

pool == <<freeSlots, inflight, inflightCount>>
instants == <<rest, age, timer>>
vars == <<pc, at, status, told, pool, instants, latched, stopRequested, armed>>

Queued == {c \in Cells : status[c] = "queued"}
Started == {c \in Cells : status[c] = "started"}
AllTerminal == \A c \in Cells : status[c] = "terminal"

Init ==
    /\ pc = "pass" /\ at = 1
    /\ status = [c \in Cells |-> "queued"]
    /\ told = [c \in Cells |-> <<>>]
    /\ freeSlots = Jobs
    /\ inflight = [k \in Keys |-> 0] /\ inflightCount = 0
    /\ rest = [k \in Keys |-> 0]
    /\ age = [c \in Cells |-> None]
    /\ latched = {} /\ stopRequested = FALSE
    /\ armed = FALSE /\ timer = None

(***************************************************************************)
(* Cells leave the queue: the skips and the end of a run.                  *)
(***************************************************************************)

\* The cells skipped for a reason get their terminal event and that status.
Skip(skipped, reason) ==
    /\ status' = [c \in Cells |-> IF c \in skipped THEN "terminal" ELSE status[c]]
    /\ told' = [c \in Cells |-> IF c \in skipped THEN Append(told[c], reason) ELSE told[c]]

\* A completion or a stop resolves the promise the dispatcher parked on.
SignalLost == armed' = armed
SignalWake == armed' = FALSE

(***************************************************************************)
(* One pass of the dispatcher.                                             *)
(***************************************************************************)

PassBegins ==
    /\ pc = "pass"
    /\ \/ /\ stopRequested
          /\ Skip(Queued, "stopped")
          /\ pc' = "settle"
          /\ UNCHANGED at
       \/ /\ ~stopRequested
          /\ pc' = "scan" /\ at' = 1
          /\ UNCHANGED <<status, told>>
    /\ UNCHANGED <<pool, instants, latched, stopRequested, armed>>

RoomInThePool(k) == freeSlots > 0
RoomFor(k) == freeSlots > 0 /\ inflight[k] < CapFor[k]

Eligible(c) ==
    /\ RoomFor(KeyOf[c])
    /\ rest[KeyOf[c]] = 0
    /\ KeyOf[c] \notin latched
    /\ ~stopRequested

\* The next permitted start counts from this start, whatever the last one was.
NextStartKept(k) == UNCHANGED rest
NextStart(k) == rest' = [rest EXCEPT ![k] = SpacingFor[k]]

StartCell(c) ==
    /\ freeSlots' = freeSlots - 1
    /\ inflight' = [inflight EXCEPT ![KeyOf[c]] = @ + 1]
    /\ inflightCount' = inflightCount + 1
    /\ NextStart(KeyOf[c])
    /\ status' = [status EXCEPT ![c] = "started"]
    /\ age' = [age EXCEPT ![c] = 0]

\* dispatchGreedy, one cell of the scan at a time.
Scan ==
    /\ pc = "scan"
    /\ at \in Cells /\ freeSlots > 0
    /\ \/ at \in Queued /\ Eligible(at) /\ StartCell(at)
       \/ ~(at \in Queued /\ Eligible(at)) /\ UNCHANGED <<status, pool, rest, age>>
    /\ at' = at + 1
    /\ UNCHANGED <<pc, told, timer, latched, stopRequested, armed>>

ScanEnds ==
    /\ pc = "scan"
    /\ at \notin Cells \/ freeSlots <= 0
    /\ pc' = "settle"
    /\ UNCHANGED <<at, status, told, pool, instants, latched, stopRequested, armed>>

WaitsOfIdleKeys ==
    {rest[k] : k \in {q \in Keys :
        /\ \E c \in Queued : KeyOf[c] = q
        /\ q \notin latched /\ RoomFor(q) /\ ~stopRequested
        /\ rest[q] > 0 /\ inflight[q] = 0}}

\* What is left for the queued cells that only their spacing keeps back, read
\* with the clock of this moment. A cell whose spacing has run out since the
\* scan passed it over gives no wake-up time.
SpacingWaits ==
    {rest[k] : k \in {q \in Keys :
        /\ \E c \in Queued : KeyOf[c] = q
        /\ q \notin latched /\ RoomFor(q) /\ ~stopRequested
        /\ rest[q] > 0}}

\* batch_done: every cell is terminal, or nothing is left to wait for.
NothingToAwait == AllTerminal \/ (inflightCount = 0 /\ SpacingWaits = {})

BatchDone ==
    /\ pc = "settle" /\ NothingToAwait
    /\ pc' = "done"
    /\ UNCHANGED <<at, status, told, pool, instants, latched, stopRequested, armed>>

Park ==
    /\ pc = "settle" /\ ~NothingToAwait
    /\ pc' = "parked" /\ armed' = TRUE
    /\ \/ SpacingWaits = {} /\ timer' = None
       \/ \E t \in SpacingWaits : (\A u \in SpacingWaits : t <= u) /\ timer' = t
    /\ UNCHANGED <<at, status, told, pool, rest, age, latched, stopRequested>>

Resume ==
    /\ pc = "parked"
    /\ ~armed \/ timer = 0
    /\ pc' = "pass" /\ timer' = None
    /\ UNCHANGED <<at, status, told, pool, rest, age, latched, stopRequested, armed>>

(***************************************************************************)
(* What reaches the parked dispatcher: a child's end, the stop request     *)
(* and time.                                                               *)
(***************************************************************************)

\* The queued cells of a key join the latch as it is set.
Latch(k, ended) ==
    /\ latched' = latched \cup {k}
    /\ status' = [c \in Cells |->
          IF c = ended \/ (c \in Queued /\ KeyOf[c] = k) THEN "terminal" ELSE status[c]]
    /\ told' = [c \in Cells |->
          CASE c = ended -> Append(told[c], "finished")
            [] c \in Queued /\ KeyOf[c] = k -> Append(told[c], "rate-limited")
            [] OTHER -> told[c]]

\* onComplete, for a child that exits and for one whose launch is rejected.
OnComplete(c, limited) ==
    /\ pc = "parked" /\ c \in Started
    /\ freeSlots' = freeSlots + 1
    /\ inflight' = [inflight EXCEPT ![KeyOf[c]] = @ - 1]
    /\ inflightCount' = inflightCount - 1
    /\ \/ limited /\ Latch(KeyOf[c], c)
       \/ /\ ~limited
          /\ status' = [status EXCEPT ![c] = "terminal"]
          /\ told' = [told EXCEPT ![c] = Append(@, "finished")]
          /\ UNCHANGED latched
    /\ SignalWake
    /\ UNCHANGED <<pc, at, instants, stopRequested>>

RequestStop ==
    /\ pc = "parked" /\ ~stopRequested
    /\ stopRequested' = TRUE
    /\ SignalWake
    /\ UNCHANGED <<pc, at, status, told, pool, instants, latched>>

Down(n) == IF n > 0 THEN n - 1 ELSE 0

\* The clock moves on, between any two steps of the dispatcher.
Tick ==
    /\ pc # "done"
    /\ \/ \E k \in Keys : rest[k] > 0
       \/ \E c \in Cells : age[c] # None /\ age[c] < SpacingFor[KeyOf[c]]
       \/ timer # None /\ timer > 0
    /\ rest' = [k \in Keys |-> Down(rest[k])]
    /\ age' = [c \in Cells |->
          IF age[c] # None /\ age[c] < SpacingFor[KeyOf[c]] THEN age[c] + 1 ELSE age[c]]
    /\ timer' = IF timer = None THEN None ELSE Down(timer)
    /\ UNCHANGED <<pc, at, status, told, pool, latched, stopRequested, armed>>

Next ==
    \/ PassBegins \/ Scan \/ ScanEnds \/ BatchDone \/ Park \/ Resume
    \/ \E c \in Cells, limited \in BOOLEAN : OnComplete(c, limited)
    \/ RequestStop
    \/ Tick

Spec == Init /\ [][Next]_vars

(***************************************************************************)
(* Properties.                                                             *)
(***************************************************************************)

TypeOK ==
    /\ pc \in {"pass", "scan", "settle", "parked", "done"}
    /\ at \in 1 .. (NumCells + 1)
    /\ status \in [Cells -> {"queued", "started", "terminal"}]
    /\ told \in [Cells -> Seq({"finished", "rate-limited", "stopped"})]
    /\ freeSlots \in Int
    /\ inflight \in [Keys -> Int] /\ inflightCount \in Int
    /\ rest \in [Keys -> Nat]
    /\ age \in [Cells -> Nat \cup {None}]
    /\ latched \subseteq Keys /\ stopRequested \in BOOLEAN
    /\ armed \in BOOLEAN /\ timer \in Nat \cup {None}

\* The three counters the dispatcher keeps agree with the cells that run, so
\* the pool and the caps of the keys are true caps: "a TRUE global cap" and
\* per-key caps (tests 1, 2 and 9), whatever mix of ends, latches and stops.
CapacityExact ==
    /\ freeSlots >= 0
    /\ freeSlots + Cardinality(Started) = Jobs
    /\ inflightCount = Cardinality(Started)
    /\ \A k \in Keys :
        /\ inflight[k] = Cardinality({c \in Started : KeyOf[c] = k})
        /\ inflight[k] <= CapFor[k]

\* A cell has its one terminal event exactly when it is terminal, a cell that
\* ran reports its end and no skip, and no skip lacks its cause (test 7).
AnsweredOnce ==
    \A c \in Cells :
        /\ Len(told[c]) = (IF status[c] = "terminal" THEN 1 ELSE 0)
        /\ status[c] = "terminal" =>
            /\ told[c][1] = "finished" <=> age[c] # None
            /\ told[c][1] = "rate-limited" => KeyOf[c] \in latched
            /\ told[c][1] = "stopped" => stopRequested

\* Both: every slot and every answer is accounted for.
CountsAreRight == CapacityExact /\ AnsweredOnce

\* Skips are eager (tests 5, 6 and 10): a latched key has nothing in the queue,
\* and a dispatcher that sleeps on after a stop has nothing there either.
EagerSkips ==
    /\ \A c \in Queued : KeyOf[c] \notin latched
    /\ pc = "parked" /\ armed /\ stopRequested => Queued = {}

\* No slot is wasted (test 4): a sleeping dispatcher leaves a cell in the queue
\* only behind a full pool, a full cap or a spacing, and it sleeps no longer
\* than a spacing that still runs.
NoWastedSlot ==
    pc = "parked" /\ armed =>
        \A c \in Queued :
            \/ ~RoomFor(KeyOf[c])
            \/ SpacingFor[KeyOf[c]] > 0 /\ rest[KeyOf[c]] = 0
            \/ timer # None /\ timer <= rest[KeyOf[c]]

\* batch_done comes with no child in flight, and what it leaves in the queue is
\* behind no latch, no stop and no spacing.
DoneIsQuiet ==
    pc = "done" =>
        /\ Started = {}
        /\ \A c \in Queued : ~stopRequested /\ KeyOf[c] \notin latched /\ rest[KeyOf[c]] = 0

\* All three: a dispatcher that waits, or leaves, has nothing it could do.
WaitsAreRight == EagerSkips /\ NoWastedSlot /\ DoneIsQuiet

\* Two starts of one key are at least its spacing apart (test 3), also when the
\* first of them has ended, or a latch or a stop came between.
SpacedStarts ==
    [][\A c \in Cells : status[c] = "queued" /\ status'[c] = "started" =>
          \A d \in Cells : KeyOf[d] = KeyOf[c] /\ age[d] # None => age[d] >= SpacingFor[KeyOf[c]]
      ]_vars

\* RunScheduleArgs.done "resolves once every cell has a terminal event", and
\* the early exit of the loop is called unreachable.
DoneIsComplete == pc = "done" => AllTerminal
====
