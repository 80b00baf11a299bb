---- MODULE RunAllProofs ----
(***************************************************************************)
(* The safety of the dispatcher, for any cells, keys, caps and spacings,   *)
(* and what a batch of run-all keeps, for any matrix and any pool: a       *)
(* closed batch has accounted for its matrix, a stopped one has no child   *)
(* that the stop did not reach, and no child spends outside the lease.     *)
(***************************************************************************)
EXTENDS RunAll, FiniteSetTheorems, TLAPS

(* The dispatcher. *)

Events == {"finished", "rate-limited", "stopped"}

LEMMA SkipTypes ==
  ASSUME TypeOK, NEW skipped, NEW reason \in Events, Skip(skipped, reason)
  PROVE  /\ status' \in [Cells -> {"queued", "started", "terminal"}]
         /\ told' \in [Cells -> Seq(Events)]
<1>1. status' \in [Cells -> {"queued", "started", "terminal"}]
  BY DEF TypeOK, Skip
<1>2. \A c \in Cells : told[c] \in Seq(Events) /\ Append(told[c], reason) \in Seq(Events)
  BY DEF TypeOK, Events
<1>3. told' \in [Cells -> Seq(Events)]
  BY <1>2 DEF Skip
<1> QED BY <1>1, <1>3

LEMMA LatchTypes ==
  ASSUME TypeOK, NEW k \in Keys, NEW e \in Cells, Latch(k, e)
  PROVE  /\ status' \in [Cells -> {"queued", "started", "terminal"}]
         /\ told' \in [Cells -> Seq(Events)]
         /\ latched' \subseteq Keys
<1>1. status' \in [Cells -> {"queued", "started", "terminal"}]
  BY DEF TypeOK, Latch
<1>2. \A c \in Cells : /\ told[c] \in Seq(Events)
                       /\ Append(told[c], "finished") \in Seq(Events)
                       /\ Append(told[c], "rate-limited") \in Seq(Events)
  BY DEF TypeOK, Events
<1>3. told' \in [Cells -> Seq(Events)]
  BY <1>2 DEF Latch
<1> QED BY <1>1, <1>3 DEF Latch, TypeOK

LEMMA DownTypes == \A n \in Nat : Down(n) \in Nat
  BY DEF Down

\* Every variable keeps its type, for any batch and any clock.
THEOREM TypeCorrect == Spec => []TypeOK
<1>1. Init => TypeOK
  <2> SUFFICES ASSUME Init PROVE TypeOK
    OBVIOUS
  <2>1. told \in [Cells -> Seq(Events)]
    <3>1. <<>> \in Seq(Events)
      OBVIOUS
    <3> QED BY <3>1 DEF Init
  <2>2. at \in 1 .. (NumCells + 1) /\ freeSlots \in Int
    BY SchedulerAssumption DEF Init
  <2>3. rest \in [Keys -> Nat] /\ inflight \in [Keys -> Int] /\ age \in [Cells -> Nat \cup {None}]
    BY DEF Init
  <2>4. status \in [Cells -> {"queued", "started", "terminal"}]
    BY DEF Init
  <2>5. pc \in {"pass", "scan", "settle", "parked", "done"} /\ timer \in Nat \cup {None}
    BY DEF Init
  <2>6. inflightCount \in Int /\ latched \subseteq Keys
    BY DEF Init
  <2>7. stopRequested \in BOOLEAN /\ armed \in BOOLEAN
    BY Zenon DEF Init
  <2> QED BY <2>1, <2>2, <2>3, <2>4, <2>5, <2>6, <2>7 DEF TypeOK, Events
<1>2. TypeOK /\ [Next]_vars => TypeOK'
  <2> SUFFICES ASSUME TypeOK, [Next]_vars PROVE TypeOK'
    OBVIOUS
  <2> USE SchedulerAssumption
  <2>1. CASE PassBegins
    <3>1. CASE stopRequested /\ Skip(Queued, "stopped")
      <4>1. /\ status' \in [Cells -> {"queued", "started", "terminal"}]
            /\ told' \in [Cells -> Seq(Events)]
        BY <3>1, SkipTypes DEF Events
      <4> QED BY <2>1, <3>1, <4>1 DEF PassBegins, TypeOK, pool, instants, Events
    <3>2. CASE UNCHANGED <<status, told>>
      BY <2>1, <3>2 DEF PassBegins, TypeOK, pool, instants, Cells
    <3> QED BY <2>1, <3>1, <3>2 DEF PassBegins
  <2>2. CASE Scan
    <3>1. CASE at \in Queued /\ Eligible(at) /\ StartCell(at)
      BY <2>2, <3>1 DEF Scan, StartCell, NextStart, TypeOK, Queued, Cells, pool
    <3>2. CASE UNCHANGED <<status, pool, rest, age>>
      BY <2>2, <3>2 DEF Scan, TypeOK, Cells, pool
    <3> QED BY <2>2, <3>1, <3>2 DEF Scan
  <2>3. CASE ScanEnds
    BY <2>3 DEF ScanEnds, TypeOK, pool, instants
  <2>4. CASE BatchDone
    BY <2>4 DEF BatchDone, TypeOK, pool, instants
  <2>5. CASE Park
    <3>1. SpacingWaits \subseteq Nat
      BY DEF SpacingWaits, TypeOK
    <3> QED BY <2>5, <3>1 DEF Park, TypeOK, pool
  <2>6. CASE Resume
    BY <2>6 DEF Resume, TypeOK, pool
  <2>7. ASSUME NEW c \in Cells, NEW limited \in BOOLEAN, OnComplete(c, limited)
        PROVE  TypeOK'
    <3>1. KeyOf[c] \in Keys
      OBVIOUS
    <3>2. /\ freeSlots' \in Int /\ inflight' \in [Keys -> Int] /\ inflightCount' \in Int
          /\ armed' = FALSE
          /\ UNCHANGED <<pc, at, rest, age, timer, stopRequested>>
      BY <2>7 DEF OnComplete, TypeOK, instants, SignalWake
    <3>3. /\ status' \in [Cells -> {"queued", "started", "terminal"}]
          /\ told' \in [Cells -> Seq(Events)]
          /\ latched' \subseteq Keys
      <4>1. CASE limited /\ Latch(KeyOf[c], c)
        BY <3>1, <4>1, LatchTypes
      <4>2. CASE /\ status' = [status EXCEPT ![c] = "terminal"]
                 /\ told' = [told EXCEPT ![c] = Append(@, "finished")]
                 /\ UNCHANGED latched
        <5>1. told[c] \in Seq(Events) /\ Append(told[c], "finished") \in Seq(Events)
          BY DEF TypeOK, Events
        <5> QED BY <4>2, <5>1 DEF TypeOK, Events
      <4> QED BY <2>7, <4>1, <4>2 DEF OnComplete
    <3> QED BY <3>2, <3>3 DEF TypeOK, Events
  <2>8. CASE RequestStop
    BY <2>8 DEF RequestStop, TypeOK, pool, instants, SignalWake
  <2>9. CASE Tick
    <3>1. rest' \in [Keys -> Nat]
      BY <2>9, DownTypes DEF Tick, TypeOK
    <3>2. age' \in [Cells -> Nat \cup {None}]
      BY <2>9 DEF Tick, TypeOK
    <3>3. timer' \in Nat \cup {None}
      BY <2>9, DownTypes DEF Tick, TypeOK
    <3> QED BY <2>9, <3>1, <3>2, <3>3 DEF Tick, TypeOK, pool
  <2>10. CASE UNCHANGED vars
    BY <2>10 DEF vars, TypeOK, pool, instants
  <2> QED BY <2>1, <2>2, <2>3, <2>4, <2>5, <2>6, <2>7, <2>8, <2>9, <2>10 DEF Next
<1> QED BY <1>1, <1>2, PTL DEF Spec

(***************************************************************************)
(* Counting: the pool and the caps are exact.                              *)
(***************************************************************************)

StartedOf(k) == {c \in Started : KeyOf[c] = k}

LEMMA StartedFinite == IsFiniteSet(Started) /\ \A k \in Keys : IsFiniteSet(StartedOf(k))
<1>1. IsFiniteSet(Cells)
  BY SchedulerAssumption, FS_Interval DEF Cells
<1>2. Started \subseteq Cells /\ \A k \in Keys : StartedOf(k) \subseteq Cells
  BY DEF Started, StartedOf
<1> QED BY <1>1, <1>2, FS_Subset

LEMMA SameCounts ==
  ASSUME CapacityExact, Started' = Started, UNCHANGED pool
  PROVE  CapacityExact'
BY DEF CapacityExact, pool

LEMMA StartCounts ==
  ASSUME TypeOK, CapacityExact, NEW e \in Queued, RoomFor(KeyOf[e]), StartCell(e)
  PROVE  CapacityExact'
<1> USE SchedulerAssumption
<1>1. e \in Cells /\ e \notin Started /\ KeyOf[e] \in Keys
  BY DEF Queued, Started
<1>2. Started' = Started \cup {e}
  BY <1>1 DEF StartCell, Started, TypeOK
<1>3. \A k \in Keys : {c \in Started' : KeyOf[c] = k} =
                        IF k = KeyOf[e] THEN StartedOf(k) \cup {e} ELSE StartedOf(k)
  BY <1>1, <1>2 DEF StartedOf
<1>4. Cardinality(Started') = Cardinality(Started) + 1 /\ Cardinality(Started) \in Nat
  BY <1>1, <1>2, StartedFinite, FS_AddElement, FS_CardinalityType
<1>5. \A k \in Keys : Cardinality({c \in Started' : KeyOf[c] = k}) =
                        IF k = KeyOf[e] THEN Cardinality(StartedOf(k)) + 1 ELSE Cardinality(StartedOf(k))
  <2> SUFFICES ASSUME NEW k \in Keys
               PROVE  Cardinality({c \in Started' : KeyOf[c] = k}) =
                        IF k = KeyOf[e] THEN Cardinality(StartedOf(k)) + 1 ELSE Cardinality(StartedOf(k))
    OBVIOUS
  <2>1. e \notin StartedOf(k) /\ IsFiniteSet(StartedOf(k))
    BY <1>1, StartedFinite DEF StartedOf
  <2>2. Cardinality(StartedOf(k) \cup {e}) = Cardinality(StartedOf(k)) + 1
    BY <2>1, FS_AddElement
  <2> QED BY <1>3, <2>2
<1>6. \A k \in Keys : inflight[k] = Cardinality(StartedOf(k)) /\ inflight[k] <= CapFor[k]
  BY DEF CapacityExact, StartedOf
<1>7. \A k \in Keys : inflight'[k] = IF k = KeyOf[e] THEN inflight[k] + 1 ELSE inflight[k]
  BY <1>1 DEF StartCell, TypeOK
<1>8. \A k \in Keys : /\ inflight'[k] = Cardinality({c \in Started' : KeyOf[c] = k})
                      /\ inflight'[k] <= CapFor[k]
  <2> SUFFICES ASSUME NEW k \in Keys
               PROVE  /\ inflight'[k] = Cardinality({c \in Started' : KeyOf[c] = k})
                      /\ inflight'[k] <= CapFor[k]
    OBVIOUS
  <2>1. CASE k = KeyOf[e]
    <3>1. inflight[k] < CapFor[k] /\ inflight[k] \in Int /\ CapFor[k] \in Nat
      BY <2>1 DEF RoomFor, TypeOK
    <3> QED BY <1>5, <1>6, <1>7, <2>1, <3>1
  <2>2. CASE k # KeyOf[e]
    BY <1>5, <1>6, <1>7, <2>2
  <2> QED BY <2>1, <2>2
<1>9. /\ freeSlots' >= 0
      /\ freeSlots' + Cardinality(Started') = Jobs
      /\ inflightCount' = Cardinality(Started')
  BY <1>4 DEF CapacityExact, StartCell, RoomFor, TypeOK
<1> QED BY <1>8, <1>9 DEF CapacityExact

LEMMA EndCounts ==
  ASSUME TypeOK, CapacityExact, NEW e \in Cells, NEW limited \in BOOLEAN, OnComplete(e, limited)
  PROVE  CapacityExact'
<1> USE SchedulerAssumption
<1>1. e \in Started /\ KeyOf[e] \in Keys
  BY DEF OnComplete
<1>2. Started' = Started \ {e}
  <2>1. CASE limited /\ Latch(KeyOf[e], e)
    BY <1>1, <2>1 DEF Latch, Started, Queued, TypeOK
  <2>2. CASE status' = [status EXCEPT ![e] = "terminal"]
    BY <1>1, <2>2 DEF Started, TypeOK
  <2> QED BY <2>1, <2>2 DEF OnComplete
<1>3. \A k \in Keys : {c \in Started' : KeyOf[c] = k} =
                        IF k = KeyOf[e] THEN StartedOf(k) \ {e} ELSE StartedOf(k)
  BY <1>1, <1>2 DEF StartedOf
<1>4. Cardinality(Started') = Cardinality(Started) - 1 /\ Cardinality(Started) \in Nat
  BY <1>1, <1>2, StartedFinite, FS_RemoveElement, FS_CardinalityType
<1>5. \A k \in Keys : Cardinality({c \in Started' : KeyOf[c] = k}) =
                        IF k = KeyOf[e] THEN Cardinality(StartedOf(k)) - 1 ELSE Cardinality(StartedOf(k))
  <2> SUFFICES ASSUME NEW k \in Keys
               PROVE  Cardinality({c \in Started' : KeyOf[c] = k}) =
                        IF k = KeyOf[e] THEN Cardinality(StartedOf(k)) - 1 ELSE Cardinality(StartedOf(k))
    OBVIOUS
  <2>1. IsFiniteSet(StartedOf(k)) /\ (k = KeyOf[e] => e \in StartedOf(k))
    BY <1>1, StartedFinite DEF StartedOf
  <2>2. k = KeyOf[e] => Cardinality(StartedOf(k) \ {e}) = Cardinality(StartedOf(k)) - 1
    BY <2>1, FS_RemoveElement
  <2> QED BY <1>3, <2>2
<1>6. \A k \in Keys : /\ inflight[k] = Cardinality(StartedOf(k)) /\ inflight[k] <= CapFor[k]
                      /\ inflight[k] \in Int /\ CapFor[k] \in Nat
  BY DEF CapacityExact, StartedOf, TypeOK
<1>7. \A k \in Keys : inflight'[k] = IF k = KeyOf[e] THEN inflight[k] - 1 ELSE inflight[k]
  BY <1>1 DEF OnComplete, TypeOK
<1>8. \A k \in Keys : /\ inflight'[k] = Cardinality({c \in Started' : KeyOf[c] = k})
                      /\ inflight'[k] <= CapFor[k]
  BY <1>5, <1>6, <1>7
<1>9. /\ freeSlots' >= 0
      /\ freeSlots' + Cardinality(Started') = Jobs
      /\ inflightCount' = Cardinality(Started')
  BY <1>4 DEF CapacityExact, OnComplete, TypeOK
<1> QED BY <1>8, <1>9 DEF CapacityExact

\* No mix of starts, ends, latches and stops exceeds the global pool or the cap
\* of a key, and no slot is ever lost.
THEOREM CapacityKept == Spec => []CapacityExact
<1>1. Init => CapacityExact
  <2> SUFFICES ASSUME Init PROVE CapacityExact
    OBVIOUS
  <2>1. Started = {} /\ \A k \in Keys : {c \in Started : KeyOf[c] = k} = {}
    BY DEF Init, Started
  <2> QED BY <2>1, FS_EmptySet, SchedulerAssumption DEF Init, CapacityExact
<1>2. TypeOK /\ CapacityExact /\ [Next]_vars => CapacityExact'
  <2> SUFFICES ASSUME TypeOK, CapacityExact, [Next]_vars PROVE CapacityExact'
    OBVIOUS
  <2>1. CASE PassBegins
    <3>1. Started' = Started
      <4>1. CASE Skip(Queued, "stopped")
        BY <4>1 DEF Skip, Queued, Started, TypeOK
      <4>2. CASE UNCHANGED status
        BY <4>2 DEF Started
      <4> QED BY <2>1, <4>1, <4>2 DEF PassBegins
    <3> QED BY <2>1, <3>1, SameCounts DEF PassBegins
  <2>2. CASE Scan
    <3>1. CASE at \in Queued /\ Eligible(at) /\ StartCell(at)
      BY <3>1, StartCounts DEF Eligible
    <3>2. CASE UNCHANGED <<status, pool, rest, age>>
      BY <3>2, SameCounts DEF Started
    <3> QED BY <2>2, <3>1, <3>2 DEF Scan
  <2>3. CASE ScanEnds \/ BatchDone \/ Park \/ Resume \/ RequestStop \/ Tick
    BY <2>3, SameCounts DEF ScanEnds, BatchDone, Park, Resume, RequestStop, Tick, Started
  <2>4. ASSUME NEW c \in Cells, NEW limited \in BOOLEAN, OnComplete(c, limited)
        PROVE  CapacityExact'
    BY <2>4, EndCounts
  <2>5. CASE UNCHANGED vars
    BY <2>5, SameCounts DEF vars, Started
  <2> QED BY <2>1, <2>2, <2>3, <2>4, <2>5 DEF Next
<1> QED BY <1>1, <1>2, TypeCorrect, PTL DEF Spec

(***************************************************************************)
(* Spacing: what is left of a key's rest makes up for the youth of its     *)
(* starts.                                                                 *)
(***************************************************************************)

Rested ==
  /\ \A c \in Cells : age[c] # None => age[c] + rest[KeyOf[c]] >= SpacingFor[KeyOf[c]]
  /\ \A k \in Keys : rest[k] <= SpacingFor[k]

LEMMA RestedInitially == Init => Rested
<1> SUFFICES ASSUME Init PROVE Rested
  OBVIOUS
<1>1. \A c \in Cells : age[c] = None
  BY DEF Init
<1>2. \A k \in Keys : rest[k] = 0 /\ SpacingFor[k] \in Nat
  BY SchedulerAssumption DEF Init
<1> QED BY <1>1, <1>2 DEF Rested

LEMMA RestedKept == TypeOK /\ Rested /\ [Next]_vars => Rested'
<1> SUFFICES ASSUME TypeOK, Rested, [Next]_vars PROVE Rested'
  OBVIOUS
<1> USE SchedulerAssumption
<1>1. CASE UNCHANGED <<rest, age>>
  BY <1>1 DEF Rested
<1>2. CASE Scan
  <2>1. CASE at \in Queued /\ Eligible(at) /\ StartCell(at)
    <3>1. at \in Cells /\ KeyOf[at] \in Keys
      BY <2>1 DEF Queued
    <3>2. \A k \in Keys : rest'[k] = IF k = KeyOf[at] THEN SpacingFor[k] ELSE rest[k]
      BY <2>1, <3>1 DEF StartCell, NextStart, TypeOK
    <3>3. \A c \in Cells : age'[c] = IF c = at THEN 0 ELSE age[c]
      BY <2>1, <3>1 DEF StartCell, TypeOK
    <3>4. ASSUME NEW c \in Cells, age'[c] # None
          PROVE  age'[c] + rest'[KeyOf[c]] >= SpacingFor[KeyOf[c]]
      <4>1. KeyOf[c] \in Keys /\ SpacingFor[KeyOf[c]] \in Nat /\ rest[KeyOf[c]] \in Nat
        BY DEF TypeOK
      <4>2. CASE c = at
        BY <3>2, <3>3, <4>1, <4>2
      <4>3. CASE c # at
        <5>1. age[c] # None /\ age[c] \in Nat /\ age'[c] = age[c]
          BY <3>3, <3>4, <4>3 DEF TypeOK
        <5>2. age[c] + rest[KeyOf[c]] >= SpacingFor[KeyOf[c]]
          BY <5>1 DEF Rested
        <5> QED BY <3>2, <4>1, <5>1, <5>2
      <4> QED BY <4>2, <4>3
    <3>5. \A k \in Keys : rest'[k] <= SpacingFor[k]
      BY <3>2 DEF Rested
    <3> QED BY <3>4, <3>5 DEF Rested
  <2> QED BY <1>1, <1>2, <2>1 DEF Scan
<1>3. CASE Tick
  <2>1. \A k \in Keys : rest'[k] = Down(rest[k]) /\ rest[k] \in Nat
    BY <1>3 DEF Tick, TypeOK
  <2>2. ASSUME NEW c \in Cells, age'[c] # None
        PROVE  age'[c] + rest'[KeyOf[c]] >= SpacingFor[KeyOf[c]]
    <3>1. KeyOf[c] \in Keys /\ SpacingFor[KeyOf[c]] \in Nat
      OBVIOUS
    <3>2. /\ age[c] # None /\ age[c] \in Nat
          /\ age'[c] = IF age[c] < SpacingFor[KeyOf[c]] THEN age[c] + 1 ELSE age[c]
      BY <1>3, <2>2 DEF Tick, TypeOK
    <3>3. age[c] + rest[KeyOf[c]] >= SpacingFor[KeyOf[c]]
      BY <3>2 DEF Rested
    <3> QED BY <2>1, <3>1, <3>2, <3>3 DEF Down
  <2>3. \A k \in Keys : rest'[k] <= SpacingFor[k]
    BY <2>1 DEF Rested, Down
  <2> QED BY <2>2, <2>3 DEF Rested
<1> QED
  BY <1>1, <1>2, <1>3
  DEF Next, PassBegins, ScanEnds, BatchDone, Park, Resume, OnComplete, RequestStop, vars, instants

\* Two starts of one key are its spacing apart, whatever comes between them.
THEOREM StartsAreSpaced == Spec => SpacedStarts
<1>1. TypeOK /\ Rested /\ [Next]_vars =>
        [\A c \in Cells : status[c] = "queued" /\ status'[c] = "started" =>
           \A d \in Cells : KeyOf[d] = KeyOf[c] /\ age[d] # None
                              => age[d] >= SpacingFor[KeyOf[c]]]_vars
  <2> SUFFICES ASSUME TypeOK, Rested, [Next]_vars,
                      NEW c \in Cells, status[c] = "queued", status'[c] = "started",
                      NEW d \in Cells, KeyOf[d] = KeyOf[c], age[d] # None
               PROVE  age[d] >= SpacingFor[KeyOf[c]]
    OBVIOUS
  <2>1. c = at /\ Eligible(at)
    <3>1. CASE Scan
      <4>1. CASE at \in Queued /\ Eligible(at) /\ StartCell(at)
        BY <4>1 DEF StartCell, TypeOK
      <4>2. CASE UNCHANGED status
        BY <4>2
      <4> QED BY <3>1, <4>1, <4>2 DEF Scan
    <3>2. CASE PassBegins
      BY <3>2 DEF PassBegins, Skip
    <3>3. ASSUME NEW e \in Cells, NEW limited \in BOOLEAN, OnComplete(e, limited)
          PROVE  FALSE
      BY <3>3 DEF OnComplete, Latch, TypeOK
    <3>4. CASE UNCHANGED status
      BY <3>4
    <3> QED BY <3>1, <3>2, <3>3, <3>4
            DEF Next, ScanEnds, BatchDone, Park, Resume, RequestStop, Tick, vars
  <2>2. rest[KeyOf[d]] = 0
    BY <2>1 DEF Eligible
  <2> QED BY <2>2, SchedulerAssumption DEF Rested, TypeOK
<1> QED BY <1>1, RestedInitially, RestedKept, TypeCorrect, PTL DEF Spec, SpacedStarts

(***************************************************************************)
(* The queue: eager skips, no wasted slot, a quiet end.                    *)
(***************************************************************************)

\* A stop is seen before the scan, and empties the queue before the loop settles.
StopSeen ==
  /\ pc = "scan" => ~stopRequested
  /\ pc \in {"settle", "done"} /\ stopRequested => Queued = {}

\* What the scan passed over, and what it leaves, has no room or is spaced.
PassedOver ==
  \A c \in Queued :
    \/ ~RoomFor(KeyOf[c])
    \/ SpacingFor[KeyOf[c]] > 0
    \/ pc = "scan" /\ c >= at
    \/ pc \in {"pass", "parked"}

QueueInv == EagerSkips /\ StopSeen

LEMMA QueueInitially == Init => QueueInv /\ PassedOver /\ NoWastedSlot
  BY DEF Init, QueueInv, EagerSkips, StopSeen, PassedOver, NoWastedSlot

LEMMA QueueInvKept == TypeOK /\ QueueInv /\ [Next]_vars => QueueInv'
<1> SUFFICES ASSUME TypeOK, QueueInv, [Next]_vars PROVE QueueInv'
  OBVIOUS
<1> USE SchedulerAssumption DEF QueueInv, EagerSkips, StopSeen
<1>1. CASE PassBegins
  <2>1. CASE stopRequested /\ Skip(Queued, "stopped") /\ pc' = "settle"
    <3>1. Queued' = {}
      BY <2>1 DEF Skip, Queued, TypeOK
    <3> QED BY <1>1, <2>1, <3>1 DEF PassBegins
  <2>2. CASE ~stopRequested /\ pc' = "scan" /\ UNCHANGED status
    BY <1>1, <2>2 DEF PassBegins, Queued
  <2> QED BY <1>1, <2>1, <2>2 DEF PassBegins
<1>2. CASE Scan
  <2>1. Queued' \subseteq Queued
    BY <1>2 DEF Scan, StartCell, Queued, TypeOK
  <2> QED BY <1>2, <2>1 DEF Scan
<1>3. CASE ScanEnds \/ BatchDone \/ Park \/ Resume \/ Tick
  <2>1. Queued' = Queued
    BY <1>3 DEF ScanEnds, BatchDone, Park, Resume, Tick, Queued
  <2> QED BY <1>3, <2>1 DEF ScanEnds, BatchDone, Park, Resume, Tick
<1>4. CASE RequestStop
  <2>1. Queued' = Queued
    BY <1>4 DEF RequestStop, Queued
  <2> QED BY <1>4, <2>1 DEF RequestStop, SignalWake
<1>5. ASSUME NEW e \in Cells, NEW limited \in BOOLEAN, OnComplete(e, limited)
      PROVE  QueueInv'
  <2>1. pc' = "parked" /\ armed' = FALSE
    BY <1>5 DEF OnComplete, SignalWake
  <2>2. \A c \in Queued' : c \in Queued /\ KeyOf[c] \notin latched'
    <3>1. CASE Latch(KeyOf[e], e)
      BY <1>5, <3>1 DEF OnComplete, Latch, Queued, TypeOK
    <3>2. CASE status' = [status EXCEPT ![e] = "terminal"] /\ UNCHANGED latched
      BY <3>2 DEF Queued, TypeOK
    <3> QED BY <1>5, <3>1, <3>2 DEF OnComplete
  <2> QED BY <2>1, <2>2
<1>6. CASE UNCHANGED vars
  <2>1. Queued' = Queued
    BY <1>6 DEF vars, Queued
  <2> QED BY <1>6, <2>1 DEF vars
<1> QED BY <1>1, <1>2, <1>3, <1>4, <1>5, <1>6 DEF Next

\* A latch leaves nothing of its key in the queue, and a stop nothing at all
\* before the dispatcher sleeps again.
THEOREM SkipsAreEager == Spec => []EagerSkips
  BY QueueInitially, QueueInvKept, TypeCorrect, PTL DEF Spec, QueueInv

LEMMA PassedOverKept ==
  TypeOK /\ QueueInv /\ Rested /\ PassedOver /\ [Next]_vars => PassedOver'
<1> SUFFICES ASSUME TypeOK, QueueInv, Rested, PassedOver, [Next]_vars PROVE PassedOver'
  OBVIOUS
<1> USE SchedulerAssumption
<1>1. CASE PassBegins
  <2>1. CASE Skip(Queued, "stopped")
    <3>1. Queued' = {}
      BY <2>1 DEF Skip, Queued, TypeOK
    <3> QED BY <3>1 DEF PassedOver
  <2>2. CASE pc' = "scan" /\ at' = 1
    <3>1. \A c \in Queued' : c >= at'
      BY <2>2 DEF Queued, Cells
    <3> QED BY <2>2, <3>1 DEF PassedOver
  <2> QED BY <1>1, <2>1, <2>2 DEF PassBegins
<1>2. CASE Scan
  <2>1. pc = "scan" /\ pc' = "scan" /\ at' = at + 1 /\ at \in Cells /\ ~stopRequested
    BY <1>2 DEF Scan, QueueInv, StopSeen
  <2>2. CASE at \in Queued /\ Eligible(at) /\ StartCell(at)
    <3>1. KeyOf[at] \in Keys /\ at \notin Queued' /\ Queued' \subseteq Queued
      BY <2>2 DEF StartCell, Queued, TypeOK
    <3>2. \A k \in Keys : ~RoomFor(k) => ~RoomFor(k)'
      BY <2>2, <3>1 DEF StartCell, RoomFor, TypeOK
    <3>3. \A c \in Queued' : c \in Cells /\ c # at /\ KeyOf[c] \in Keys
      BY <3>1 DEF Queued
    <3>4. ASSUME NEW c \in Queued'
          PROVE  ~RoomFor(KeyOf[c])' \/ SpacingFor[KeyOf[c]] > 0 \/ c >= at'
      <4>1. ~RoomFor(KeyOf[c]) \/ SpacingFor[KeyOf[c]] > 0 \/ c >= at
        BY <2>1, <3>1 DEF PassedOver
      <4> QED BY <2>1, <3>2, <3>3, <4>1 DEF Cells
    <3> QED BY <2>1, <3>4 DEF PassedOver
  <2>3. CASE ~(at \in Queued /\ Eligible(at)) /\ UNCHANGED <<status, pool, rest, age>>
    <3>1. Queued' = Queued /\ UNCHANGED <<freeSlots, inflight>>
      BY <2>3 DEF Queued, pool
    <3>2. ASSUME NEW c \in Queued
          PROVE  ~RoomFor(KeyOf[c]) \/ SpacingFor[KeyOf[c]] > 0 \/ c >= at'
      <4>1. c \in Cells /\ KeyOf[c] \in Keys
        BY DEF Queued
      <4>2. CASE c = at
        <5>1. ~RoomFor(KeyOf[c]) \/ rest[KeyOf[c]] # 0
          BY <2>1, <2>3, <4>2 DEF Eligible, QueueInv, EagerSkips
        <5> QED BY <4>1, <5>1 DEF Rested, TypeOK
      <4>3. CASE c # at
        <5>1. ~RoomFor(KeyOf[c]) \/ SpacingFor[KeyOf[c]] > 0 \/ c >= at
          BY <2>1 DEF PassedOver
        <5> QED BY <2>1, <4>1, <4>3, <5>1 DEF Cells
      <4> QED BY <4>2, <4>3
    <3> QED BY <2>1, <3>1, <3>2 DEF PassedOver, RoomFor
  <2> QED BY <1>2, <2>2, <2>3 DEF Scan
<1>3. CASE ScanEnds
  <2>1. Queued' = Queued /\ UNCHANGED <<freeSlots, inflight>>
    BY <1>3 DEF ScanEnds, Queued, pool
  <2>2. \A c \in Queued : ~RoomFor(KeyOf[c]) \/ SpacingFor[KeyOf[c]] > 0
    <3>1. CASE freeSlots <= 0
      BY <3>1 DEF RoomFor, TypeOK
    <3>2. CASE at \notin Cells
      <4>1. \A c \in Queued : ~(c >= at)
        BY <3>2 DEF TypeOK, Cells, Queued
      <4> QED BY <1>3, <4>1 DEF ScanEnds, PassedOver
    <3> QED BY <1>3, <3>1, <3>2 DEF ScanEnds
  <2> QED BY <2>1, <2>2 DEF PassedOver, RoomFor
<1>4. CASE BatchDone
  BY <1>4 DEF BatchDone, PassedOver, Queued, RoomFor, pool
<1>5. CASE Park \/ Resume
  BY <1>5 DEF Park, Resume, PassedOver
<1>6. CASE \/ RequestStop
           \/ \E e \in Cells, limited \in BOOLEAN : OnComplete(e, limited)
  BY <1>6 DEF RequestStop, OnComplete, PassedOver
<1>7. CASE Tick
  BY <1>7 DEF Tick, PassedOver, Queued, RoomFor, pool
<1>8. CASE UNCHANGED vars
  BY <1>8 DEF vars, PassedOver, Queued, RoomFor, pool
<1> QED BY <1>1, <1>2, <1>3, <1>4, <1>5, <1>6, <1>7, <1>8 DEF Next

LEMMA NoWastedSlotKept ==
  TypeOK /\ QueueInv /\ PassedOver /\ NoWastedSlot /\ [Next]_vars => NoWastedSlot'
<1> SUFFICES ASSUME TypeOK, QueueInv, PassedOver, NoWastedSlot, [Next]_vars PROVE NoWastedSlot'
  OBVIOUS
<1> USE SchedulerAssumption
<1>1. CASE Park
  <2>1. pc = "settle" /\ Queued' = Queued /\ UNCHANGED <<freeSlots, inflight, rest>>
    BY <1>1 DEF Park, Queued, pool
  <2> SUFFICES ASSUME NEW c \in Queued, RoomFor(KeyOf[c]), rest[KeyOf[c]] # 0
               PROVE  timer' # None /\ timer' <= rest[KeyOf[c]]
    <3>1. \A c \in Queued : ~RoomFor(KeyOf[c]) \/ SpacingFor[KeyOf[c]] > 0
      BY <2>1 DEF PassedOver
    <3> QED BY <2>1, <3>1 DEF NoWastedSlot, RoomFor
  <2>2. KeyOf[c] \in Keys /\ rest[KeyOf[c]] \in Nat /\ rest[KeyOf[c]] > 0
    BY DEF Queued, TypeOK
  <2>3. KeyOf[c] \notin latched /\ ~stopRequested
    BY <2>1 DEF QueueInv, EagerSkips, StopSeen
  <2>4. rest[KeyOf[c]] \in SpacingWaits
    BY <2>2, <2>3 DEF SpacingWaits
  <2>5. SpacingWaits \subseteq Nat
    BY DEF SpacingWaits, TypeOK
  <2>6. PICK t \in SpacingWaits : (\A u \in SpacingWaits : t <= u) /\ timer' = t
    BY <1>1, <2>4 DEF Park
  <2>7. t \in Nat /\ t <= rest[KeyOf[c]]
    BY <2>4, <2>5, <2>6
  <2> QED BY <2>6, <2>7
<1>2. CASE Tick
  <2>1. /\ Queued' = Queued /\ UNCHANGED <<pc, armed, freeSlots, inflight>>
        /\ \A k \in Keys : rest'[k] = Down(rest[k])
        /\ timer' = IF timer = None THEN None ELSE Down(timer)
    BY <1>2 DEF Tick, Queued, pool
  <2> SUFFICES ASSUME pc = "parked", armed, NEW c \in Queued, RoomFor(KeyOf[c])
               PROVE  \/ SpacingFor[KeyOf[c]] > 0 /\ rest'[KeyOf[c]] = 0
                      \/ timer' # None /\ timer' <= rest'[KeyOf[c]]
    BY <2>1 DEF NoWastedSlot, RoomFor
  <2>2. KeyOf[c] \in Keys /\ rest[KeyOf[c]] \in Nat
    BY DEF Queued, TypeOK
  <2>3. CASE SpacingFor[KeyOf[c]] > 0 /\ rest[KeyOf[c]] = 0
    BY <2>1, <2>2, <2>3 DEF Down
  <2>4. CASE timer # None /\ timer <= rest[KeyOf[c]]
    <3>1. timer \in Nat
      BY <2>4 DEF TypeOK
    <3>2. timer' = Down(timer) /\ rest'[KeyOf[c]] = Down(rest[KeyOf[c]])
      BY <2>1, <2>2, <2>4
    <3>3. Down(timer) \in Nat /\ Down(timer) <= Down(rest[KeyOf[c]])
      BY <2>2, <2>4, <3>1 DEF Down
    <3> QED BY <3>2, <3>3
  <2> QED BY <2>3, <2>4 DEF NoWastedSlot
<1>3. CASE PassBegins \/ Scan \/ ScanEnds \/ BatchDone \/ Resume
  BY <1>3 DEF PassBegins, Scan, ScanEnds, BatchDone, Resume, NoWastedSlot
<1>4. CASE \/ RequestStop
           \/ \E e \in Cells, limited \in BOOLEAN : OnComplete(e, limited)
  BY <1>4 DEF RequestStop, OnComplete, SignalWake, NoWastedSlot
<1>5. CASE UNCHANGED vars
  BY <1>5 DEF vars, pool, instants, NoWastedSlot, Queued, RoomFor
<1> QED BY <1>1, <1>2, <1>3, <1>4, <1>5 DEF Next

\* A sleeping dispatcher leaves in the queue only what a full pool, a full cap
\* or a spacing keeps there, and wakes no later than a spacing that still runs.
THEOREM SlotsAreUsed == Spec => []NoWastedSlot
  BY QueueInitially, QueueInvKept, RestedInitially, RestedKept, PassedOverKept,
     NoWastedSlotKept, TypeCorrect, PTL DEF Spec

LEMMA DoneIsQuietKept ==
  TypeOK /\ CapacityExact /\ QueueInv /\ DoneIsQuiet /\ [Next]_vars => DoneIsQuiet'
<1> SUFFICES ASSUME TypeOK, CapacityExact, QueueInv, DoneIsQuiet, [Next]_vars PROVE DoneIsQuiet'
  OBVIOUS
<1> USE SchedulerAssumption
<1>1. CASE BatchDone
  <2>1. /\ pc = "settle" /\ Started' = Started /\ Queued' = Queued
        /\ UNCHANGED <<stopRequested, latched, rest>>
    BY <1>1 DEF BatchDone, Started, Queued, instants
  <2>2. CASE AllTerminal
    <3>1. Started = {} /\ Queued = {}
      BY <2>2 DEF AllTerminal, Started, Queued
    <3> QED BY <2>1, <3>1 DEF DoneIsQuiet
  <2>3. CASE inflightCount = 0 /\ SpacingWaits = {}
    <3>1. Started = {}
      BY <2>3, StartedFinite, FS_EmptySet DEF CapacityExact
    <3>2. \A k \in Keys : RoomFor(k)
      <4> SUFFICES ASSUME NEW k \in Keys PROVE RoomFor(k)
        OBVIOUS
      <4>1. {c \in Started : KeyOf[c] = k} = {}
        BY <3>1
      <4>2. inflight[k] = 0 /\ freeSlots = Jobs
        BY <3>1, <4>1, FS_EmptySet DEF CapacityExact, TypeOK
      <4> QED BY <4>2 DEF RoomFor
    <3>3. ASSUME NEW c \in Queued
          PROVE  ~stopRequested /\ KeyOf[c] \notin latched /\ rest[KeyOf[c]] = 0
      <4>1. ~stopRequested /\ KeyOf[c] \notin latched
        BY <2>1 DEF QueueInv, EagerSkips, StopSeen
      <4>2. KeyOf[c] \in Keys /\ rest[KeyOf[c]] \in Nat
        BY DEF Queued, TypeOK
      <4>3. ~(rest[KeyOf[c]] > 0)
        BY <2>3, <3>2, <4>1, <4>2 DEF SpacingWaits
      <4> QED BY <4>1, <4>2, <4>3
    <3> QED BY <2>1, <3>1, <3>3 DEF DoneIsQuiet
  <2> QED BY <1>1, <2>2, <2>3 DEF BatchDone, NothingToAwait
<1>2. CASE PassBegins \/ Scan \/ ScanEnds \/ Park \/ Resume
  BY <1>2 DEF PassBegins, Scan, ScanEnds, Park, Resume, DoneIsQuiet
<1>3. CASE \/ RequestStop \/ Tick
           \/ \E e \in Cells, limited \in BOOLEAN : OnComplete(e, limited)
  BY <1>3 DEF RequestStop, Tick, OnComplete, DoneIsQuiet
<1>4. CASE UNCHANGED vars
  BY <1>4 DEF vars, instants, DoneIsQuiet, Started, Queued
<1> QED BY <1>1, <1>2, <1>3, <1>4 DEF Next

\* When batch_done is emitted no child runs, and a cell that was left in the
\* queue is behind nothing: only the two readings of the clock can leave one.
THEOREM EndIsQuiet == Spec => []DoneIsQuiet
<1>1. Init => DoneIsQuiet
  BY DEF Init, DoneIsQuiet
<1> QED BY <1>1, DoneIsQuietKept, QueueInitially, QueueInvKept, CapacityKept, TypeCorrect, PTL
        DEF Spec

(***************************************************************************)
(* Terminal events.                                                        *)
(***************************************************************************)

\* A cell has an age once it was started, and then it ends with its own report.
Aged ==
  \A c \in Cells :
    /\ status[c] = "queued" => age[c] = None
    /\ status[c] = "started" => age[c] # None

AnswerInv == Aged /\ AnsweredOnce

\* A cell that a step leaves alone stays answered while causes only come.
Untouched(c) == status'[c] = status[c] /\ told'[c] = told[c] /\ age'[c] = age[c]
CausesKept == latched \subseteq latched' /\ (stopRequested => stopRequested')

\* How a cell may become what it was not.
Begun(c) == status'[c] = "started" /\ told'[c] = told[c] /\ age'[c] # None /\ status[c] # "terminal"
Answered(c, event) ==
  /\ status'[c] = "terminal" /\ Len(told'[c]) = 1 /\ told'[c][1] = event
  /\ event = "finished" <=> age'[c] # None
  /\ event = "rate-limited" => KeyOf[c] \in latched'
  /\ event = "stopped" => stopRequested'

LEMMA CellSteps ==
  ASSUME AnswerInv, CausesKept,
         \A c \in Cells : Untouched(c) \/ Begun(c) \/ \E event \in Events : Answered(c, event)
  PROVE  AnswerInv'
<1>1. Aged'
  <2> SUFFICES ASSUME NEW c \in Cells
               PROVE  /\ status'[c] = "queued" => age'[c] = None
                      /\ status'[c] = "started" => age'[c] # None
    BY DEF Aged
  <2>1. CASE Untouched(c)
    BY <2>1 DEF Untouched, AnswerInv, Aged
  <2>2. CASE Begun(c)
    BY <2>2 DEF Begun
  <2>3. CASE \E event \in Events : Answered(c, event)
    BY <2>3 DEF Answered
  <2> QED BY <2>1, <2>2, <2>3
<1>2. ASSUME NEW c \in Cells
      PROVE  /\ Len(told'[c]) = (IF status'[c] = "terminal" THEN 1 ELSE 0)
             /\ status'[c] = "terminal" =>
                 /\ told'[c][1] = "finished" <=> age'[c] # None
                 /\ told'[c][1] = "rate-limited" => KeyOf[c] \in latched'
                 /\ told'[c][1] = "stopped" => stopRequested'
  <2>1. CASE Untouched(c)
    BY <2>1 DEF Untouched, CausesKept, AnswerInv, AnsweredOnce
  <2>2. CASE Begun(c)
    BY <2>2 DEF Begun, AnswerInv, AnsweredOnce
  <2>3. CASE \E event \in Events : Answered(c, event)
    BY <2>3 DEF Answered
  <2> QED BY <1>2, <2>1, <2>2, <2>3
<1> QED BY <1>1, <1>2 DEF AnswerInv, AnsweredOnce

\* Whatever ends a cell appends one event to none.
LEMMA OneEvent ==
  ASSUME TypeOK, AnsweredOnce, NEW c \in Cells, status[c] # "terminal", NEW e \in Events
  PROVE  Len(Append(told[c], e)) = 1 /\ Append(told[c], e)[1] = e
<1>1. told[c] \in Seq(Events) /\ Len(told[c]) = 0
  BY DEF TypeOK, Events, AnsweredOnce
<1> QED BY <1>1

LEMMA AnswerInvKept == TypeOK /\ AnswerInv /\ [Next]_vars => AnswerInv'
<1> SUFFICES ASSUME TypeOK, AnswerInv, [Next]_vars PROVE AnswerInv'
  OBVIOUS
<1> USE SchedulerAssumption
<1>a. AnsweredOnce /\ Aged
  BY DEF AnswerInv
<1>1. CASE PassBegins
  <2>1. CausesKept /\ age' = age
    BY <1>1 DEF PassBegins, instants, CausesKept
  <2>2. CASE stopRequested /\ Skip(Queued, "stopped")
    <3>1. ASSUME NEW c \in Queued PROVE Answered(c, "stopped")
      <4>1. c \in Cells /\ status[c] = "queued" /\ age[c] = None
        BY <1>a DEF Queued, Aged
      <4>2. status'[c] = "terminal" /\ told'[c] = Append(told[c], "stopped")
        BY <2>2, <4>1 DEF Skip
      <4>3. Len(told'[c]) = 1 /\ told'[c][1] = "stopped"
        BY <1>a, <4>1, <4>2, OneEvent DEF Events
      <4>4. stopRequested'
        BY <2>1, <2>2 DEF CausesKept
      <4> QED BY <2>1, <4>1, <4>2, <4>3, <4>4 DEF Answered
    <3>2. \A c \in Cells \ Queued : Untouched(c)
      BY <2>1, <2>2 DEF Skip, Untouched
    <3> QED BY <2>1, <3>1, <3>2, CellSteps DEF Events
  <2>3. CASE UNCHANGED <<status, told>>
    BY <2>1, <2>3, CellSteps DEF Untouched
  <2> QED BY <1>1, <2>2, <2>3 DEF PassBegins
<1>2. CASE Scan
  <2>1. CausesKept /\ told' = told
    BY <1>2 DEF Scan, CausesKept
  <2>2. CASE at \in Queued /\ Eligible(at) /\ StartCell(at)
    <3>1. at \in Cells /\ status[at] = "queued" /\ status'[at] = "started" /\ age'[at] = 0
      BY <2>2 DEF StartCell, Queued, TypeOK
    <3>2. Begun(at)
      BY <2>1, <3>1 DEF Begun
    <3>3. \A c \in Cells \ {at} : Untouched(c)
      BY <2>1, <2>2 DEF StartCell, Untouched, TypeOK
    <3> QED BY <2>1, <3>2, <3>3, CellSteps
  <2>3. CASE UNCHANGED <<status, age>>
    BY <2>1, <2>3, CellSteps DEF Untouched
  <2> QED BY <1>2, <2>2, <2>3 DEF Scan
<1>3. ASSUME NEW e \in Cells, NEW limited \in BOOLEAN, OnComplete(e, limited)
      PROVE  AnswerInv'
  <2>1. /\ status[e] = "started" /\ age[e] # None /\ age' = age
        /\ UNCHANGED stopRequested /\ KeyOf[e] \in Keys
    BY <1>3, <1>a DEF OnComplete, Started, instants, Aged
  <2>2. ASSUME status'[e] = "terminal", told'[e] = Append(told[e], "finished")
        PROVE  Answered(e, "finished")
    <3>1. Len(told'[e]) = 1 /\ told'[e][1] = "finished"
      BY <1>a, <2>1, <2>2, OneEvent DEF Events
    <3> QED BY <2>1, <2>2, <3>1 DEF Answered
  <2>3. CASE Latch(KeyOf[e], e)
    <3> DEFINE Swept == {c \in Queued : KeyOf[c] = KeyOf[e]}
    <3>1. CausesKept
      BY <2>1, <2>3 DEF Latch, CausesKept
    <3>2. Answered(e, "finished")
      <4>1. status'[e] = "terminal" /\ told'[e] = Append(told[e], "finished")
        <5>1. e \notin Queued
          BY <2>1 DEF Queued
        <5>2. status'[e] = "terminal"
          BY <2>3 DEF Latch
        <5>3. told'[e] = Append(told[e], "finished")
          BY <2>3, <5>1 DEF Latch
        <5> QED BY <5>2, <5>3
      <4> QED BY <2>2, <4>1
    <3>3. ASSUME NEW c \in Swept PROVE Answered(c, "rate-limited")
      <4>1. c \in Cells /\ c # e /\ status[c] = "queued" /\ age[c] = None /\ KeyOf[c] = KeyOf[e]
        BY <1>a, <2>1 DEF Queued, Aged
      <4>2. status'[c] = "terminal" /\ told'[c] = Append(told[c], "rate-limited") /\ KeyOf[c] \in latched'
        BY <2>3, <4>1 DEF Latch
      <4>3. Len(told'[c]) = 1 /\ told'[c][1] = "rate-limited"
        BY <1>a, <4>1, <4>2, OneEvent DEF Events
      <4> QED BY <2>1, <4>1, <4>2, <4>3 DEF Answered
    <3>4. ASSUME NEW c \in Cells, c # e, c \notin Swept PROVE Untouched(c)
      <4>1. ~(c \in Queued /\ KeyOf[c] = KeyOf[e])
        BY <3>4
      <4> QED BY <2>1, <2>3, <3>4, <4>1 DEF Latch, Untouched
    <3> QED BY <3>1, <3>2, <3>3, <3>4, CellSteps DEF Events
  <2>4. CASE /\ status' = [status EXCEPT ![e] = "terminal"]
             /\ told' = [told EXCEPT ![e] = Append(@, "finished")]
             /\ UNCHANGED latched
    <3>1. CausesKept
      BY <2>1, <2>4 DEF CausesKept
    <3>2. Answered(e, "finished")
      BY <2>2, <2>4 DEF TypeOK
    <3>3. \A c \in Cells \ {e} : Untouched(c)
      BY <2>1, <2>4 DEF Untouched, TypeOK
    <3> QED BY <3>1, <3>2, <3>3, CellSteps DEF Events
  <2> QED BY <1>3, <2>3, <2>4 DEF OnComplete
<1>4. CASE Tick
  <2>1. /\ UNCHANGED <<status, told, latched, stopRequested>>
        /\ \A c \in Cells : age'[c] = None <=> age[c] = None
    BY <1>4 DEF Tick, TypeOK
  <2>2. Aged'
    BY <1>a, <2>1 DEF Aged
  <2>3. AnsweredOnce'
    BY <1>a, <2>1 DEF AnsweredOnce
  <2> QED BY <2>2, <2>3 DEF AnswerInv
<1>5. CASE ScanEnds \/ BatchDone \/ Park \/ Resume \/ RequestStop \/ UNCHANGED vars
  <2>1. CausesKept /\ \A c \in Cells : Untouched(c)
    BY <1>5 DEF ScanEnds, BatchDone, Park, Resume, RequestStop, vars, instants, CausesKept, Untouched
  <2> QED BY <2>1, CellSteps
<1> QED BY <1>1, <1>2, <1>3, <1>4, <1>5 DEF Next

\* Every cell that is terminal was reported once, a cell that ran by its own
\* end and one that did not by a skip that has its cause.
THEOREM EachAnsweredOnce == Spec => []AnsweredOnce
<1>1. Init => AnswerInv
  <2> SUFFICES ASSUME Init PROVE AnswerInv
    OBVIOUS
  <2>1. \A c \in Cells : status[c] = "queued" /\ told[c] = <<>> /\ age[c] = None
    BY DEF Init
  <2> QED BY <2>1 DEF AnswerInv, Aged, AnsweredOnce
<1> QED BY <1>1, AnswerInvKept, TypeCorrect, PTL DEF Spec, AnswerInv

\* Slots and answers are accounted for: the counters of the dispatch loop are the
\* cells that run, and each cell is answered once.
THEOREM CountsRight == Spec => []CountsAreRight
  BY CapacityKept, EachAnsweredOnce, PTL DEF CountsAreRight

\* A dispatcher that waits, or leaves, has nothing that it could start or skip.
THEOREM WaitsRight == Spec => []WaitsAreRight
  BY SkipsAreEager, SlotsAreUsed, EndIsQuiet, PTL DEF WaitsAreRight

----
(* The batch over the dispatcher. *)

\* A step of the batch is a step of the dispatcher or leaves it alone.
LEMMA BatchSchedules ==
  ASSUME [BatchNext]_batchVars
  PROVE  [Next]_vars
<1>1. CASE UNCHANGED batchVars
  BY <1>1 DEF batchVars
<1>2. CASE Acquire \/ Validate \/ WriteHeader \/ RecordSkips \/ Release \/ Killed \/ HardExit
  BY <1>2 DEF Acquire, Validate, WriteHeader, RecordSkips, Release, Killed, HardExit
<1>3. CASE Pass \/ Dispatches \/ Turns \/ Elapses \/ FirstSignal
  BY <1>3 DEF Pass, Dispatches, Turns, Elapses, FirstSignal, Next
<1>4. CASE Listen \/ Footer
  BY <1>4 DEF Listen, Footer
<1>5. ASSUME NEW c \in Cells, Completes(c) PROVE Next
  <2>1. (result[c] = "limited") \in BOOLEAN
    OBVIOUS
  <2>2. OnComplete(c, result[c] = "limited")
    BY <1>5 DEF Completes
  <2>3. PICK limited \in BOOLEAN : OnComplete(c, limited)
    BY <2>1, <2>2
  <2> QED
    BY <2>3 DEF Next
<1>6. ASSUME NEW c \in Cells, Boots(c) \/ Exits(c) PROVE UNCHANGED vars
  BY <1>6 DEF Boots, Exits
<1> QED
  BY <1>1, <1>2, <1>3, <1>4, <1>5, <1>6 DEF BatchNext, Drive

\* A batch implements the scheduler: whatever the lease, the batch directory, the
\* children and the stop signals do, what the dispatcher does is a behaviour of
\* Scheduler, so every theorem about the dispatcher holds of a batch (runBatch of
\* run-all/index.ts over scheduler/index.ts).
THEOREM BatchImplementsScheduler == BatchSpec => Spec
<1>1. BatchInit => Init
  BY DEF BatchInit
<1> QED
  BY <1>1, BatchSchedules, PTL DEF BatchSpec, Spec

----
(* The inductive invariant. *)

\* Before the drive nothing is queued for a child, recorded or stopped.
Early == {"lock", "validate", "index", "skips"}
ChildStates == {"none", "boot", "runs", "stopping", "exited"}
Ends == {None, "judged", "limited", "stopped", "dead"}

\* A cell has a child from its start on, and the child has ended when the cell
\* has; the registry knows every child that lives, and a stop reached them all.
ChildInv(c) ==
  /\ status[c] = "queued" => child[c] = "none"
  /\ status[c] = "started" => child[c] # "none"
  /\ status[c] = "terminal" => child[c] \in {"none", "exited"}
  /\ child[c] # "exited" => result[c] = None
  /\ c \in pids => status[c] = "started"
  /\ child[c] \in {"boot", "runs", "stopping"} => c \in pids
  /\ stopping => child[c] \notin {"boot", "runs"}
  /\ phase \in Early => status[c] = "queued"

\* The one record of a cell that came to an end.
Tells(c, r) ==
  /\ r.run_id <=> result[c] \in {"judged", "limited"}
  /\ r.counted \in {"rate-limited", "stopped"} <=> child[c] = "none"

Recording == phase = "drive" \/ header = "closed"

RecordInv(c) ==
  /\ phase \in Early => records[c] = <<>>
  /\ Recording /\ status[c] = "terminal" => records[c] = <<records[c][1]>> /\ Tells(c, records[c][1])
  /\ Recording /\ status[c] # "terminal" => records[c] = <<>>

SkipInv(e) ==
  /\ phase \in Early => records[e] = <<>>
  /\ Recording => records[e] = <<NoRun("skipped")>>

BatchTypes ==
  /\ child \in [Cells -> ChildStates] /\ result \in [Cells -> Ends] /\ pids \subseteq Cells
  /\ DOMAIN records = Entries /\ records = [e \in Entries |-> records[e]]

PhaseInv ==
  /\ stopping <=> stopRequested
  /\ phase \in Early => ~stopping
  /\ phase \in {"skips", "drive"} => header = "open"
  /\ phase \in {"lock", "validate", "index"} => header = None
  /\ header = "closed" => phase \in {"release", "over", "dead"} /\ Live = {} /\ Started = {}
  /\ phase \in {"release", "over"} /\ Live # {} => stopping /\ header = "open"
  /\ lease = "free" => phase \in {"lock", "over"} \/ (phase = "dead" /\ Live = {})

BatchInv ==
  /\ BatchTypes
  /\ PhaseInv
  /\ \A c \in Cells : ChildInv(c) /\ RecordInv(c)
  /\ \A e \in Skipped : SkipInv(e)

LEMMA BatchInvInit == BatchInit => BatchInv
<1> SUFFICES ASSUME BatchInit PROVE BatchInv
  OBVIOUS
<1> USE RunAllAssumption
<1>1. BatchTypes
  BY DEF BatchInit, BatchTypes, ChildStates, Ends
<1>2. Live = {} /\ Started = {}
  BY DEF BatchInit, Init, Live, Started
<1>3. PhaseInv
  BY <1>2 DEF BatchInit, Init, PhaseInv, Early
<1>4. ASSUME NEW c \in Cells PROVE ChildInv(c) /\ RecordInv(c)
  BY DEF BatchInit, Init, ChildInv, RecordInv, Recording, Entries
<1>5. ASSUME NEW e \in Skipped PROVE SkipInv(e)
  BY DEF BatchInit, SkipInv, Recording, Entries
<1> QED
  BY <1>1, <1>3, <1>4, <1>5 DEF BatchInv

LEMMA BatchInvSound == BatchInv => BatchIsKept
<1> SUFFICES ASSUME BatchInv PROVE BatchIsKept
  OBVIOUS
<1>1. BatchIsAccounted
  <2> SUFFICES ASSUME header = "closed" PROVE BatchIsAccounted
    BY DEF BatchIsAccounted
  <2>1. Live = {} /\ Started = {} /\ Recording
    BY DEF BatchInv, PhaseInv, Recording
  <2>2. pids = {}
    BY <2>1 DEF BatchInv, BatchTypes, ChildInv, Started
  <2>3. \A e \in Skipped : records[e] = <<NoRun("skipped")>>
    BY <2>1 DEF BatchInv, SkipInv
  <2>4. ASSUME NEW c \in Cells
        PROVE  /\ Len(records[c]) = (IF status[c] = "terminal" THEN 1 ELSE 0)
               /\ \A i \in 1 .. Len(records[c]) :
                    /\ records[c][i].run_id <=> result[c] \in {"judged", "limited"}
                    /\ records[c][i].counted \in {"rate-limited", "stopped"} <=> child[c] = "none"
    <3>1. CASE status[c] = "terminal"
      <4>1. PICK r : records[c] = <<r>> /\ Tells(c, r)
        BY <2>1, <3>1 DEF BatchInv, RecordInv
      <4> QED
        BY <3>1, <4>1 DEF Tells
    <3>2. CASE status[c] # "terminal"
      BY <2>1, <3>2 DEF BatchInv, RecordInv
    <3> QED
      BY <3>1, <3>2
  <2> QED
    BY <2>1, <2>2, <2>3, <2>4 DEF BatchIsAccounted
<1>2. StoppedBatchIsQuiet
  BY DEF BatchInv, ChildInv, StoppedBatchIsQuiet
<1>3. LeaseCoversChildren
  <2> SUFFICES ASSUME lease = "free", Live # {} PROVE phase = "over" /\ stopping /\ header = "open"
    BY DEF LeaseCoversChildren
  <2>1. PICK c \in Cells : child[c] \in {"boot", "runs", "stopping"}
    BY DEF Live
  <2>2. phase \notin Early
    BY <2>1 DEF BatchInv, ChildInv
  <2> QED
    BY <2>2 DEF BatchInv, PhaseInv, Early
<1> QED
  BY <1>1, <1>2, <1>3 DEF BatchIsKept

----
(* What the steps leave alone. *)

LEMMA ChildrenStand ==
  ASSUME BatchInv, UNCHANGED <<status, child, result, pids, stopping>>,
         phase' \in Early => phase \in Early
  PROVE  \A c \in Cells : ChildInv(c)'
BY DEF BatchInv, ChildInv

LEMMA RecordsStand ==
  ASSUME BatchInv, UNCHANGED <<status, child, result, records>>,
         phase' \in Early => phase \in Early, Recording' => Recording
  PROVE  /\ \A c \in Cells : RecordInv(c)'
         /\ \A e \in Skipped : SkipInv(e)'
<1>1. \A c \in Cells : \A r : Tells(c, r) => Tells(c, r)'
  BY DEF Tells
<1> QED
  BY <1>1 DEF BatchInv, RecordInv, SkipInv

LEMMA LivesStand ==
  UNCHANGED <<status, child>> => Live' = Live /\ Started' = Started
BY DEF Live, Started

LEMMA TypesStand ==
  BatchInv /\ UNCHANGED <<children, records>> => BatchTypes'
BY DEF BatchInv, BatchTypes, children

\* The phases before and after the drive, whose steps concern no child.
LEMMA OutsideKept ==
  ASSUME BatchInv, Acquire \/ Validate \/ WriteHeader \/ Release \/ Killed
  PROVE  BatchInv'
<1> USE RunAllAssumption
<1>1. UNCHANGED <<vars, children, signals, records>>
  BY DEF Acquire, Validate, WriteHeader, Release, Killed
<1>2. /\ UNCHANGED <<status, stopRequested, child, result, pids, stopping>>
      /\ Live' = Live /\ Started' = Started
  BY <1>1, LivesStand DEF vars, children, signals
<1>3. phase \in Early => Live = {}
  BY DEF BatchInv, ChildInv, Live
<1>4. CASE Acquire
  BY <1>1, <1>2, <1>3, <1>4, ChildrenStand, RecordsStand, TypesStand
     DEF Acquire, BatchInv, PhaseInv, Early, Recording
<1>5. CASE Validate
  BY <1>1, <1>2, <1>3, <1>5, ChildrenStand, RecordsStand, TypesStand
     DEF Validate, BatchInv, PhaseInv, Early, Recording
<1>6. CASE WriteHeader
  BY <1>1, <1>2, <1>3, <1>6, ChildrenStand, RecordsStand, TypesStand
     DEF WriteHeader, BatchInv, PhaseInv, Early, Recording
<1>7. CASE Release
  BY <1>1, <1>2, <1>3, <1>7, ChildrenStand, RecordsStand, TypesStand
     DEF Release, BatchInv, PhaseInv, Early, Recording
<1>8. CASE Killed
  BY <1>1, <1>2, <1>3, <1>8, ChildrenStand, RecordsStand, TypesStand
     DEF Killed, BatchInv, PhaseInv, Early, Recording
<1> QED
  BY <1>4, <1>5, <1>6, <1>7, <1>8

LEMMA RecordSkipsKept ==
  ASSUME BatchInv, RecordSkips
  PROVE  BatchInv'
<1> USE RunAllAssumption
<1>1. /\ UNCHANGED <<status, stopRequested, child, result, pids, stopping, children>>
      /\ Live' = Live /\ Started' = Started
  BY LivesStand DEF RecordSkips, vars, children, signals
<1>2. phase \in Early /\ phase' \notin Early /\ Live = {}
  BY DEF RecordSkips, BatchInv, ChildInv, Live, Early
<1>3. \A c \in Cells : ChildInv(c)'
  BY <1>1, <1>2, ChildrenStand
<1>4. PhaseInv'
  BY <1>1, <1>2 DEF RecordSkips, BatchInv, PhaseInv, Early
<1>5. CASE phase' = "release" /\ UNCHANGED records
  <2>1. ~Recording'
    BY <1>2, <1>4, <1>5 DEF RecordSkips, BatchInv, PhaseInv, Recording
  <2> QED
    BY <1>1, <1>2, <1>3, <1>4, <1>5, <2>1, TypesStand, RecordsStand DEF BatchInv
<1>6. CASE /\ records' = [e \in Entries |->
                IF e \in Skipped THEN Append(records[e], NoRun("skipped")) ELSE records[e]]
           /\ phase' = "drive"
  <2>1. BatchTypes'
    BY <1>1, <1>6 DEF BatchInv, BatchTypes, children
  <2>2. ASSUME NEW c \in Cells PROVE RecordInv(c)'
    <3>1. records'[c] = <<>> /\ status'[c] = "queued"
      BY <1>1, <1>2, <1>6 DEF BatchInv, RecordInv, ChildInv, Entries
    <3> QED
      BY <1>2, <3>1 DEF RecordInv
  <2>3. ASSUME NEW e \in Skipped PROVE SkipInv(e)'
    <3>1. records'[e] = Append(<<>>, NoRun("skipped"))
      BY <1>2, <1>6 DEF BatchInv, SkipInv, Entries
    <3> QED
      BY <1>2, <3>1 DEF SkipInv
  <2> QED
    BY <1>3, <1>4, <2>1, <2>2, <2>3 DEF BatchInv
<1> QED
  BY <1>5, <1>6 DEF RecordSkips

\* The dispatcher's turns at which no cell changes, and the end of the drive.
LEMMA TurnsKept ==
  ASSUME BatchInv, Turns \/ Elapses \/ Listen
  PROVE  BatchInv'
<1>1. /\ UNCHANGED <<phase, lease, header, records, children, stopping, stopRequested, status>>
      /\ Live' = Live /\ Started' = Started
  <2>1. UNCHANGED <<batch, children, stopping, stopRequested, status>>
    BY DEF Turns, Elapses, Listen, ScanEnds, BatchDone, Park, Resume, Tick, signals, vars
  <2> QED
    BY <2>1, LivesStand DEF batch, children
<1>2. PhaseInv'
  BY <1>1 DEF BatchInv, PhaseInv
<1> QED
  BY <1>1, <1>2, ChildrenStand, RecordsStand, TypesStand DEF BatchInv, children, Recording

LEMMA FooterKept ==
  ASSUME BatchInv, DoneIsQuiet, Footer
  PROVE  BatchInv'
<1> USE RunAllAssumption
<1>1. /\ UNCHANGED <<lease, records, children, stopping, stopRequested, status>>
      /\ Live' = Live /\ Started' = Started
  BY LivesStand DEF Footer, vars, children
<1>2. Started = {}
  BY DEF Footer, DoneIsQuiet
<1>3. Live = {}
  BY <1>2 DEF BatchInv, ChildInv, Live, Started
<1>4. phase = "drive" /\ header = "open" /\ phase' = "release" /\ header' \in {"open", "closed"}
  BY DEF Footer, Driving, BatchInv, PhaseInv
<1>5. PhaseInv'
  BY <1>1, <1>2, <1>3, <1>4 DEF BatchInv, PhaseInv, Early
<1> QED
  BY <1>1, <1>4, <1>5, ChildrenStand, RecordsStand, TypesStand DEF BatchInv, children, Recording, Early

\* A pass of the dispatcher records the cells that a stop takes from the queue.
LEMMA PassKept ==
  ASSUME TypeOK, BatchInv, Pass
  PROVE  BatchInv'
<1> USE RunAllAssumption
<1>1. /\ UNCHANGED <<lease, header, children, child, result, pids, stopping, stopRequested>>
      /\ Live' = Live
      /\ phase = "drive" /\ header = "open" /\ phase' \in {"drive", "release"}
  BY DEF Pass, PassBegins, Driving, children, Live, BatchInv, PhaseInv
<1>2. \/ UNCHANGED <<status, told>>
      \/ /\ stopRequested
         /\ Skip(Queued, "stopped")
  BY DEF Pass, PassBegins
<1>3. /\ Started' = Started
      /\ \A c \in Cells : \/ status'[c] = status[c]
                          \/ status[c] = "queued" /\ status'[c] = "terminal" /\ stopRequested
                               /\ told'[c] = Append(told[c], "stopped")
  BY <1>2 DEF Skip, Queued, Started
<1>4. ASSUME NEW c \in Cells PROVE ChildInv(c)'
  <2>1. status'[c] = status[c] \/ (status[c] = "queued" /\ status'[c] = "terminal")
    BY <1>3
  <2> QED
    BY <1>1, <2>1 DEF BatchInv, ChildInv, Early
<1>5. PhaseInv'
  <2>1. ASSUME phase' = "release" PROVE stopping
    <3>1. PICK c \in Cells : SkippedNow(c)
      BY <1>1, <2>1 DEF Pass
    <3>2. stopRequested
      BY <1>3, <3>1 DEF SkippedNow
    <3> QED
      BY <3>2 DEF BatchInv, PhaseInv
  <2> QED
    BY <1>1, <1>3, <2>1 DEF BatchInv, PhaseInv, Early
<1>6. CASE /\ records' = [e \in Entries |->
                IF e \in Cells /\ SkippedNow(e) THEN SkipRecord(e) ELSE records[e]]
           /\ UNCHANGED phase
  <2>1. BatchTypes'
    BY <1>1, <1>6 DEF BatchInv, BatchTypes, children
  <2>2. ASSUME NEW c \in Cells PROVE RecordInv(c)'
    <3>1. CASE SkippedNow(c)
      <4>1. told'[c] = Append(told[c], "stopped") /\ Len(told[c]) \in Nat
        BY <1>3, <3>1 DEF SkippedNow, TypeOK
      <4>2. Latest(told'[c]) = "stopped"
        BY <4>1 DEF Latest, TypeOK
      <4>3. records[c] = <<>> /\ child[c] = "none" /\ result[c] = None
        BY <1>1, <3>1 DEF SkippedNow, BatchInv, RecordInv, ChildInv, Recording
      <4>4. records'[c] = <<NoRun("stopped")>>
        <5>1. c \in Entries
          BY DEF Entries
        <5>2. records'[c] = SkipRecord(c)
          BY <1>6, <3>1, <5>1
        <5> QED
          BY <4>2, <4>3, <5>2 DEF SkipRecord
      <4>5. Tells(c, NoRun("stopped"))'
        BY <1>1, <4>3 DEF Tells, NoRun
      <4> QED
        BY <1>1, <1>6, <3>1, <4>4, <4>5 DEF RecordInv, SkippedNow, Early
    <3>2. CASE ~SkippedNow(c)
      <4>1. records'[c] = records[c] /\ status'[c] = status[c]
        BY <1>3, <1>6, <3>2 DEF SkippedNow, Entries
      <4> QED
        BY <1>1, <1>6, <4>1 DEF BatchInv, RecordInv, Tells, Recording
    <3> QED
      BY <3>1, <3>2
  <2>3. ASSUME NEW e \in Skipped PROVE SkipInv(e)'
    <3>1. records'[e] = records[e]
      BY <1>6 DEF Entries
    <3> QED
      BY <1>1, <1>6, <3>1 DEF BatchInv, SkipInv, Recording
  <2> QED
    BY <1>4, <1>5, <2>1, <2>2, <2>3 DEF BatchInv
<1>7. CASE phase' = "release" /\ UNCHANGED records
  <2>1. ~Recording' /\ phase' \notin Early
    BY <1>1, <1>7 DEF Recording, Early
  <2>2. BatchTypes'
    BY <1>1, <1>7, TypesStand
  <2> QED
    BY <1>4, <1>5, <2>1, <2>2 DEF BatchInv, RecordInv, SkipInv
<1> QED
  BY <1>6, <1>7 DEF Pass

\* A scan starts the cell it has come to, whose process is then in the registry,
\* and no cell after the stop.
LEMMA DispatchesKept ==
  ASSUME TypeOK, BatchInv, Dispatches
  PROVE  BatchInv'
<1> USE RunAllAssumption
<1>1. /\ UNCHANGED <<phase, lease, header, records, stopping, stopRequested>>
      /\ phase = "drive" /\ header = "open"
  BY DEF Dispatches, Scan, Driving, batch, signals, BatchInv, PhaseInv
<1>2. CASE UNCHANGED <<status, children>>
  <2>1. UNCHANGED <<child, result, pids>> /\ Live' = Live /\ Started' = Started
    BY <1>2, LivesStand DEF children
  <2>2. PhaseInv'
    BY <1>1, <2>1 DEF BatchInv, PhaseInv
  <2> QED
    BY <1>1, <1>2, <2>1, <2>2, ChildrenStand, RecordsStand, TypesStand DEF BatchInv, Recording
<1>3. CASE at \in Queued /\ Eligible(at) /\ StartCell(at) /\ Spawn(at)
  <2>1. /\ at \in Cells /\ status[at] = "queued" /\ ~stopping
        /\ status' = [status EXCEPT ![at] = "started"]
    BY <1>3 DEF Queued, Eligible, StartCell, BatchInv, PhaseInv
  <2>2. /\ \A c \in Cells \ {at} : /\ status'[c] = status[c] /\ child'[c] = child[c]
                                   /\ result'[c] = result[c] /\ (c \in pids' <=> c \in pids)
        /\ status'[at] = "started"
        /\ \/ child'[at] = "boot" /\ at \in pids' /\ result'[at] = result[at]
           \/ child'[at] = "exited" /\ pids' = pids /\ result'[at] = "dead"
        /\ child' \in [Cells -> ChildStates] /\ result' \in [Cells -> Ends] /\ pids' \subseteq Cells
    BY <1>3, <2>1 DEF Spawn, Register, BatchInv, BatchTypes, TypeOK, ChildStates, Ends
  <2>3. ASSUME NEW c \in Cells PROVE ChildInv(c)' /\ RecordInv(c)'
    <3>1. CASE c = at
      <4>1. records'[c] = <<>> /\ result[c] = None
        BY <1>1, <2>1, <3>1 DEF BatchInv, RecordInv, ChildInv, Recording
      <4> QED
        BY <1>1, <2>1, <2>2, <3>1, <4>1 DEF ChildInv, RecordInv, Early
    <3>2. CASE c # at
      <4>1. /\ status'[c] = status[c] /\ child'[c] = child[c] /\ result'[c] = result[c]
            /\ (c \in pids' <=> c \in pids) /\ records'[c] = records[c]
        BY <1>1, <2>2, <3>2
      <4> QED
        BY <1>1, <4>1 DEF BatchInv, ChildInv, RecordInv, Tells, Recording
    <3> QED
      BY <3>1, <3>2
  <2>4. PhaseInv'
    BY <1>1, <2>1 DEF BatchInv, PhaseInv, Early
  <2>5. BatchTypes'
    BY <1>1, <2>2 DEF BatchInv, BatchTypes
  <2>6. \A e \in Skipped : SkipInv(e)'
    BY <1>1 DEF BatchInv, SkipInv, Recording
  <2> QED
    BY <2>3, <2>4, <2>5, <2>6 DEF BatchInv
<1>4. status' = status \/ (at \in Queued /\ Eligible(at) /\ StartCell(at))
  BY DEF Dispatches, Scan
<1>5. ASSUME at \in Queued, StartCell(at) PROVE status' # status
  BY <1>5 DEF StartCell, Queued, TypeOK
<1> QED
  BY <1>2, <1>3, <1>4, <1>5 DEF Dispatches

\* A child's end leaves its cell's one record, and one for each cell of its key
\* that its limit takes from the queue.
LEMMA CompletesKept ==
  ASSUME TypeOK, BatchInv, NEW d \in Cells, Completes(d)
  PROVE  BatchInv'
<1> USE RunAllAssumption
<1>1. /\ UNCHANGED <<phase, lease, header, child, result, stopping, stopRequested>>
      /\ phase = "drive" /\ header = "open" /\ Live' = Live
      /\ pids' = pids \ {d} /\ child[d] = "exited" /\ status[d] = "started"
  BY DEF Completes, OnComplete, Started, Driving, signals, Live, BatchInv, PhaseInv
<1>2. /\ status'[d] = "terminal"
      /\ \A c \in Cells \ {d} :
           \/ status'[c] = status[c]
           \/ /\ status[c] = "queued" /\ status'[c] = "terminal"
              /\ told'[c] = Append(told[c], "rate-limited")
  BY DEF Completes, OnComplete, Latch, Queued, TypeOK
<1>3. ASSUME NEW c \in Cells PROVE ChildInv(c)'
  BY <1>1, <1>2 DEF BatchInv, ChildInv, Early
<1>4. PhaseInv'
  BY <1>1 DEF BatchInv, PhaseInv
<1>5. BatchTypes'
  BY <1>1 DEF Completes, BatchInv, BatchTypes
<1>6. ASSUME NEW c \in Cells PROVE RecordInv(c)'
  <2>1. c \in Entries
    BY DEF Entries
  <2>2. CASE c = d
    <3>1. records[c] = <<>>
      BY <1>1, <2>2 DEF BatchInv, RecordInv, Recording
    <3>2. records'[c] = Finished(c)
      BY <2>1, <2>2 DEF Completes
    <3>3. CASE result[c] \in {"judged", "limited"}
      <4>1. records'[c] = <<Ran>>
        BY <3>1, <3>2, <3>3 DEF Finished
      <4>2. Tells(c, Ran)'
        BY <1>1, <2>2, <3>3 DEF Tells, Ran
      <4> QED
        BY <1>1, <1>2, <2>2, <4>1, <4>2 DEF RecordInv, Early
    <3>4. CASE result[c] \notin {"judged", "limited"}
      <4>1. records'[c] = <<NoRun("unknown")>>
        BY <3>1, <3>2, <3>4 DEF Finished
      <4>2. Tells(c, NoRun("unknown"))'
        BY <1>1, <2>2, <3>4 DEF Tells, NoRun
      <4> QED
        BY <1>1, <1>2, <2>2, <4>1, <4>2 DEF RecordInv, Early
    <3> QED
      BY <3>3, <3>4
  <2>3. CASE c # d /\ SkippedNow(c)
    <3>1. told'[c] = Append(told[c], "rate-limited") /\ told[c] \in Seq({"finished", "rate-limited", "stopped"})
      BY <1>2, <2>3 DEF SkippedNow, TypeOK
    <3>2. Latest(told'[c]) = "rate-limited"
      BY <3>1 DEF Latest
    <3>3. records[c] = <<>> /\ child[c] = "none" /\ result[c] = None
      BY <1>1, <2>3 DEF SkippedNow, BatchInv, RecordInv, ChildInv, Recording
    <3>4. records'[c] = SkipRecord(c)
      BY <2>1, <2>3 DEF Completes
    <3>5. records'[c] = <<NoRun("rate-limited")>>
      BY <3>2, <3>3, <3>4 DEF SkipRecord
    <3>6. Tells(c, NoRun("rate-limited"))'
      BY <1>1, <3>3 DEF Tells, NoRun
    <3> QED
      BY <1>1, <2>3, <3>5, <3>6 DEF RecordInv, SkippedNow, Early
  <2>4. CASE c # d /\ ~SkippedNow(c)
    <3>1. records'[c] = records[c] /\ status'[c] = status[c]
      BY <1>2, <2>1, <2>4 DEF Completes, SkippedNow
    <3> QED
      BY <1>1, <3>1 DEF BatchInv, RecordInv, Tells, Recording
  <2> QED
    BY <2>2, <2>3, <2>4
<1>7. ASSUME NEW e \in Skipped PROVE SkipInv(e)'
  <2>1. records'[e] = records[e]
    BY DEF Completes, Entries
  <2> QED
    BY <1>1, <2>1 DEF BatchInv, SkipInv, Recording
<1> QED
  BY <1>3, <1>4, <1>5, <1>6, <1>7 DEF BatchInv

\* A child's own step, and what a signal does to the children, touch no cell that
\* is not started: no record speaks of them.
LEMMA ChildrenMove ==
  ASSUME BatchInv, UNCHANGED <<status, records>>,
         phase' \in Early => phase \in Early, Recording' => Recording,
         child' \in [Cells -> ChildStates], result' \in [Cells -> Ends], pids' = pids,
         stopping => stopping',
         \A c \in Cells : \/ child'[c] = child[c] /\ result'[c] = result[c]
                          \/ /\ child[c] \in {"boot", "runs", "stopping"}
                             /\ \/ child'[c] = "exited"
                                \/ child'[c] = "runs" /\ result'[c] = result[c] /\ ~stopping'
                                \/ child'[c] = "stopping" /\ result'[c] = result[c],
         stopping' => \A c \in Cells : child'[c] \notin {"boot", "runs"}
  PROVE  /\ BatchTypes' /\ Live' \subseteq Live /\ Started' = Started
         /\ \A c \in Cells : ChildInv(c)' /\ RecordInv(c)'
         /\ \A e \in Skipped : SkipInv(e)'
<1>1. BatchTypes'
  BY DEF BatchInv, BatchTypes
<1>2. Live' \subseteq Live /\ Started' = Started
  BY DEF Live, Started
<1>3. ASSUME NEW c \in Cells PROVE ChildInv(c)' /\ RecordInv(c)'
  <2>1. CASE child'[c] = child[c] /\ result'[c] = result[c]
    BY <2>1 DEF BatchInv, ChildInv, RecordInv, Tells
  <2>2. CASE child[c] \in {"boot", "runs", "stopping"}
    <3>1. status[c] = "started" /\ phase' \notin Early
      BY <2>2 DEF BatchInv, ChildInv
    <3>2. ChildInv(c)'
      BY <2>2, <3>1 DEF BatchInv, ChildInv
    <3>3. RecordInv(c)'
      BY <3>1 DEF BatchInv, RecordInv
    <3> QED
      BY <3>2, <3>3
  <2> QED
    BY <2>1, <2>2
<1>4. \A e \in Skipped : SkipInv(e)'
  BY DEF BatchInv, SkipInv
<1> QED
  BY <1>1, <1>2, <1>3, <1>4

LEMMA BootsKept ==
  ASSUME BatchInv, NEW d \in Cells, Boots(d)
  PROVE  BatchInv'
<1>1. /\ UNCHANGED <<status, records, phase, lease, header, stopping, stopRequested, result, pids>>
      /\ child[d] = "boot" /\ child' = [child EXCEPT ![d] = "runs"]
  BY DEF Boots, vars, batch, signals
<1>2. ~stopping
  BY <1>1 DEF BatchInv, ChildInv
<1>3. /\ BatchTypes' /\ Live' \subseteq Live /\ Started' = Started
      /\ \A c \in Cells : ChildInv(c)' /\ RecordInv(c)'
      /\ \A e \in Skipped : SkipInv(e)'
  <2>1. /\ child' \in [Cells -> ChildStates] /\ result' \in [Cells -> Ends] /\ Recording' = Recording
        /\ \A c \in Cells : \/ child'[c] = child[c] /\ result'[c] = result[c]
                            \/ child[c] = "boot" /\ child'[c] = "runs" /\ result'[c] = result[c]
    BY <1>1 DEF BatchInv, BatchTypes, ChildStates, Recording
  <2> QED
    BY <1>1, <1>2, <2>1, ChildrenMove
<1>4. PhaseInv'
  BY <1>1, <1>3 DEF BatchInv, PhaseInv
<1> QED
  BY <1>3, <1>4 DEF BatchInv

LEMMA ExitsKept ==
  ASSUME BatchInv, NEW d \in Cells, Exits(d)
  PROVE  BatchInv'
<1>1. /\ UNCHANGED <<status, records, phase, lease, header, stopping, stopRequested, pids>>
      /\ child[d] \in {"boot", "runs", "stopping"} /\ child' = [child EXCEPT ![d] = "exited"]
  BY DEF Exits, vars, batch, signals, Live
<1>2. PICK end \in Ends : result' = [result EXCEPT ![d] = end]
  <2>1. CASE child[d] = "boot"
    BY <2>1 DEF Exits, Ends
  <2>2. CASE child[d] = "runs"
    BY <2>2 DEF Exits, Ends
  <2>3. CASE child[d] = "stopping"
    BY <2>3 DEF Exits, Ends
  <2> QED
    BY <1>1, <2>1, <2>2, <2>3
<1>3. /\ BatchTypes' /\ Live' \subseteq Live /\ Started' = Started
      /\ \A c \in Cells : ChildInv(c)' /\ RecordInv(c)'
      /\ \A e \in Skipped : SkipInv(e)'
  <2>1. /\ child' \in [Cells -> ChildStates] /\ result' \in [Cells -> Ends] /\ Recording' = Recording
        /\ \A c \in Cells : \/ child'[c] = child[c] /\ result'[c] = result[c]
                            \/ child[c] \in {"boot", "runs", "stopping"} /\ child'[c] = "exited"
    BY <1>1, <1>2 DEF BatchInv, BatchTypes, ChildStates, Recording
  <2>2. stopping' => \A c \in Cells : child'[c] \notin {"boot", "runs"}
    BY <1>1, <2>1 DEF BatchInv, ChildInv
  <2> QED
    BY <1>1, <2>1, <2>2, ChildrenMove
<1>4. PhaseInv'
  BY <1>1, <1>3 DEF BatchInv, PhaseInv
<1> QED
  BY <1>3, <1>4 DEF BatchInv

\* SIGINT at the children of a set that holds all that live: none is left that
\* boots or runs on, and one that waits for its end waits on or dies.
LEMMA InterruptReaches ==
  ASSUME BatchInv, NEW reached \in SUBSET Cells, NEW twice \in SUBSET reached,
         twice \subseteq Live, Interrupt(reached, twice)
  PROVE  /\ child' \in [Cells -> ChildStates] /\ result' \in [Cells -> Ends]
         /\ \A c \in Cells : \/ child'[c] = child[c] /\ result'[c] = result[c]
                             \/ /\ child[c] \in {"boot", "runs", "stopping"}
                                /\ \/ child'[c] = "exited"
                                   \/ child'[c] = "stopping" /\ result'[c] = result[c]
         /\ \A c \in reached : child'[c] \notin {"boot", "runs"}
<1> DEFINE dying == {c \in reached : child[c] = "boot"} \cup twice
<1>1. /\ child' = [c \in Cells |->
             CASE c \in dying -> "exited"
               [] c \in reached \ dying /\ child[c] = "runs" -> "stopping"
               [] OTHER -> child[c]]
      /\ result' = [c \in Cells |-> IF c \in dying THEN "dead" ELSE result[c]]
  BY DEF Interrupt
<1>2. \A c \in dying : child[c] \in {"boot", "runs", "stopping"}
  BY DEF Live
<1>3. \A c \in reached : child[c] = "boot" => c \in dying
  OBVIOUS
<1> HIDE DEF dying
<1>4. ASSUME NEW c \in Cells
      PROVE  /\ child'[c] \in ChildStates /\ result'[c] \in Ends
             /\ \/ child'[c] = child[c] /\ result'[c] = result[c]
                \/ /\ child[c] \in {"boot", "runs", "stopping"}
                   /\ \/ child'[c] = "exited"
                      \/ child'[c] = "stopping" /\ result'[c] = result[c]
             /\ c \in reached => child'[c] \notin {"boot", "runs"}
  <2>1. CASE c \in dying
    BY <1>1, <1>2, <2>1 DEF ChildStates, Ends
  <2>2. CASE c \in reached \ dying /\ child[c] = "runs"
    <3>1. child'[c] = "stopping" /\ result'[c] = result[c]
      BY <1>1, <2>2
    <3> QED
      BY <2>2, <3>1 DEF BatchInv, BatchTypes, ChildStates
  <2>3. CASE c \notin dying /\ ~(c \in reached \ dying /\ child[c] = "runs")
    <3>1. child'[c] = child[c] /\ result'[c] = result[c]
      BY <1>1, <2>3
    <3> QED
      BY <1>3, <2>3, <3>1 DEF BatchInv, BatchTypes
  <2> QED
    BY <2>1, <2>2, <2>3
<1>5. child' \in [Cells -> ChildStates] /\ result' \in [Cells -> Ends]
  BY <1>1, <1>4
<1> QED
  BY <1>4, <1>5

\* The first signal reaches every child: the registry knows all that live.
LEMMA FirstSignalKept ==
  ASSUME BatchInv, FirstSignal
  PROVE  BatchInv'
<1>1. /\ UNCHANGED <<status, records, phase, lease, header, pids>>
      /\ phase = "drive" /\ ~stopping /\ stopping' /\ stopRequested' = TRUE
  BY DEF FirstSignal, RequestStop, Driving, batch
<1>2. Live \subseteq pids
  BY DEF Live, BatchInv, ChildInv
<1>3. PICK group \in BOOLEAN :
        \E twice \in SUBSET {c \in Live \cap pids : group /\ child[c] = "runs"} :
          Interrupt((Live \cap pids) \cup (IF group THEN Live ELSE {}), twice)
  BY DEF FirstSignal
<1>4. PICK twice \in SUBSET Live : Interrupt(Live, twice)
  <2>1. (Live \cap pids) \cup (IF group THEN Live ELSE {}) = Live
    BY <1>2
  <2> QED
    BY <1>3, <2>1
<1>5. /\ child' \in [Cells -> ChildStates] /\ result' \in [Cells -> Ends]
      /\ \A c \in Cells : \/ child'[c] = child[c] /\ result'[c] = result[c]
                          \/ /\ child[c] \in {"boot", "runs", "stopping"}
                             /\ \/ child'[c] = "exited"
                                \/ child'[c] = "stopping" /\ result'[c] = result[c]
      /\ \A c \in Live : child'[c] \notin {"boot", "runs"}
  <2>1. Live \in SUBSET Cells
    BY DEF Live
  <2> QED
    BY <1>4, <2>1, InterruptReaches
<1>6. \A c \in Cells : child'[c] \notin {"boot", "runs"}
  BY <1>5 DEF Live
<1>7. /\ BatchTypes' /\ Live' \subseteq Live /\ Started' = Started
      /\ \A c \in Cells : ChildInv(c)' /\ RecordInv(c)'
      /\ \A e \in Skipped : SkipInv(e)'
  BY <1>1, <1>5, <1>6, ChildrenMove DEF Recording
<1>8. PhaseInv'
  BY <1>1, <1>7 DEF BatchInv, PhaseInv, Early
<1> QED
  BY <1>7, <1>8 DEF BatchInv

\* The second one ends the process, whatever it does to its children.
LEMMA HardExitKept ==
  ASSUME BatchInv, HardExit
  PROVE  BatchInv'
<1>1. /\ UNCHANGED <<status, records, lease, header, pids, stopping, stopRequested>>
      /\ phase = "drive" /\ phase' = "dead" /\ stopping
  BY DEF HardExit, Driving, vars, signals
<1>2. header = "open" /\ lease # "free"
  BY <1>1, RunAllAssumption DEF BatchInv, PhaseInv
<1>3. PICK reached \in {{}, Live} : Interrupt(reached, {c \in reached : child[c] = "stopping"})
  BY DEF HardExit
<1>4. /\ child' \in [Cells -> ChildStates] /\ result' \in [Cells -> Ends]
      /\ \A c \in Cells : \/ child'[c] = child[c] /\ result'[c] = result[c]
                          \/ /\ child[c] \in {"boot", "runs", "stopping"}
                             /\ \/ child'[c] = "exited"
                                \/ child'[c] = "stopping" /\ result'[c] = result[c]
  <2> DEFINE twice == {c \in reached : child[c] = "stopping"}
  <2>1. reached \in SUBSET Cells /\ twice \in SUBSET reached /\ twice \subseteq Live
    BY DEF Live
  <2>2. Interrupt(reached, twice)
    BY <1>3
  <2> HIDE DEF twice
  <2> QED
    BY <2>1, <2>2, InterruptReaches
<1>5. \A c \in Cells : child'[c] \notin {"boot", "runs"}
  BY <1>1, <1>4 DEF BatchInv, ChildInv
<1>6. /\ BatchTypes' /\ Live' \subseteq Live /\ Started' = Started
      /\ \A c \in Cells : ChildInv(c)' /\ RecordInv(c)'
      /\ \A e \in Skipped : SkipInv(e)'
  BY <1>1, <1>2, <1>4, <1>5, ChildrenMove, RunAllAssumption DEF Recording, Early
<1>7. PhaseInv'
  BY <1>1, <1>2, <1>6, RunAllAssumption DEF BatchInv, PhaseInv, Early
<1> QED
  BY <1>6, <1>7 DEF BatchInv

----
(* The theorem. *)

LEMMA BatchInvStep ==
  ASSUME TypeOK, DoneIsQuiet, BatchInv, [BatchNext]_batchVars
  PROVE  BatchInv'
<1>1. CASE UNCHANGED batchVars
  <2>1. /\ UNCHANGED <<phase, lease, header, records, children, stopping, stopRequested, status>>
        /\ UNCHANGED <<child, result, pids>> /\ Live' = Live /\ Started' = Started
    BY <1>1, LivesStand DEF batchVars, vars, batch, children, signals
  <2>2. PhaseInv'
    BY <2>1 DEF BatchInv, PhaseInv
  <2> QED
    BY <2>1, <2>2, ChildrenStand, RecordsStand, TypesStand DEF BatchInv, Recording
<1>2. CASE Acquire \/ Validate \/ WriteHeader \/ Release \/ Killed
  BY <1>2, OutsideKept
<1>3. CASE RecordSkips
  BY <1>3, RecordSkipsKept
<1>4. CASE Pass
  BY <1>4, PassKept
<1>5. CASE Dispatches
  BY <1>5, DispatchesKept
<1>6. CASE Turns \/ Elapses \/ Listen
  BY <1>6, TurnsKept
<1>7. CASE Footer
  BY <1>7, FooterKept
<1>8. CASE \E c \in Cells : Completes(c)
  BY <1>8, CompletesKept
<1>9. CASE \E c \in Cells : Boots(c) \/ Exits(c)
  BY <1>9, BootsKept, ExitsKept
<1>10. CASE FirstSignal
  BY <1>10, FirstSignalKept
<1>11. CASE HardExit
  BY <1>11, HardExitKept
<1> QED
  BY <1>1, <1>2, <1>3, <1>4, <1>5, <1>6, <1>7, <1>8, <1>9, <1>10, <1>11 DEF BatchNext, Drive

\* A closed batch has accounted for its matrix, a stop leaves no child it did not
\* reach, and the lease is given back with none alive but after a stop whose
\* records could not be written (runBatch of run-all/index.ts, stopBatch of
\* run-all/child-stop.ts).
THEOREM BatchIsKeptAlways == BatchSpec => []BatchIsKept
<1>1. BatchInit => BatchInv
  BY BatchInvInit
<1>2. TypeOK /\ DoneIsQuiet /\ BatchInv /\ [BatchNext]_batchVars => BatchInv'
  BY BatchInvStep
<1>3. BatchInv => BatchIsKept
  BY BatchInvSound
<1>4. BatchSpec => [](TypeOK /\ DoneIsQuiet)
  BY BatchImplementsScheduler, TypeCorrect, EndIsQuiet, PTL
<1> QED
  BY <1>1, <1>2, <1>3, <1>4, PTL DEF BatchSpec
====
