---- MODULE LockProofs ----
(***************************************************************************)
(* What locks protect, for any number of processes that die anywhere.      *)
(*                                                                         *)
(* The directory lease: a holder's directory is never lost to the races of *)
(* those that sever.  A directory has no token but its maker's, an open    *)
(* one is not given out again, and a token is only wiped by its own        *)
(* process or after its death.  What is unlinked is empty, so that a       *)
(* holder's directory still has a name.                                    *)
(*                                                                         *)
(* The jobs of the appliance: while a worker has run.lock nobody else      *)
(* touches the container or its material, so that what a command was given *)
(* is its own job's; it is recognised later by the id of its container,    *)
(* and no two jobs know one id.                                            *)
(*                                                                         *)
(* The lock of a worktree: what a caller in the section knows of the tree. *)
(***************************************************************************)
EXTENDS DirLease, DestLock, ApplianceJob, TLAPS

----
(* The directory lease. *)

\* From its open on, a call goes by the directory that it made.
Owning == {"create", "write", "confirm", "rollback", "holding"}
Leaving == {"release", "rollback"}
Own(p) == pc[p] \in Owning \/ why[p] \in Leaving

\* Its token is there, and it counts on it.
Tokened(p) == pc[p] \in {"write", "confirm", "holding"} \/ why[p] = "release"

LeaseTypes ==
  /\ path \in Inodes \cup {None}
  /\ entries \in [Inodes -> SUBSET Processes]
  /\ blank \subseteq Processes /\ parked \subseteq Inodes /\ alive \subseteq Processes
  /\ trash \in [Processes -> Inodes \cup {None}]
  /\ pc \in [Processes -> {"start", "made", "create", "write", "confirm", "holding",
                          "rollback", "judge", "sever", "settle", "done"}]
  /\ mark \in [Processes -> Inodes \cup {None}]
  /\ why \in [Processes -> Guards \cup {None}]
  /\ maker \in [Inodes -> Processes \cup {None}]

\* Where a process is says what it has open, what it has renamed and why.
PlaceInv(p) ==
  /\ pc[p] = "settle" <=> trash[p] # None
  /\ pc[p] \in {"sever", "settle"} <=> why[p] # None
  /\ pc[p] \in Owning \cup {"judge", "sever", "settle"} => mark[p] # None
  /\ why[p] \in Processes => why[p] \notin alive

UnlinkedIsEmpty == \A i \in Inodes : ~Linked(i) => entries[i] = {}

TokensInv ==
  /\ \A i \in Inodes : entries[i] \subseteq IF maker[i] = None THEN Departed ELSE {maker[i]}
  /\ \A p \in alive :
       /\ Own(p) => maker[mark[p]] = p
       /\ Tokened(p) => p \in entries[mark[p]]

LeaseInv ==
  /\ LeaseTypes
  /\ \A p \in Processes : PlaceInv(p)
  /\ UnlinkedIsEmpty
  /\ Departed \cap alive = {}
  /\ ~crossed => TokensInv

LEMMA TypesKept == LeaseInv /\ [Next]_vars => LeaseTypes'
<1> SUFFICES ASSUME LeaseInv, [Next]_vars PROVE LeaseTypes'
  OBVIOUS
<1> USE LeaseAssumption DEF LeaseInv, LeaseTypes, Guards
<1>0. CASE UNCHANGED vars
  BY <1>0 DEF vars, disk, local, history
<1> SUFFICES ASSUME NEW p \in Processes, p \in alive, Acquire(p) \/ FailStop(p) \/ Release(p) \/ Die(p)
             PROVE  LeaseTypes'
  BY <1>0 DEF Next, Step
<1>1. CASE Make(p)
  BY <1>1 DEF Make, Free, Linked, Referenced, Go
<1>2. CASE Open(p)
  BY <1>2 DEF Open, Return, Mark, Go, disk
<1>3. CASE CreateToken(p)
  BY <1>3 DEF CreateToken, Go
<1>4. CASE WriteToken(p)
  BY <1>4 DEF WriteToken, Go, history
<1>5. CASE Confirm(p)
  BY <1>5 DEF Confirm, InPlace, Go, disk, history
<1>6. CASE Rollback(p)
  BY <1>6 DEF Rollback, Return, Mark, Go, history
<1>7. CASE Look(p)
  BY <1>7 DEF Look, Mark, Go, disk, history
<1>8. CASE Judge(p)
  BY <1>8 DEF Judge, Again, Return, Mark, Go, disk, history, Expired
<1>9. CASE Sever(p)
  BY <1>9 DEF Sever, After, Again, Return, Mark, Go, history
<1>10. CASE Settle(p)
  BY <1>10 DEF PlaceInv, Settle, Foreign, Drifted, Park, After, Again, Return, Mark, Go, history
<1>11. CASE FailStop(p)
  BY <1>11 DEF FailStop, Return, Mark, Go, disk, history
<1>12. CASE Release(p)
  BY <1>12 DEF Release, Return, Mark, Go, disk, history
<1>13. CASE Die(p)
  BY <1>13 DEF Die, Return, Mark, Go, history
<1> QED
  BY <1>1, <1>2, <1>3, <1>4, <1>5, <1>6, <1>7, <1>8, <1>9, <1>10, <1>11, <1>12, <1>13 DEF Acquire

LEMMA PlacesKept == LeaseInv /\ [Next]_vars => (\A q \in Processes : PlaceInv(q))'
<1> SUFFICES ASSUME LeaseInv, [Next]_vars PROVE (\A q \in Processes : PlaceInv(q))'
  OBVIOUS
<1> USE LeaseAssumption DEF LeaseInv, LeaseTypes, Guards, PlaceInv, Owning
<1>0. CASE UNCHANGED vars
  BY <1>0 DEF vars, disk, local, history
<1> SUFFICES ASSUME NEW p \in Processes, p \in alive, Acquire(p) \/ FailStop(p) \/ Release(p) \/ Die(p)
             PROVE  (\A q \in Processes : PlaceInv(q))'
  BY <1>0 DEF Next, Step
<1>1. CASE Make(p)
  BY <1>1 DEF Make, Free, Linked, Referenced, Go
<1>2. CASE Open(p)
  BY <1>2 DEF Open, Return, Mark, Go, disk
<1>3. CASE CreateToken(p)
  BY <1>3 DEF CreateToken, Go
<1>4. CASE WriteToken(p)
  BY <1>4 DEF WriteToken, Go, history
<1>5. CASE Confirm(p)
  BY <1>5 DEF Confirm, InPlace, Go, disk, history
<1>6. CASE Rollback(p)
  BY <1>6 DEF Rollback, Return, Mark, Go, history
<1>7. CASE Look(p)
  BY <1>7 DEF Look, Mark, Go, disk, history
<1>8. CASE Judge(p)
  BY <1>8 DEF Judge, Again, Return, Mark, Go, disk, history, Expired
<1>9. CASE Sever(p)
  BY <1>9 DEF Sever, After, Again, Return, Mark, Go, history
<1>10. CASE Settle(p)
  BY <1>10 DEF Settle, Foreign, Drifted, Park, After, Again, Return, Mark, Go, history
<1>11. CASE FailStop(p)
  BY <1>11 DEF FailStop, Return, Mark, Go, disk, history
<1>12. CASE Release(p)
  BY <1>12 DEF Release, Return, Mark, Go, disk, history
<1>13. CASE Die(p)
  BY <1>13 DEF Die, Return, Mark, Go, history
<1> QED
  BY <1>1, <1>2, <1>3, <1>4, <1>5, <1>6, <1>7, <1>8, <1>9, <1>10, <1>11, <1>12, <1>13 DEF Acquire

LEMMA UnlinkedKept == LeaseInv /\ [Next]_vars => UnlinkedIsEmpty'
<1> SUFFICES ASSUME LeaseInv, [Next]_vars PROVE UnlinkedIsEmpty'
  OBVIOUS
<1> USE LeaseAssumption DEF LeaseInv, LeaseTypes, Guards, UnlinkedIsEmpty, Linked, PlaceInv
<1>0. CASE UNCHANGED vars
  BY <1>0 DEF vars, disk, local, history
<1> SUFFICES ASSUME NEW p \in Processes, p \in alive, Acquire(p) \/ FailStop(p) \/ Release(p) \/ Die(p)
             PROVE  UnlinkedIsEmpty'
  BY <1>0 DEF Next, Step
<1>1. CASE Make(p)
  BY <1>1 DEF Make, Free, Linked, Referenced, Go
<1>2. CASE Open(p)
  BY <1>2 DEF Open, Return, Mark, Go, disk
<1>3. CASE CreateToken(p)
  BY <1>3 DEF CreateToken, Go
<1>4. CASE WriteToken(p)
  BY <1>4 DEF WriteToken, Go, history
<1>5. CASE Confirm(p)
  BY <1>5 DEF Confirm, InPlace, Go, disk, history
<1>6. CASE Rollback(p)
  BY <1>6 DEF Rollback, Return, Mark, Go, history
<1>7. CASE Look(p)
  BY <1>7 DEF Look, Mark, Go, disk, history
<1>8. CASE Judge(p)
  BY <1>8 DEF Judge, Again, Return, Mark, Go, disk, history, Expired
<1>9. CASE Sever(p)
  BY <1>9 DEF Sever, After, Again, Return, Mark, Go, history
<1>10. CASE Settle(p)
  BY <1>10 DEF Settle, Foreign, Drifted, Park, After, Again, Return, Mark, Go, history
<1>11. CASE FailStop(p)
  BY <1>11 DEF FailStop, Return, Mark, Go, disk, history
<1>12. CASE Release(p)
  BY <1>12 DEF Release, Return, Mark, Go, disk, history
<1>13. CASE Die(p)
  BY <1>13 DEF Die, Return, Mark, Go, history
<1> QED
  BY <1>1, <1>2, <1>3, <1>4, <1>5, <1>6, <1>7, <1>8, <1>9, <1>10, <1>11, <1>12, <1>13 DEF Acquire

LEMMA TokensKept == LeaseInv /\ [Next]_vars => (~crossed => TokensInv)'
<1> SUFFICES ASSUME LeaseInv, [Next]_vars PROVE (~crossed => TokensInv)'
  OBVIOUS
<1> USE LeaseAssumption DEF LeaseInv, LeaseTypes, Guards, TokensInv, Own, Tokened, Owning, Leaving, PlaceInv
<1>0. CASE UNCHANGED vars
  BY <1>0 DEF vars, disk, local, history
<1> SUFFICES ASSUME NEW p \in Processes, p \in alive, Acquire(p) \/ FailStop(p) \/ Release(p) \/ Die(p)
             PROVE  (~crossed => TokensInv)'
  BY <1>0 DEF Next, Step
<1>1. CASE Make(p)
  <2>1. PICK i \in Free : path' = i /\ maker' = [maker EXCEPT ![i] = p]
    BY <1>1 DEF Make
  <2>2. i \in Inodes /\ entries[i] = {} /\ \A q \in alive : mark[q] # i
    BY <2>1 DEF Free, Referenced, UnlinkedIsEmpty
  <2> QED
    BY <1>1, <2>1, <2>2 DEF Make, Go
<1>2. CASE Open(p)
  <2>1. CASE path = None
    BY <1>2, <2>1 DEF Open, Return, Mark, Go, disk
  <2>2. CASE path # None
    <3>1. /\ mark' = [mark EXCEPT ![p] = path] /\ pc' = [pc EXCEPT ![p] = "create"]
          /\ UNCHANGED <<why, entries, alive, maker>> /\ (~crossed' => ~crossed /\ maker[path] = p)
      BY <1>2, <2>2 DEF Open, Mark, Go, disk
    <3> QED
      BY <1>2, <2>2, <3>1 DEF Open
  <2> QED
    BY <2>1, <2>2
<1>3. CASE CreateToken(p)
  <2>1. CASE path = None
    BY <1>3, <2>1 DEF CreateToken, Go
  <2>2. CASE path # None
    <3>1. /\ entries' = [entries EXCEPT ![path] = @ \cup {p}] /\ pc' = [pc EXCEPT ![p] = "write"]
          /\ UNCHANGED <<why, mark, alive, maker>> /\ (~crossed' => ~crossed /\ path = mark[p])
      BY <1>3, <2>2 DEF CreateToken, Go
    <3> QED
      BY <1>3, <2>2, <3>1 DEF CreateToken
  <2> QED
    BY <2>1, <2>2
<1>4. CASE WriteToken(p)
  BY <1>4 DEF WriteToken, Go, history
<1>5. CASE Confirm(p)
  BY <1>5 DEF Confirm, InPlace, Go, disk, history
<1>6. CASE Rollback(p)
  BY <1>6 DEF Rollback, Return, Mark, Go, history
<1>7. CASE Look(p)
  BY <1>7 DEF Look, Mark, Go, disk, history
<1>8. CASE Judge(p)
  BY <1>8 DEF Judge, Again, Return, Mark, Go, disk, history, Expired
<1>9. CASE Sever(p)
  BY <1>9 DEF Sever, After, Again, Return, Mark, Go, history
<1>10. CASE Settle(p)
  BY <1>10 DEF Settle, Foreign, Drifted, Park, After, Again, Return, Mark, Go, history
<1>11. CASE FailStop(p)
  BY <1>11 DEF FailStop, Return, Mark, Go, disk, history
<1>12. CASE Release(p)
  BY <1>12 DEF Release, Return, Mark, Go, disk, history
<1>13. CASE Die(p)
  BY <1>13 DEF Die, Return, Mark, Go, history
<1> QED
  BY <1>1, <1>2, <1>3, <1>4, <1>5, <1>6, <1>7, <1>8, <1>9, <1>10, <1>11, <1>12, <1>13 DEF Acquire
LEMMA LeaseStep == LeaseInv /\ [Next]_vars => LeaseInv'
<1> SUFFICES ASSUME LeaseInv, [Next]_vars PROVE (Departed \cap alive = {})'
  BY TypesKept, PlacesKept, UnlinkedKept, TokensKept DEF LeaseInv
<1>1. alive' \subseteq alive
  BY DEF Next, Step, Acquire, Make, Open, CreateToken, WriteToken, Confirm, Rollback, Look, Judge,
         Sever, Settle, FailStop, Release, Die, vars, local
<1> QED
  BY <1>1 DEF LeaseInv

LEMMA LeaseInitially == Init => LeaseInv
<1> SUFFICES ASSUME Init PROVE LeaseInv
  OBVIOUS
<1> USE LeaseAssumption DEF Init, LeaseTypes, Guards
<1>1. LeaseTypes
  OBVIOUS
<1>2. \A p \in Processes : PlaceInv(p)
  BY DEF PlaceInv, Owning
<1>3. UnlinkedIsEmpty
  BY DEF UnlinkedIsEmpty, Linked
<1>4. Departed \cap alive = {} /\ TokensInv
  BY DEF TokensInv, Own, Tokened, Owning, Leaving
<1> QED
  BY <1>1, <1>2, <1>3, <1>4 DEF LeaseInv

LEMMA LeaseInvariant == Spec => []LeaseInv
BY LeaseInitially, LeaseStep, PTL DEF Spec

\* A live holder's directory keeps its token and a name through every race, unless a
\* call of its own went to another's directory (locks.ts 350-357): of all that
\* sever, only the holder's release and the verdict on a dead owner wipe a
\* directory that is not empty, and the owner of this one is alive.
THEOREM HeldIsKeptAlways == Spec => []HeldIsKept
<1>1. LeaseInv => HeldIsKept
  BY LeaseAssumption DEF LeaseInv, LeaseTypes, PlaceInv, Owning, TokensInv, Tokened, UnlinkedIsEmpty,
                         HeldIsKept, Holding
<1> QED
  BY <1>1, LeaseInvariant, PTL

----
(* The jobs of the appliance. *)

Statuses == {"preflighting", "running", "stopping"} \cup Final
WorkerPlaces ==
  {"queued", "preflight", "stage", "down", "recover", "retire", "swap", "drop", "up", "unproved",
   "inspect", "clean", "commit", "prepared", "exec", "spawned", "poll", "runs", "await", "decide",
   "postflight", "failing", "release", "ended", "dead"} \cup Final
CancelPlaces ==
  {"none", "idle", "group", "host", "refused", "stopping", "grace", "late", "ended",
   "cancelled", "done", "lost", "returned"}
Mounts == Jobs \cup {Empty, Absent}
Record ==
  [command : {"run", "run-all", "prepare"}, status : Statuses, box : Nat \cup {Absent},
   host : BOOLEAN, group : BOOLEAN, found : Jobs \cup {Absent}]
Remains == [verdict : {Absent, "judged", "stopped"}, batch : {Absent, "open", "finished"}]
Command == [box : Nat, agent : Mounts, supervisor : Mounts, named : BOOLEAN, told : BOOLEAN]

\* The types, without the bounds.
ContainerTypes ==
  /\ slots \in [Slots -> Mounts]
  /\ box \in {Absent} \cup [id : Nat, mounts : Mounts]
  /\ boxes \in Nat

JobTypes ==
  /\ job \in [Jobs -> Record]
  /\ writing \in [Actors -> Record \cup {Absent}]
  /\ wpc \in [Jobs -> WorkerPlaces] /\ cpc \in [Jobs -> CancelPlaces]
  /\ plan \in [Jobs -> Jobs \cup {Empty}]
  /\ given \in [Jobs -> Nat \cup {Absent}] /\ looked \in [Jobs -> Jobs \cup {Absent}]
  /\ live \in [Jobs -> {Absent} \cup Command]
  /\ client \in [Jobs -> {Absent, "runs", "interrupted", "zero", "nonzero"}]
  /\ artifact \in [Jobs -> Remains] /\ printed \subseteq Jobs
  /\ turn \in [Jobs -> Nat] /\ tooOld \in [Jobs -> Nat]
  /\ runLock \in Jobs \cup {Absent}

\* Between the lock and the release a worker has run.lock.
LockInv ==
  \A j \in Jobs : wpc[j] \notin {"queued", "failing", "release", "ended", "dead"} => runLock = j

\* What the worker that has run.lock knows of the container and its material.
MaterialInv ==
  \A j \in Jobs :
    /\ wpc[j] \in {"recover", "retire", "swap", "drop", "up"} => box = Absent
    /\ wpc[j] \in {"down", "recover", "retire", "swap"} => slots["staging"] = plan[j]
    /\ wpc[j] \in {"drop", "up"} => slots["active"] = plan[j]
    /\ wpc[j] \in {"retire", "up"} => slots["recovery"] = Absent

BoxInv ==
  \A j \in Jobs :
    /\ wpc[j] \in {"inspect", "commit", "clean"} => box = Absent \/ box.id = given[j]
    /\ wpc[j] = "stage" /\ plan[j] # Empty => box = Absent \/ box.id = given[j]
    /\ wpc[j] \in {"inspect", "commit", "exec"} => box = Absent \/ box.mounts = plan[j]
    /\ wpc[j] \in {"queued", "preflight"} => plan[j] = Empty
    /\ wpc[j] = "commit" => plan[j] = j \/ job[j].command = "prepare"
    /\ wpc[j] = "exec" => plan[j] = j

\* The ids of containers that a job, its record or its command knows.
Knows(j, i) ==
  \/ given[j] = i \/ job[j].box = i
  \/ live[j] # Absent /\ live[j].box = i
  \/ \E p \in {Worker(j), Canceller(j)} : writing[p] # Absent /\ writing[p].box = i

\* No two jobs know one id.
IdsInv ==
  \A i \in Nat : \A j \in Jobs :
    Knows(j, i) => i <= boxes /\ \A k \in Jobs : Knows(k, i) => k = j

CommandInv ==
  \A j \in Jobs : live[j] # Absent =>
    /\ live[j].agent = j /\ live[j].supervisor = j
    /\ live[j].told => cpc[j] \notin {"idle", "none"}

\* A status is backed by what a command left that the job may take for its own,
\* and an artifact that somebody goes by is one of those.
Backed(j, s) ==
  s \in {"done", "cancelled"} /\ job[j].command # "prepare" =>
    \E k \in Candidates(j) : Ended(j, k) /\ (s = "cancelled" => CancelledAs(j, k) = "cancelled")
Meant(j, k) == k \in Candidates(j) \cup {Absent}

\* Whoever has decided for an end has seen what it needs.
StatusInv ==
  \A j \in Jobs :
    /\ Backed(j, job[j].status) /\ Meant(j, job[j].found)
    /\ \A p \in {Worker(j), Canceller(j)} : writing[p] # Absent =>
         /\ writing[p].command = job[j].command
         /\ Backed(j, writing[p].status) /\ Meant(j, writing[p].found)
    /\ wpc[j] = "prepared" => job[j].command = "prepare"
    /\ Backed(j, wpc[j]) /\ Backed(j, cpc[j])
    /\ Meant(j, looked[j])
    /\ j \in printed => Left(j, j)

\* Before its command was started a job has left nothing, and nobody has looked
\* for it.
Early ==
  {"queued", "preflight", "stage", "down", "recover", "retire", "swap", "drop", "up", "unproved",
   "inspect", "clean", "commit", "exec"}
Fresh(r) == r.status = "preflighting" /\ ~r.host /\ ~r.group /\ r.found = Absent
EarlyInv ==
  \A j \in Jobs : wpc[j] \in Early =>
    /\ Fresh(job[j]) /\ (writing[Worker(j)] # Absent => Fresh(writing[Worker(j)]))
    /\ cpc[j] \in {"idle", "none"} /\ writing[Canceller(j)] = Absent
    /\ live[j] = Absent /\ looked[j] = Absent
    /\ artifact[j].verdict = Absent /\ artifact[j].batch = Absent

JobInv ==
  /\ ContainerTypes /\ JobTypes /\ LockInv
  /\ MaterialInv /\ BoxInv /\ MountsAreActive
  /\ IdsInv /\ CommandInv /\ StatusInv /\ EarlyInv

----
(* The steps. *)

LEMMA ActorsKnown == \A j \in Jobs : Worker(j) \in Actors /\ Canceller(j) \in Actors
BY DEF Actors

\* What a patch is about to write: the record it found but for its fields.
Fields == {"command", "status", "box", "host", "group", "found"}

LEMMA Patched ==
  ASSUME JobTypes, NEW j \in Jobs, NEW p \in {Worker(j), Canceller(j)}, NEW fields, Patch(p, j, fields),
         DOMAIN fields \subseteq Fields \ {"command"},
         "status" \in DOMAIN fields => fields["status"] \in Statuses,
         "box" \in DOMAIN fields => fields["box"] = given[j],
         "found" \in DOMAIN fields => fields["found"] \in Jobs,
         \A f \in {"host", "group"} : f \in DOMAIN fields => fields[f] \in BOOLEAN
  PROVE  \E r \in Record :
           /\ job' = job /\ writing' = [writing EXCEPT ![p] = r]
           /\ r.command = job[j].command
           /\ r.box \in {job[j].box, given[j]}
           /\ r.status = IF "status" \in DOMAIN fields THEN fields["status"] ELSE job[j].status
           /\ r.found = IF "found" \in DOMAIN fields THEN fields["found"] ELSE job[j].found
           /\ "host" \notin DOMAIN fields => r.host = job[j].host
           /\ "group" \notin DOMAIN fields => r.group = job[j].group
<1> DEFINE r == [f \in DOMAIN job[j] |-> IF f \in DOMAIN fields THEN fields[f] ELSE job[j][f]]
<1>1. job[j] \in Record
  BY DEF JobTypes
<1>2. DOMAIN job[j] = Fields
  BY <1>1 DEF Record, Fields
<1>3. /\ r.command = job[j].command
      /\ r.box \in {job[j].box, given[j]}
      /\ r.status = IF "status" \in DOMAIN fields THEN fields["status"] ELSE job[j].status
      /\ r.found = IF "found" \in DOMAIN fields THEN fields["found"] ELSE job[j].found
      /\ "host" \notin DOMAIN fields => r.host = job[j].host
      /\ "group" \notin DOMAIN fields => r.group = job[j].group
  BY <1>2 DEF Fields
<1>4. r.host \in BOOLEAN /\ r.group \in BOOLEAN
  BY <1>1, <1>2 DEF Record, Fields
<1>5. r \in Record
  <2>1. r.command \in {"run", "run-all", "prepare"} /\ r.status \in Statuses
    BY <1>1, <1>3 DEF Record
  <2>2. r.box \in Nat \cup {Absent} /\ r.found \in Jobs \cup {Absent}
    BY <1>1, <1>3 DEF Record, JobTypes
  <2>3. r = [command |-> r.command, status |-> r.status, box |-> r.box,
             host |-> r.host, group |-> r.group, found |-> r.found]
    BY <1>2 DEF Fields
  <2> HIDE DEF r
  <2> QED
    BY <1>4, <2>1, <2>2, <2>3 DEF Record
<1>6. job' = job /\ writing' = [writing EXCEPT ![p] = r]
  BY DEF Patch
<1> QED
  BY <1>3, <1>5, <1>6

LEMMA StatusPatched ==
  ASSUME JobTypes, NEW j \in Jobs, NEW p \in {Worker(j), Canceller(j)},
         NEW s \in Statuses, Patch(p, j, WithStatus(s))
  PROVE  \E r \in Record :
           /\ job' = job /\ writing' = [writing EXCEPT ![p] = r]
           /\ r.command = job[j].command /\ r.box \in {job[j].box, given[j]} /\ r.status = s
           /\ r.found = job[j].found /\ r.host = job[j].host /\ r.group = job[j].group
<1> DEFINE fields == WithStatus(s)
<1>1. DOMAIN fields = {"status"} /\ fields["status"] = s
  BY DEF WithStatus
<1>2. Patch(p, j, fields)
  OBVIOUS
<1> HIDE DEF fields
<1> QED
  BY <1>1, <1>2, Patched DEF Fields

\* What the steps of a job's two processes do with records: nothing, or the two
\* halves of an update, of which a death drops the second.
RecordStep(j) ==
  \/ UNCHANGED records
  \/ \E p \in {Worker(j), Canceller(j)}, r \in Record :
       /\ job' = job /\ writing' = [writing EXCEPT ![p] = r]
       /\ r.command = job[j].command /\ r.box \in {job[j].box, given[j]}
       /\ Backed(j, r.status) /\ Meant(j, r.found)
  \/ \E p \in {Worker(j), Canceller(j)} :
       /\ writing[p] # Absent
       /\ job' = [job EXCEPT ![j] = writing[p]] /\ writing' = [writing EXCEPT ![p] = Absent]
  \/ \E p \in Actors : job' = job /\ writing' = [writing EXCEPT ![p] = Absent]

LEMMA RecordTypes ==
  ASSUME JobTypes, NEW j \in Jobs, RecordStep(j)
  PROVE  job' \in [Jobs -> Record] /\ writing' \in [Actors -> Record \cup {Absent}]
BY ActorsKnown DEF RecordStep, JobTypes, records

LEMMA StatusWritten ==
  ASSUME JobTypes, StatusInv, NEW j \in Jobs, NEW p \in {Worker(j), Canceller(j)},
         NEW s \in Statuses, Patch(p, j, WithStatus(s)), Backed(j, s)
  PROVE  RecordStep(j)
<1>1. Meant(j, job[j].found)
  BY DEF StatusInv
<1> QED
  BY <1>1, StatusPatched DEF RecordStep

\* The other patches.
LEMMA FieldsWritten ==
  ASSUME JobTypes, StatusInv, NEW j \in Jobs, NEW p \in {Worker(j), Canceller(j)}, NEW b \in BOOLEAN,
         NEW s \in {job[j].status, "running"},
         \/ Patch(p, j, [box |-> given[j]]) \/ Patch(p, j, [group |-> b])
         \/ Patch(p, j, [status |-> s, host |-> b])
  PROVE  RecordStep(j)
<1>1. job[j].status \in Statuses /\ Backed(j, job[j].status) /\ Meant(j, job[j].found)
  BY DEF JobTypes, Record, StatusInv
<1>2. s \in Statuses /\ Backed(j, s)
  BY <1>1 DEF Statuses, Backed
<1>3. ASSUME NEW fields \in {[box |-> given[j]], [group |-> b], [status |-> s, host |-> b]}, Patch(p, j, fields)
      PROVE  RecordStep(j)
  <2>1. /\ DOMAIN fields \subseteq Fields \ {"command"} /\ "found" \notin DOMAIN fields
        /\ "status" \in DOMAIN fields => fields["status"] = s
        /\ "box" \in DOMAIN fields => fields["box"] = given[j]
        /\ \A f \in {"host", "group"} : f \in DOMAIN fields => fields[f] \in BOOLEAN
    BY <1>3 DEF Fields
  <2>2. \E r \in Record :
           /\ job' = job /\ writing' = [writing EXCEPT ![p] = r]
           /\ r.command = job[j].command
           /\ r.box \in {job[j].box, given[j]}
           /\ r.status = IF "status" \in DOMAIN fields THEN fields["status"] ELSE job[j].status
           /\ r.found = job[j].found
    BY <1>2, <1>3, <2>1, Patched
  <2> QED
    BY <1>1, <1>2, <2>1, <2>2 DEF RecordStep
<1> QED
  BY <1>3

LEMMA FoundWritten ==
  ASSUME JobTypes, StatusInv, NEW j \in Jobs, NEW p \in {Worker(j), Canceller(j)},
         NEW k \in Candidates(j), Patch(p, j, [found |-> k])
  PROVE  RecordStep(j)
<1> DEFINE fields == [found |-> k]
<1>1. DOMAIN fields = {"found"} /\ fields["found"] = k /\ k \in Jobs
  BY DEF Candidates
<1>2. Patch(p, j, fields)
  OBVIOUS
<1> HIDE DEF fields
<1>3. \E r \in Record :
        /\ job' = job /\ writing' = [writing EXCEPT ![p] = r]
        /\ r.command = job[j].command /\ r.box \in {job[j].box, given[j]}
        /\ r.status = job[j].status /\ r.found = k
  BY <1>1, <1>2, Patched DEF Fields
<1>4. Backed(j, job[j].status) /\ Meant(j, k)
  BY DEF StatusInv, Meant
<1> QED
  BY <1>3, <1>4 DEF RecordStep

\* What is looked up is one of those that the job may take.
LEMMA LookedUp ==
  ASSUME JobTypes, StatusInv, NEW j \in Jobs, NEW p \in {Worker(j), Canceller(j)},
         NEW k \in Jobs \cup {Absent}, Found(p, j, k)
  PROVE  RecordStep(j) /\ Meant(j, k)
<1>1. CASE job[j].found # Absent /\ k = job[j].found /\ UNCHANGED records
  BY <1>1 DEF StatusInv, RecordStep
<1>2. CASE job[j].found = Absent /\ k \in NewestLeft(j) /\ Patch(p, j, [found |-> k])
  BY <1>2, FoundWritten DEF NewestLeft, Meant
<1>3. CASE k = Absent /\ UNCHANGED records
  BY <1>3 DEF Meant, RecordStep
<1> QED
  BY <1>1, <1>2, <1>3 DEF Found

LEMMA PutWritten ==
  ASSUME NEW j \in Jobs, NEW p \in {Worker(j), Canceller(j)}, Put(p, j)
  PROVE  RecordStep(j)
BY DEF Put, RecordStep

----
(* The records: every step is one of the four. *)

LEMMA EndedIsBacked ==
  ASSUME NEW j \in Jobs, NEW k, Meant(j, k), Ended(j, k)
  PROVE  /\ Backed(j, "done") /\ Backed(j, CancelledAs(j, k))
         /\ CancelledAs(j, k) \in {"done", "cancelled"}
BY DEF Meant, Ended, CancelledAs, Backed

LEMMA DecidedIsBacked ==
  ASSUME StatusInv, NEW j \in Jobs
  PROVE  LiveStatus(j) \in Final /\ Backed(j, LiveStatus(j))
<1>1. Backed(j, job[j].status) /\ Meant(j, looked[j])
  BY DEF StatusInv
<1>2. Backed(j, "lost") /\ Backed(j, "failed")
  BY DEF Backed
<1>3. Ended(j, looked[j]) =>
        /\ Backed(j, "done") /\ Backed(j, CancelledAs(j, looked[j]))
        /\ CancelledAs(j, looked[j]) \in {"done", "cancelled"}
  BY <1>1, EndedIsBacked
<1>4. LiveStatus(j) \in {"done", "cancelled", "lost", "failed"}
  BY <1>3 DEF LiveStatus
<1>5. \/ LiveStatus(j) = job[j].status \/ LiveStatus(j) \in {"lost", "failed"}
      \/ Ended(j, looked[j]) /\ LiveStatus(j) \in {"done", CancelledAs(j, looked[j])}
  BY DEF LiveStatus
<1> QED
  BY <1>1, <1>2, <1>3, <1>4, <1>5 DEF Final

LEMMA WorkerRecords ==
  ASSUME JobTypes, StatusInv, NEW j \in Jobs, WorkerStep(j)
  PROVE  RecordStep(j)
<1> USE DEF Quiet
<1>1. CASE Lock(j) \/ Reconciles(j) \/ Exec(j) \/ Decide(j) \/ ReleaseLock(j)
  BY <1>1 DEF RecordStep, records, Lock, Exec, Decide, ReleaseLock, Reconciles, StageFor, DownBox,
              RecoverSlots, RetireActive, SwapStage, DropRetired, UpBox, Unproved, Inspect, Clean
<1>2. CASE Preflight(j)
  BY <1>2, StatusWritten DEF Preflight, Statuses, Backed
<1>3. CASE CommitEvidence(j)
  BY <1>3, FieldsWritten DEF CommitEvidence, RecordStep
<1>4. CASE Prepared(j)
  BY <1>4, StatusWritten DEF Prepared, Statuses, Final, StatusInv, Backed, At
<1>5. CASE Spawned(j)
  BY <1>5, FieldsWritten DEF Spawned
<1>6. CASE Poll(j)
  BY <1>6, FieldsWritten DEF Poll, RecordStep
<1>7. CASE Streams(j) \/ ReadsAll(j)
  <2>1. UNCHANGED records \/ (j \in printed /\ Patch(Worker(j), j, [found |-> j]))
    BY <1>7 DEF Streams, ReadsAll
  <2>2. j \in printed => j \in Candidates(j)
    BY DEF StatusInv, Candidates
  <2> QED
    BY <2>1, <2>2, FoundWritten DEF RecordStep
<1>8. CASE Await(j)
  <2>1. PICK k \in Jobs \cup {Absent} : Found(Worker(j), j, k)
    BY <1>8 DEF Await
  <2> QED
    BY <2>1, LookedUp
<1>9. CASE MarkTerminal(j)
  <2>1. PICK s \in Final : At(j, s) /\ Patch(Worker(j), j, WithStatus(s))
    BY <1>9 DEF MarkTerminal
  <2>2. s \in Statuses /\ Backed(j, s)
    BY <2>1 DEF Statuses, StatusInv, At
  <2> QED
    BY <2>1, <2>2, StatusWritten
<1>10. CASE Postflight(j)
  BY <1>10, StatusWritten DEF Postflight, Statuses, Final, RecordStep, Backed
<1>11. CASE Failing(j)
  <2>1. job[j].status \in Statuses /\ Backed(j, job[j].status) /\ Backed(j, "failed")
    BY DEF JobTypes, Record, StatusInv, Backed
  <2>2. PICK s \in {job[j].status, "failed"} : Patch(Worker(j), j, WithStatus(s))
    BY <1>11 DEF Failing, Unless
  <2>3. s \in Statuses /\ Backed(j, s)
    BY <2>1, <2>2 DEF Statuses, Final
  <2> QED
    BY <2>2, <2>3, StatusWritten
<1>12. CASE WorkerPuts(j)
  BY <1>12, PutWritten DEF WorkerPuts
<1> QED
  BY <1>1, <1>2, <1>3, <1>4, <1>5, <1>6, <1>7, <1>8, <1>9, <1>10, <1>11, <1>12 DEF WorkerStep, Supervises

LEMMA CancelRecords ==
  ASSUME JobTypes, StatusInv, NEW j \in Jobs, CancelStep(j)
  PROVE  RecordStep(j)
<1>1. CASE CancelReads(j) \/ SignalGroup(j) \/ SignalHost(j)
  BY <1>1 DEF RecordStep, records, CancelReads, SignalGroup, SignalHost
<1>2. CASE Refused(j) \/ Stopping(j) \/ Late(j)
  <2>1. Backed(j, "running") /\ Backed(j, "stopping") /\ {"running", "stopping"} \subseteq Statuses
    BY DEF Backed, Statuses
  <2>2. UNCHANGED records \/ \E s \in {"running", "stopping"} : Patch(Canceller(j), j, WithStatus(s))
    BY <1>2 DEF Refused, Stopping, Late
  <2> QED
    BY <2>1, <2>2, StatusWritten DEF RecordStep
<1>3. CASE Grace(j) \/ Settles(j)
  <2>1. PICK k \in Jobs \cup {Absent} : Found(Canceller(j), j, k)
    BY <1>3 DEF Grace, Settles
  <2> QED
    BY <2>1, LookedUp
<1>4. CASE CancelFinal(j)
  <2>1. PICK s \in {"cancelled", "done", "lost"} : Cancels(j, s) /\ Patch(Canceller(j), j, WithStatus(s))
    BY <1>4 DEF CancelFinal
  <2>2. s \in Statuses /\ Backed(j, s)
    BY <2>1 DEF Statuses, Final, StatusInv, Cancels
  <2> QED
    BY <2>1, <2>2, StatusWritten
<1>5. CASE CancelPuts(j)
  BY <1>5, PutWritten DEF CancelPuts
<1> QED
  BY <1>1, <1>2, <1>3, <1>4, <1>5 DEF CancelStep

LEMMA HostRecords ==
  ASSUME NEW j \in Jobs, NEW p \in Actors,
         CommandStep(j) \/ Vanishes(p, j) \/ Repair
  PROVE  RecordStep(j)
BY DEF CommandStep, WritesPid, Batches, Concludes, Exits, Vanishes, Repair, Elsewhere, RecordStep, records

----
(* The types. *)

\* A container takes along what ran in it, and nothing else.
LEMMA KilledFrame ==
  ASSUME Killed
  PROVE  /\ UNCHANGED <<client, leavings, times>>
         /\ \A k \in Jobs : live'[k] \in {live[k], Absent}
         /\ JobTypes => live' \in [Jobs -> {Absent} \cup Command]
<1>1. UNCHANGED <<client, leavings, times>>
  BY DEF Killed
<1>2. \A k \in Jobs : live'[k] \in {live[k], Absent}
  BY DEF Killed
<1>3. live' = [k \in Jobs |-> live'[k]]
  BY DEF Killed
<1>4. JobTypes => \A k \in Jobs : live[k] \in {Absent} \cup Command
  BY DEF JobTypes
<1>5. JobTypes => \A k \in Jobs : live'[k] \in {Absent} \cup Command
  BY <1>2, <1>4
<1> QED
  BY <1>1, <1>2, <1>3, <1>5

\* The steps that reconcile the container leave records alone, and of the commands
\* everything but what went with a container.
LEMMA ReconcilesFrame ==
  ASSUME NEW j \in Jobs, Reconciles(j)
  PROVE  /\ UNCHANGED <<records, cpc, client, leavings, times, runLock, looked>>
         /\ \A k \in Jobs : live'[k] \in {live[k], Absent}
         /\ JobTypes => live' \in [Jobs -> {Absent} \cup Command]
<1>1. UNCHANGED <<records, cpc, runLock, looked>> /\ (Killed \/ UNCHANGED commands)
  BY DEF Reconciles, StageFor, DownBox, RecoverSlots, RetireActive, SwapStage, DropRetired, UpBox,
         Unproved, Inspect, Clean, Quiet, records
<1>2. CASE Killed
  BY <1>1, <1>2, KilledFrame
<1>3. CASE UNCHANGED commands
  <2>1. UNCHANGED <<live, client, leavings, times>>
    BY <1>3 DEF commands
  <2> QED
    BY <1>1, <2>1 DEF JobTypes
<1> QED
  BY <1>1, <1>2, <1>3

LEMMA ReconcilesTypes ==
  ASSUME JobTypes, ContainerTypes, NEW j \in Jobs, Reconciles(j)
  PROVE  JobTypes' /\ ContainerTypes'
<1> DEFINE Moved ==
      /\ wpc' \in [Jobs -> WorkerPlaces] /\ plan' \in [Jobs -> Jobs \cup {Empty}]
      /\ given' \in [Jobs -> Nat \cup {Absent}]
      /\ ContainerTypes'
<1>0. /\ UNCHANGED <<job, writing, cpc, client, artifact, printed, turn, tooOld, runLock, looked>>
      /\ live' \in [Jobs -> {Absent} \cup Command]
  BY ReconcilesFrame DEF records, leavings, times
<1>a. Moved
  <2> USE DEF JobTypes, ContainerTypes, Goto, GoesWrong, Mounts, Slots, WorkerPlaces, containerVars
  <2>1. StageFor(j) => Moved
    BY DEF StageFor, StageMaterial, StageRefused
  <2>2. DownBox(j) => Moved
    BY DEF DownBox, Down, Discard
  <2>3. RecoverSlots(j) => Moved
    BY DEF RecoverSlots, Recover, Discard
  <2>4. RetireActive(j) => Moved
    BY DEF RetireActive, Retire
  <2>5. SwapStage(j) => Moved
    BY DEF SwapStage, Swap, SwapFails
  <2>6. DropRetired(j) => Moved
    BY DEF DropRetired, Drop
  <2>7. UpBox(j) => Moved
    BY DEF UpBox, Up
  <2>8. Unproved(j) => Moved
    BY DEF Unproved, RetireAll
  <2>9. Inspect(j) => Moved
    BY DEF Inspect
  <2>10. Clean(j) => Moved
    BY DEF Clean, CleanUp, Remove, RetireAll
  <2> QED
    BY <2>1, <2>2, <2>3, <2>4, <2>5, <2>6, <2>7, <2>8, <2>9, <2>10 DEF Reconciles
<1> QED
  BY <1>0, <1>a DEF JobTypes

LEMMA WorkerTypes ==
  ASSUME JobTypes, ContainerTypes, StatusInv, NEW j \in Jobs, WorkerStep(j)
  PROVE  JobTypes' /\ ContainerTypes'
<1>1. CASE Reconciles(j)
  BY <1>1, ReconcilesTypes
<1>2. job' \in [Jobs -> Record] /\ writing' \in [Actors -> Record \cup {Absent}]
  BY WorkerRecords, RecordTypes
<1> USE DEF JobTypes, ContainerTypes, Goto, GoesWrong, WorkerPlaces, Quiet, commands, leavings, times, workers,
        containerVars
<1>3. CASE Lock(j) \/ Preflight(j) \/ CommitEvidence(j) \/ Prepared(j)
  BY <1>2, <1>3 DEF Lock, Preflight, CommitEvidence, Prepared, records
<1>4. CASE Spawned(j) \/ Poll(j) \/ Streams(j) \/ ReadsAll(j) \/ Await(j)
  BY <1>2, <1>4 DEF Spawned, Poll, Streams, ReadsAll, Await, records
<1>5. CASE Exec(j)
  <2>1. box # Absent => box.id \in Nat /\ box.mounts \in Mounts /\ slots["active"] \in Mounts
    BY DEF Slots
  <2> DEFINE c == [box |-> box.id, agent |-> box.mounts, supervisor |-> slots["active"],
                   named |-> FALSE, told |-> FALSE]
  <2>2. Bound(j) => c \in Command
    BY <2>1 DEF Command, Bound
  <2>3. (Bound(j) /\ live' = [live EXCEPT ![j] = c]) \/ live' = live
    BY <1>5 DEF Exec
  <2>4. turn' \in [Jobs -> Nat] /\ tooOld' \in [Jobs -> Nat]
    BY <1>5, <2>1 DEF Exec, Bound
  <2> HIDE DEF c
  <2>5. live' \in [Jobs -> {Absent} \cup Command]
    BY <2>2, <2>3
  <2> QED
    BY <1>2, <1>5, <2>4, <2>5 DEF Exec
<1>6. CASE Decide(j)
  BY <1>2, <1>6, DecidedIsBacked DEF Decide, Final
<1>7. CASE MarkTerminal(j) \/ Postflight(j) \/ Failing(j) \/ WorkerPuts(j)
  BY <1>2, <1>7 DEF MarkTerminal, Postflight, Failing, WorkerPuts
<1>8. CASE ReleaseLock(j)
  BY <1>2, <1>8 DEF ReleaseLock, Forgets
<1> QED
  BY <1>1, <1>3, <1>4, <1>5, <1>6, <1>7, <1>8 DEF WorkerStep, Supervises

LEMMA OtherTypes ==
  ASSUME JobTypes, ContainerTypes, StatusInv, NEW j \in Jobs, NEW p \in Actors,
         CancelStep(j) \/ CommandStep(j) \/ Vanishes(p, j) \/ Repair
  PROVE  JobTypes' /\ ContainerTypes'
<1>1. job' \in [Jobs -> Record] /\ writing' \in [Actors -> Record \cup {Absent}]
  BY CancelRecords, HostRecords, RecordTypes
<1> USE DEF JobTypes, ContainerTypes, CancelPlaces, Then, CancelFrame, Elsewhere, commands, leavings, times, workers,
        containerVars
<1>2. CASE CancelReads(j) \/ SignalHost(j)
  BY <1>1, <1>2 DEF CancelReads, SignalHost
<1>3. CASE SignalGroup(j)
  <2>1. \A k \in Jobs : Running(k) => [live[k] EXCEPT !.told = TRUE] \in Command
    <3> TAKE k \in Jobs
    <3>1. Running(k) => live[k] \in Command
      BY DEF Running
    <3> QED
      BY <3>1 DEF Command
  <2>2. live' \in [Jobs -> {Absent} \cup Command]
    BY <1>3, <2>1 DEF SignalGroup, Told, SignalTarget
  <2> QED
    BY <1>1, <1>3, <2>2 DEF SignalGroup
<1>4. CASE Refused(j) \/ Stopping(j) \/ Grace(j) \/ Late(j) \/ CancelFinal(j) \/ CancelPuts(j)
  BY <1>1, <1>4 DEF Refused, Stopping, Grace, Late, CancelFinal, CancelPuts
<1>5. CASE Settles(j)
  BY <1>1, <1>5 DEF Settles, CancelledAs
<1>6. CASE WritesPid(j)
  <2>1. Running(j) => [live[j] EXCEPT !.named = TRUE] \in Command
    <3>1. Running(j) => live[j] \in Command
      BY DEF Running
    <3> QED
      BY <3>1 DEF Command
  <2> QED
    BY <1>1, <1>6, <2>1 DEF WritesPid
<1>7. CASE Batches(j) \/ Concludes(j)
  <2>1. \A v \in {Absent, "judged", "stopped"}, b \in {Absent, "open", "finished"} :
          /\ [artifact[j] EXCEPT !.verdict = v] \in Remains
          /\ [artifact[j] EXCEPT !.batch = b] \in Remains
    BY DEF Remains
  <2>2. artifact' \in [Jobs -> Remains]
    BY <1>7, <2>1 DEF Batches, Concludes
  <2>3. printed' \subseteq Jobs
    BY <1>7 DEF Batches, Concludes, Prints
  <2> QED
    BY <1>1, <1>7, <2>2, <2>3 DEF Batches, Concludes
<1>8. CASE Exits(j)
  BY <1>1, <1>8 DEF Exits
<1>9. CASE Vanishes(p, j)
  BY <1>1, <1>9 DEF Vanishes, GoesWrong, Forgets, WorkerPlaces
<1>10. CASE Repair
  <2>1. live' \in [Jobs -> {Absent} \cup Command] /\ UNCHANGED <<client, leavings, times>>
    BY <1>10, KilledFrame DEF Repair
  <2> QED
    BY <1>1, <1>10, <2>1 DEF Repair, Mounts
<1> QED
  BY <1>2, <1>3, <1>4, <1>5, <1>6, <1>7, <1>8, <1>9, <1>10 DEF CancelStep, CommandStep

----
(* The statuses. *)

\* What a command left stays, only j's own adds to it, and only the start of j's
\* command, which has left nothing yet, changes what counts for whom.
Begins(j) ==
  /\ artifact[j].verdict = Absent /\ artifact[j].batch = Absent
  /\ Fresh(job[j]) /\ (writing[Worker(j)] # Absent => Fresh(writing[Worker(j)]))
  /\ writing[Canceller(j)] = Absent /\ cpc[j] \in {"idle", "none"} /\ looked[j] = Absent
  /\ UNCHANGED <<records, cpc, looked, leavings>>
  /\ wpc'[j] = "spawned"
LeftStep(j) ==
  /\ \A k \in Jobs :
       /\ artifact[k].verdict # Absent => artifact'[k].verdict = artifact[k].verdict
       /\ artifact[k].batch # Absent => artifact'[k].batch \in {artifact[k].batch, "finished"}
  /\ \A k \in Jobs : k # j => artifact'[k] = artifact[k] /\ turn'[k] = turn[k] /\ tooOld'[k] = tooOld[k]
  /\ (turn'[j] = turn[j] /\ tooOld'[j] = tooOld[j]) \/ Begins(j)

\* A step of j's that backs whatever it comes to stand for.
BackedStep(j) ==
  /\ LeftStep(j)
  /\ \A k \in Jobs : k # j => wpc'[k] = wpc[k] /\ cpc'[k] = cpc[k] /\ looked'[k] = looked[k]
  /\ \/ wpc'[j] = wpc[j]
     \/ (wpc'[j] = "prepared" => job[j].command = "prepare") /\ Backed(j, wpc'[j])
  /\ cpc'[j] = cpc[j] \/ Backed(j, cpc'[j])
  /\ looked'[j] = looked[j] \/ Meant(j, looked'[j])
  /\ \A k \in printed' : k \in printed \/ Left(k, k)'

\* What a job could take it can still take.
LEMMA BackingKept ==
  ASSUME JobTypes, NEW j \in Jobs, LeftStep(j), NEW k \in Jobs,
         \A l \in Jobs : job'[l].command = job[l].command,
         k # j \/ (turn'[j] = turn[j] /\ tooOld'[j] = tooOld[j])
  PROVE  /\ \A l \in Jobs : Left(l, l) => Left(l, l)'
         /\ \A s : Backed(k, s) => Backed(k, s)'
         /\ \A l : Meant(k, l) => Meant(k, l)'
<1> USE JobAssumption
<1>1. \A l, m \in Jobs : Left(l, m) => Left(l, m)'
  BY DEF Left, LeftStep
<1>2. \A l \in Jobs : Left(k, l) => turn'[l] = turn[l]
  BY DEF Left, LeftStep, Begins
<1>3. tooOld'[k] = tooOld[k]
  BY DEF LeftStep
<1>4. \A l \in Candidates(k) : l \in Candidates(k)'
  BY <1>1, <1>2, <1>3 DEF Candidates
<1>5. \A l \in Candidates(k) : l \in Jobs /\ Left(k, l)
  BY DEF Candidates
<1>6. \A l \in Candidates(k) : Ended(k, l) => Ended(k, l)'
  BY <1>5 DEF Ended, LeftStep
<1>7. \A l \in Candidates(k) :
        Ended(k, l) /\ CancelledAs(k, l) = "cancelled" => CancelledAs(k, l)' = "cancelled"
  BY <1>5 DEF Ended, LeftStep, CancelledAs
<1>8. job'[k].command = job[k].command
  OBVIOUS
<1>9. ASSUME NEW s, Backed(k, s) PROVE Backed(k, s)'
  <2> SUFFICES ASSUME s \in {"done", "cancelled"}, job[k].command # "prepare" PROVE Backed(k, s)'
    BY <1>8 DEF Backed
  <2>1. PICK l \in Candidates(k) : Ended(k, l) /\ (s = "cancelled" => CancelledAs(k, l) = "cancelled")
    BY <1>9 DEF Backed
  <2>2. l \in Candidates(k)' /\ Ended(k, l)' /\ (s = "cancelled" => CancelledAs(k, l)' = "cancelled")
    BY <2>1, <1>4, <1>6, <1>7
  <2> QED
    BY <2>2 DEF Backed
<1>10. \A l : Meant(k, l) => Meant(k, l)'
  BY <1>4 DEF Meant
<1> QED
  BY <1>1, <1>9, <1>10

LEMMA StatusKept ==
  ASSUME JobTypes, StatusInv, NEW j \in Jobs, RecordStep(j), BackedStep(j)
  PROVE  StatusInv' /\ \A k \in Jobs : job'[k].command = job[k].command
<1>1. \A k \in Jobs : Worker(k) \in Actors /\ Canceller(k) \in Actors
  BY ActorsKnown
<1>2. \A k \in Jobs : k # j => {Worker(k), Canceller(k)} \cap {Worker(j), Canceller(j)} = {}
  BY DEF Worker, Canceller
<1>3. /\ \A k \in Jobs : k # j => job'[k] = job[k]
      /\ job'[j].command = job[j].command
      /\ Backed(j, job'[j].status) /\ Meant(j, job'[j].found)
  BY <1>1 DEF RecordStep, records, StatusInv, JobTypes
<1>4. ASSUME NEW k \in Jobs, NEW p \in {Worker(k), Canceller(k)}, writing'[p] # Absent
      PROVE  /\ writing'[p].command = job[k].command
             /\ Backed(k, writing'[p].status) /\ Meant(k, writing'[p].found)
  <2>1. p \in Actors
    BY <1>1
  <2>2. \/ writing'[p] = writing[p]
        \/ /\ k = j /\ writing'[p].command = job[k].command
           /\ Backed(k, writing'[p].status) /\ Meant(k, writing'[p].found)
    BY <1>1, <1>2, <1>4, <2>1 DEF RecordStep, records, JobTypes
  <2> QED
    BY <1>4, <2>2 DEF StatusInv
<1>5. \A k \in Jobs : job'[k].command = job[k].command
  BY <1>3
<1>6. LeftStep(j)
  BY DEF BackedStep
\* Of the others, and of j unless its command is started.
<1>7. ASSUME NEW k \in Jobs, k # j \/ (turn'[j] = turn[j] /\ tooOld'[j] = tooOld[j])
      PROVE  /\ Backed(k, job[k].status)' /\ Meant(k, job[k].found)'
             /\ \A p \in {Worker(k), Canceller(k)} : writing'[p] # Absent =>
                  /\ writing'[p].command = job'[k].command
                  /\ Backed(k, writing[p].status)' /\ Meant(k, writing[p].found)'
             /\ wpc'[k] = "prepared" => job'[k].command = "prepare"
             /\ Backed(k, wpc[k])' /\ Backed(k, cpc[k])'
             /\ Meant(k, looked[k])'
  <2>1. /\ Backed(k, job'[k].status) /\ Meant(k, job'[k].found)
        /\ wpc'[k] = "prepared" => job[k].command = "prepare"
        /\ Backed(k, wpc'[k]) /\ Backed(k, cpc'[k]) /\ Meant(k, looked'[k])
    BY <1>3 DEF StatusInv, BackedStep
  <2>2. /\ \A s : Backed(k, s) => Backed(k, s)'
        /\ \A l : Meant(k, l) => Meant(k, l)'
    BY <1>5, <1>6, <1>7, BackingKept
  <2>3. \A p \in {Worker(k), Canceller(k)} : writing'[p] # Absent =>
          /\ writing'[p].command = job[k].command
          /\ Backed(k, writing'[p].status) /\ Meant(k, writing'[p].found)
    BY <1>4
  <2> HIDE DEF Backed, Meant
  <2> QED
    BY <1>5, <2>1, <2>2, <2>3
<1>8. ASSUME Begins(j)
      PROVE  /\ Backed(j, job[j].status)' /\ Meant(j, job[j].found)'
             /\ \A p \in {Worker(j), Canceller(j)} : writing'[p] # Absent =>
                  /\ writing'[p].command = job'[j].command
                  /\ Backed(j, writing[p].status)' /\ Meant(j, writing[p].found)'
             /\ wpc'[j] = "prepared" => job'[j].command = "prepare"
             /\ Backed(j, wpc[j])' /\ Backed(j, cpc[j])'
             /\ Meant(j, looked[j])'
  <2>1. /\ job'[j].status = "preflighting" /\ job'[j].found = Absent
        /\ writing'[Canceller(j)] = Absent
        /\ writing'[Worker(j)] # Absent =>
             writing'[Worker(j)].status = "preflighting" /\ writing'[Worker(j)].found = Absent
        /\ wpc'[j] = "spawned" /\ cpc'[j] \in {"idle", "none"} /\ looked'[j] = Absent
    BY <1>8 DEF Begins, Fresh, records
  <2>2. writing'[Worker(j)] # Absent => writing'[Worker(j)].command = job'[j].command
    BY <1>4, <1>5
  <2> QED
    BY <2>1, <2>2 DEF Backed, Meant
<1>9. \A k \in printed' : k \in Jobs => Left(k, k)'
  <2> SUFFICES ASSUME NEW k \in printed', k \in Jobs PROVE Left(k, k)'
    OBVIOUS
  <2>1. CASE k \in printed
    BY <1>5, <1>6, <2>1, JobAssumption DEF StatusInv, Left, LeftStep
  <2>2. CASE k \notin printed
    BY <2>2 DEF BackedStep
  <2> QED
    BY <2>1, <2>2
<1>10. ASSUME NEW k \in Jobs
       PROVE  /\ Backed(k, job[k].status)' /\ Meant(k, job[k].found)'
              /\ \A p \in {Worker(k), Canceller(k)} : writing'[p] # Absent =>
                   /\ writing'[p].command = job'[k].command
                   /\ Backed(k, writing[p].status)' /\ Meant(k, writing[p].found)'
              /\ wpc'[k] = "prepared" => job'[k].command = "prepare"
              /\ Backed(k, wpc[k])' /\ Backed(k, cpc[k])'
              /\ Meant(k, looked[k])'
  <2>1. \/ k # j \/ (turn'[j] = turn[j] /\ tooOld'[j] = tooOld[j])
        \/ k = j /\ Begins(j)
    BY <1>6 DEF LeftStep
  <2> QED
    BY <1>7, <1>8, <2>1
<1> QED
  BY <1>5, <1>9, <1>10 DEF StatusInv

LEMMA WorkerBacks ==
  ASSUME JobTypes, StatusInv, EarlyInv, NEW j \in Jobs, WorkerStep(j)
  PROVE  BackedStep(j)
<1> USE DEF BackedStep
<1>0. ASSUME UNCHANGED <<leavings, times>> PROVE LeftStep(j) /\ printed' = printed
  BY <1>0 DEF leavings, times, LeftStep
<1>1. CASE Reconciles(j)
  <2>1. \E x \in WorkerPlaces \ ({"prepared"} \cup Final) : wpc' = [wpc EXCEPT ![j] = x]
    BY <1>1 DEF WorkerPlaces, Final, Goto, GoesWrong, Reconciles, StageFor, DownBox, RecoverSlots, RetireActive,
                SwapStage, DropRetired, UpBox, Unproved, Inspect, Clean
  <2>2. UNCHANGED <<cpc, looked>> /\ LeftStep(j) /\ printed' = printed
    BY <1>0, <1>1, ReconcilesFrame
  <2>3. /\ \A k \in Jobs : k # j => wpc'[k] = wpc[k]
        /\ wpc'[j] \notin {"prepared"} \cup Final
    BY <2>1 DEF JobTypes
  <2> QED
    BY <2>2, <2>3 DEF Backed, Final
<1>2. CASE Exec(j)
  <2>1. /\ UNCHANGED <<records, cpc, looked, leavings>> /\ wpc[j] = "exec"
        /\ \A k \in Jobs : k # j => wpc'[k] = wpc[k] /\ turn'[k] = turn[k] /\ tooOld'[k] = tooOld[k]
        /\ \/ wpc'[j] = "spawned"
           \/ wpc'[j] = "failing" /\ UNCHANGED times
    BY <1>2 DEF Exec, At, Goto, JobTypes, times
  <2>2. wpc'[j] = "spawned" => Begins(j)
    BY <2>1 DEF EarlyInv, Early, Begins
  <2>3. LeftStep(j) /\ printed' = printed
    BY <2>1, <2>2 DEF LeftStep, leavings, times
  <2> QED
    BY <2>1, <2>3 DEF Backed
<1>3. CASE ~Reconciles(j) /\ ~Exec(j)
  <2>1. LeftStep(j) /\ printed' \subseteq printed
    <3>1. UNCHANGED <<artifact, times>> /\ printed' \subseteq printed
      BY <1>3 DEF WorkerStep, Supervises, Lock, Preflight, CommitEvidence, Prepared, Spawned, Poll, Streams,
                  ReadsAll, Await, Decide, MarkTerminal, Postflight, Failing, ReleaseLock, WorkerPuts, Quiet,
                  commands, leavings
    <3> QED
      BY <3>1 DEF LeftStep, times
  <2>2. cpc' = cpc
    BY <1>3 DEF WorkerStep, Supervises, Lock, Preflight, CommitEvidence, Prepared, Spawned, Poll, Streams,
                ReadsAll, Await, Decide, MarkTerminal, Postflight, Failing, ReleaseLock, WorkerPuts, Quiet
  <2> DEFINE Steady ==
        /\ \A k \in Jobs : k # j => wpc'[k] = wpc[k] /\ looked'[k] = looked[k]
        /\ \/ wpc'[j] = wpc[j]
           \/ (wpc'[j] = "prepared" => job[j].command = "prepare") /\ Backed(j, wpc'[j])
        /\ looked'[j] = looked[j] \/ Meant(j, looked'[j])
  <2> USE DEF Goto, GoesWrong, workers, JobTypes
  <2>3. ASSUME Lock(j) \/ Preflight(j) \/ CommitEvidence(j) \/ Prepared(j) PROVE Steady
    BY <2>3 DEF Lock, Preflight, CommitEvidence, Prepared, Backed
  <2>4. ASSUME Spawned(j) \/ Poll(j) \/ Streams(j) \/ ReadsAll(j) PROVE Steady
    BY <2>4 DEF Spawned, Poll, Streams, ReadsAll, Backed
  <2>5. ASSUME Await(j) PROVE Steady
    <3>1. PICK k \in Jobs \cup {Absent} :
            /\ Found(Worker(j), j, k)
            /\ \/ looked' = [looked EXCEPT ![j] = k] /\ Goto(j, "decide")
               \/ Goto(j, "await") /\ UNCHANGED looked
      BY <2>5 DEF Await
    <3>2. Meant(j, k)
      BY <3>1, LookedUp
    <3> QED
      BY <3>1, <3>2 DEF Backed
  <2>6. ASSUME Decide(j) PROVE Steady
    <3>1. /\ \E x \in {"failed", LiveStatus(j), "postflight"} : wpc' = [wpc EXCEPT ![j] = x]
          /\ looked' = [looked EXCEPT ![j] = Absent]
      BY <2>6 DEF Decide
    <3>2. Backed(j, "failed") /\ Backed(j, "postflight") /\ Backed(j, LiveStatus(j)) /\ LiveStatus(j) # "prepared"
      BY DecidedIsBacked DEF Backed, Final
    <3> QED
      BY <3>1, <3>2 DEF Meant
  <2>7. ASSUME MarkTerminal(j) \/ Postflight(j) \/ Failing(j) \/ ReleaseLock(j) \/ WorkerPuts(j) PROVE Steady
    BY <2>7 DEF MarkTerminal, Postflight, Failing, ReleaseLock, Forgets, WorkerPuts, Backed, Meant
  <2>8. Steady
    BY <1>3, <2>3, <2>4, <2>5, <2>6, <2>7 DEF WorkerStep, Supervises
  <2> QED
    BY <2>1, <2>2, <2>8
<1> QED
  BY <1>1, <1>2, <1>3

LEMMA OthersBack ==
  ASSUME JobTypes, StatusInv, NEW j \in Jobs, NEW p \in Actors,
         CancelStep(j) \/ CommandStep(j) \/ Vanishes(p, j) \/ Repair
  PROVE  BackedStep(j)
<1> USE DEF Then, CancelFrame, leavings, times, commands, workers, JobTypes, BackedStep, LeftStep
<1>1. CASE CancelReads(j) \/ SignalGroup(j) \/ SignalHost(j) \/ Refused(j)
  BY <1>1 DEF CancelReads, SignalGroup, SignalHost, Refused, Backed
<1>2. CASE Stopping(j) \/ Grace(j) \/ Late(j) \/ CancelFinal(j) \/ CancelPuts(j)
  BY <1>2 DEF Stopping, Grace, Late, CancelFinal, CancelPuts, Backed
<1>3. CASE Settles(j)
  <2>1. PICK k \in Jobs \cup {Absent} :
          /\ Found(Canceller(j), j, k)
          /\ cpc' = [cpc EXCEPT ![j] = IF Ended(j, k) THEN CancelledAs(j, k) ELSE "lost"]
    BY <1>3 DEF Settles
  <2>2. Meant(j, k) /\ Backed(j, "lost")
    BY <2>1, LookedUp DEF Backed
  <2>3. Ended(j, k) => Backed(j, CancelledAs(j, k))
    BY <2>2, EndedIsBacked
  <2> QED
    BY <1>3, <2>1, <2>2, <2>3 DEF Settles
<1>4. CASE WritesPid(j) \/ Exits(j)
  BY <1>4 DEF WritesPid, Exits, Elsewhere
<1>5. CASE Batches(j) \/ Concludes(j)
  <2>1. UNCHANGED <<wpc, cpc, looked, turn, tooOld, job>>
    BY <1>5 DEF Batches, Concludes, Elsewhere, records
  <2>2. artifact[j] \in Remains
    OBVIOUS
  <2>3. \/ artifact[j].batch = Absent /\ artifact' = [artifact EXCEPT ![j].batch = "open"]
        \/ artifact[j].batch = "open" /\ artifact' = [artifact EXCEPT ![j].batch = "finished"]
        \/ /\ artifact[j].verdict = Absent
           /\ \E v \in {"judged", "stopped"} : artifact' = [artifact EXCEPT ![j].verdict = v]
    BY <1>5 DEF Batches, Concludes
  <2>4. LeftStep(j)
    <3>1. artifact' = [artifact EXCEPT ![j] = artifact'[j]]
      BY <2>3
    <3>2. /\ artifact[j].verdict # Absent => artifact'[j].verdict = artifact[j].verdict
          /\ artifact[j].batch # Absent => artifact'[j].batch \in {artifact[j].batch, "finished"}
      <4>1. CASE \E b \in {"open", "finished"} :
                   /\ artifact' = [artifact EXCEPT ![j].batch = b]
                   /\ b = "open" => artifact[j].batch = Absent
        BY <2>2, <4>1 DEF Remains
      <4>2. CASE /\ artifact[j].verdict = Absent
                 /\ \E v \in {"judged", "stopped"} : artifact' = [artifact EXCEPT ![j].verdict = v]
        BY <2>2, <4>2 DEF Remains
      <4> QED
        BY <2>3, <4>1, <4>2
    <3>3. \A k \in Jobs : k # j => artifact'[k] = artifact[k]
      BY <3>1
    <3> QED
      BY <2>1, <3>2, <3>3
  <2>5. printed' = printed \/ (printed' = printed \cup {j} /\ Left(j, j)')
    <3>1. CASE Batches(j)
      BY <2>1, <2>2, <3>1, JobAssumption DEF Batches, Prints, Left, Remains
    <3>2. CASE Concludes(j)
      BY <2>1, <2>2, <3>2, JobAssumption DEF Concludes, Prints, Left, Remains
    <3> QED
      BY <1>5, <3>1, <3>2
  <2> QED
    BY <2>1, <2>4, <2>5
<1>6. CASE Vanishes(p, j)
  BY <1>6 DEF Vanishes, GoesWrong, Forgets, Backed, Meant
<1>7. CASE Repair
  BY <1>7, KilledFrame DEF Repair
<1> QED
  BY <1>1, <1>2, <1>3, <1>4, <1>5, <1>6, <1>7 DEF CancelStep, CommandStep

----
(* The ids. *)

\* A step of j's that learns no id, or the next one that docker gives out.
LearningStep(j) ==
  /\ boxes' \in Nat /\ boxes <= boxes'
  /\ \A k \in Jobs : \/ given'[k] \in {given[k], Absent}
                     \/ k = j /\ given'[k] = boxes + 1 /\ boxes' = boxes + 1
  /\ \A k \in Jobs : live'[k] # Absent =>
       \/ live[k] # Absent /\ live'[k].box = live[k].box
       \/ k = j /\ live'[k].box = given[k]

LEMMA IdsKept ==
  ASSUME JobTypes, ContainerTypes, IdsInv, NEW j \in Jobs, RecordStep(j), LearningStep(j)
  PROVE  IdsInv'
<1>1. \A k \in Jobs : Worker(k) \in Actors /\ Canceller(k) \in Actors
  BY ActorsKnown
<1>2. \A k \in Jobs : k # j => {Worker(k), Canceller(k)} \cap {Worker(j), Canceller(j)} = {}
  BY DEF Worker, Canceller
<1>3. ASSUME NEW k \in Jobs, NEW i \in Nat, job'[k].box = i
      PROVE  Knows(k, i)
  BY <1>1, <1>3 DEF RecordStep, records, JobTypes, Knows
<1>4. ASSUME NEW k \in Jobs, NEW i \in Nat, NEW p \in {Worker(k), Canceller(k)},
             writing'[p] # Absent, writing'[p].box = i
      PROVE  Knows(k, i)
  <2>1. p \in Actors
    BY <1>1
  <2>2. writing'[p] = writing[p] \/ (k = j /\ writing'[p].box \in {job[k].box, given[k]})
    BY <1>1, <1>2, <1>4, <2>1 DEF RecordStep, records, JobTypes
  <2> QED
    BY <1>4, <2>2 DEF Knows
<1>5. ASSUME NEW k \in Jobs, NEW i \in Nat, live'[k] # Absent, live'[k].box = i
      PROVE  Knows(k, i)
  BY <1>5 DEF LearningStep, Knows
<1>6. ASSUME NEW k \in Jobs, NEW i \in Nat, Knows(k, i)'
      PROVE  Knows(k, i) \/ (k = j /\ i = boxes + 1 /\ boxes' = boxes + 1)
  <2>1. CASE given'[k] = i
    BY <2>1, JobAssumption DEF LearningStep, Knows
  <2> QED
    BY <1>3, <1>4, <1>5, <1>6, <2>1 DEF Knows
<1>7. ASSUME NEW i \in Nat, NEW k \in Jobs, Knows(k, i)'
      PROVE  i <= boxes' /\ \A l \in Jobs : Knows(l, i)' => l = k
  <2>1. boxes \in Nat /\ boxes' \in Nat /\ boxes <= boxes'
    BY DEF ContainerTypes, LearningStep
  <2> QED
    BY <1>6, <1>7, <2>1 DEF IdsInv
<1> QED
  BY <1>7 DEF IdsInv

LEMMA WorkerLearns ==
  ASSUME JobTypes, ContainerTypes, NEW j \in Jobs, WorkerStep(j)
  PROVE  LearningStep(j)
<1> USE DEF Goto, GoesWrong, Quiet, commands, workers, containerVars, JobTypes, ContainerTypes, LearningStep
<1>1. CASE Reconciles(j)
  <2>1. \A k \in Jobs : live'[k] \in {live[k], Absent}
    BY <1>1, ReconcilesFrame
  <2>2. CASE UpBox(j)
    BY <2>1, <2>2 DEF UpBox, Up
  <2>3. CASE ~UpBox(j)
    BY <1>1, <2>1, <2>3 DEF Reconciles, StageFor, DownBox, RecoverSlots, RetireActive, SwapStage,
                DropRetired, Unproved, Inspect, Clean
  <2> QED
    BY <2>2, <2>3
<1>2. CASE Lock(j) \/ Preflight(j) \/ CommitEvidence(j) \/ Prepared(j)
  BY <1>2 DEF Lock, Preflight, CommitEvidence, Prepared
<1>3. CASE Exec(j)
  <2>1. UNCHANGED <<boxes, given>>
    BY <1>3 DEF Exec
  <2>2. live' = live \/ (live' = [live EXCEPT ![j] = live'[j]] /\ live'[j].box = given[j])
    BY <1>3 DEF Exec, Bound
  <2> QED
    BY <2>1, <2>2
<1>4. CASE Spawned(j) \/ Poll(j) \/ Streams(j) \/ ReadsAll(j) \/ Await(j) \/ Decide(j) \/ MarkTerminal(j)
  BY <1>4 DEF Spawned, Poll, Streams, ReadsAll, Await, Decide, MarkTerminal
<1>5. CASE Postflight(j) \/ Failing(j) \/ ReleaseLock(j) \/ WorkerPuts(j)
  BY <1>5 DEF Postflight, Failing, ReleaseLock, Forgets, WorkerPuts
<1> QED
  BY <1>1, <1>2, <1>3, <1>4, <1>5 DEF WorkerStep, Supervises

LEMMA OthersLearn ==
  ASSUME JobTypes, ContainerTypes, NEW j \in Jobs, NEW p \in Actors,
         CancelStep(j) \/ CommandStep(j) \/ Vanishes(p, j) \/ Repair
  PROVE  LearningStep(j)
<1> USE DEF CancelFrame, commands, workers, containerVars, JobTypes, ContainerTypes, LearningStep
<1>1. CASE \/ CancelReads(j) \/ SignalHost(j) \/ Refused(j) \/ Stopping(j) \/ Grace(j) \/ Late(j)
           \/ Settles(j) \/ CancelFinal(j) \/ CancelPuts(j)
  BY <1>1 DEF CancelReads, SignalHost, Refused, Stopping, Grace, Late, Settles, CancelFinal, CancelPuts
<1>2. CASE SignalGroup(j)
  <2>1. \A k \in Jobs : live'[k] # Absent => live[k] # Absent /\ live'[k].box = live[k].box
    BY <1>2 DEF SignalGroup, Told, SignalTarget, Running, Command
  <2> QED
    BY <1>2, <2>1 DEF SignalGroup
<1>3. CASE CommandStep(j)
  <2>1. \A k \in Jobs : live'[k] # Absent => live[k] # Absent /\ live'[k].box = live[k].box
    BY <1>3 DEF CommandStep, WritesPid, Batches, Concludes, Exits, Running, Command
  <2> QED
    BY <1>3, <2>1 DEF CommandStep, WritesPid, Batches, Concludes, Exits, Elsewhere
<1>4. CASE Vanishes(p, j)
  BY <1>4 DEF Vanishes, Forgets, GoesWrong
<1>5. CASE Repair
  BY <1>5, KilledFrame DEF Repair
<1> QED
  BY <1>1, <1>2, <1>3, <1>4, <1>5 DEF CancelStep

----
(* The commands. *)

LEMMA CommandKept ==
  ASSUME JobInv, NEW j \in Jobs, NEW p \in Actors,
         \/ WorkerStep(j) \/ CancelStep(j) \/ CommandStep(j)
         \/ Vanishes(p, j) \/ Repair
  PROVE  CommandInv'
<1> USE DEF JobInv, JobTypes, CommandInv
<1>1. ASSUME cpc' = cpc, \A k \in Jobs : live'[k] \in {live[k], Absent} PROVE CommandInv'
  BY <1>1
<1>2. CASE WorkerStep(j)
  <2>1. CASE Exec(j)
    <3>1. cpc' = cpc
      BY <2>1 DEF Exec
    <3>2. live' = live \/ (/\ live' = [live EXCEPT ![j] = live'[j]]
                           /\ live'[j].agent = box.mounts /\ live'[j].supervisor = slots["active"]
                           /\ live'[j].told = FALSE /\ box # Absent)
      BY <2>1 DEF Exec, Bound
    <3>3. box # Absent => box.mounts = j /\ slots["active"] = j
      BY <2>1 DEF Exec, At, BoxInv, MountsAreActive
    <3> QED
      BY <3>1, <3>2, <3>3
  <2>2. CASE ~Exec(j)
    <3>1. cpc' = cpc /\ \A k \in Jobs : live'[k] \in {live[k], Absent}
      <4>1. CASE Reconciles(j)
        BY <4>1, ReconcilesFrame
      <4>2. CASE ~Reconciles(j)
        BY <1>2, <2>2, <4>2 DEF WorkerStep, Supervises, Lock, Preflight, CommitEvidence, Prepared, Spawned, Poll,
           Streams, ReadsAll, Await, Decide, MarkTerminal, Postflight, Failing, ReleaseLock, WorkerPuts, Quiet, commands
      <4> QED
        BY <4>1, <4>2
    <3> QED
      BY <1>1, <3>1
  <2> QED
    BY <2>1, <2>2
<1>3. CASE CancelStep(j)
  <2>1. \A k \in Jobs : cpc'[k] \in {"idle", "none"} => cpc[k] \in {"idle", "none"} /\ (k = j => ~SignalGroup(j))
    BY <1>3 DEF CancelStep, CancelReads, SignalGroup, SignalHost, Refused, Stopping, Grace, Late, Settles,
                CancelledAs, CancelFinal, CancelPuts, Then, CancelPlaces
  <2>2. CASE SignalGroup(j)
    <3>1. SignalTarget(j) \subseteq {j}
      <4> SUFFICES ASSUME NEW k \in Jobs, Running(k), Verified(j) PROVE k = j
        BY DEF SignalTarget
      <4>1. live[k] # Absent /\ live[k].box = box.id /\ job[j].box = box.id /\ box.id \in Nat
        BY DEF Running, Verified, ContainerTypes
      <4> QED
        BY <4>1 DEF IdsInv, Knows
    <3>2. \A k \in Jobs \ {j} : live'[k] = live[k]
      BY <2>2, <3>1 DEF SignalGroup, Told
    <3>3. live'[j] # Absent => /\ live[j] # Absent
                              /\ live'[j].agent = live[j].agent /\ live'[j].supervisor = live[j].supervisor
      BY <2>2 DEF SignalGroup, Told, SignalTarget, Running, Command
    <3> QED
      BY <2>1, <2>2, <3>2, <3>3
  <2>3. CASE ~SignalGroup(j)
    <3>1. live' = live
      BY <1>3, <2>3 DEF CancelStep, CancelReads, SignalHost, Refused, Stopping, Grace, Late, Settles, CancelFinal,
                        CancelPuts, commands
    <3> QED
      BY <2>1, <3>1
  <2> QED
    BY <2>2, <2>3
<1>4. CASE CommandStep(j)
  <2>1. cpc' = cpc
    BY <1>4 DEF CommandStep, WritesPid, Batches, Concludes, Exits, Elsewhere
  <2>2. \A k \in Jobs : live'[k] # Absent =>
          /\ live[k] # Absent /\ live'[k].told = live[k].told
          /\ live'[k].agent = live[k].agent /\ live'[k].supervisor = live[k].supervisor
    BY <1>4 DEF CommandStep, WritesPid, Batches, Concludes, Exits, Running, Command
  <2> QED
    BY <2>1, <2>2
<1>5. CASE Vanishes(p, j) \/ Repair
  <2>1. /\ \A k \in Jobs : live'[k] \in {live[k], Absent}
        /\ \A k \in Jobs : cpc'[k] \in {"idle", "none"} => cpc[k] \in {"idle", "none"}
    BY <1>5, KilledFrame DEF Vanishes, Repair, Then
  <2> QED
    BY <2>1
<1> QED
  BY <1>2, <1>3, <1>4, <1>5

----
(* The lock. *)

Lockless == {"queued", "failing", "release", "ended", "dead"}

LEMMA Alone ==
  ASSUME LockInv, NEW j \in Jobs, wpc[j] \notin Lockless
  PROVE  runLock = j /\ \A k \in Jobs : k # j => wpc[k] \in Lockless
BY DEF LockInv, Lockless

LEMMA ReconcilesActive ==
  ASSUME NEW j \in Jobs, Reconciles(j)
  PROVE  wpc[j] \notin Lockless
BY DEF Reconciles, At, StageFor, DownBox, RecoverSlots, RetireActive, SwapStage, DropRetired, UpBox,
       Unproved, Inspect, Clean, Lockless

LEMMA LockKept ==
  ASSUME JobInv, NEW j \in Jobs, NEW p \in Actors,
         \/ WorkerStep(j) \/ CancelStep(j) \/ CommandStep(j)
         \/ Vanishes(p, j) \/ Repair
  PROVE  LockInv'
<1> USE DEF JobInv, JobTypes, LockInv
<1>1. ASSUME runLock' = runLock, wpc[j] \notin Lockless \/ wpc'[j] \in Lockless,
             \A k \in Jobs : k # j => wpc'[k] = wpc[k]
      PROVE  LockInv'
  BY <1>1 DEF Lockless
<1>2. CASE Lock(j)
  BY <1>2, JobAssumption DEF Lock, Goto, GoesWrong
<1>3. CASE ReleaseLock(j)
  BY <1>3 DEF ReleaseLock, At, Goto
<1>4. CASE Reconciles(j)
  <2>1. runLock' = runLock /\ wpc[j] \notin Lockless
    BY <1>4, ReconcilesFrame, ReconcilesActive
  <2>2. \A k \in Jobs : k # j => wpc'[k] = wpc[k]
    BY <1>4 DEF Reconciles, Goto, GoesWrong, StageFor, DownBox, RecoverSlots, RetireActive, SwapStage,
                DropRetired, UpBox, Unproved, Inspect, Clean
  <2> QED
    BY <1>1, <2>1, <2>2
<1>5. CASE \/ Preflight(j) \/ CommitEvidence(j) \/ Prepared(j) \/ Supervises(j)
           \/ Postflight(j) \/ Failing(j) \/ WorkerPuts(j)
  <2>1. runLock' = runLock
    BY <1>5 DEF Preflight, CommitEvidence, Prepared, Supervises, Exec, Spawned, Poll, Streams, ReadsAll, Await, Decide, MarkTerminal,
                Postflight, Failing, WorkerPuts
  <2>2. \A k \in Jobs : k # j => wpc'[k] = wpc[k]
    BY <1>5 DEF Goto, GoesWrong, Preflight, CommitEvidence, Prepared, Supervises, Exec, Spawned, Poll, Streams, ReadsAll, Await, Decide,
                MarkTerminal, Postflight, Failing, WorkerPuts, workers
  <2>3. wpc[j] \notin Lockless \/ wpc'[j] \in Lockless
    BY <1>5 DEF At, Goto, Preflight, CommitEvidence, Prepared, Supervises, Exec, Spawned, Poll, Streams, ReadsAll, Await, Decide,
                MarkTerminal, Postflight, Failing, WorkerPuts, workers, Lockless, Final
  <2> QED
    BY <1>1, <2>1, <2>2, <2>3
<1>6. CASE CancelStep(j) \/ CommandStep(j)
  <2>1. UNCHANGED <<wpc, runLock>>
    BY <1>6 DEF CancelStep, CancelReads, SignalGroup, SignalHost, Refused, Stopping, Grace, Late, Settles,
                CancelFinal, CancelPuts, CancelFrame, workers, CommandStep, WritesPid, Batches, Concludes, Exits, Elsewhere
  <2> QED
    BY <2>1
<1>7. CASE Vanishes(p, j)
  BY <1>1, <1>7 DEF Vanishes, GoesWrong, workers, Lockless
<1>8. CASE Repair
  BY <1>8 DEF Repair, workers
<1> QED
  BY <1>2, <1>3, <1>4, <1>5, <1>6, <1>7, <1>8 DEF WorkerStep

----
(* The container and its material. *)

ContainerInv == MaterialInv /\ BoxInv /\ MountsAreActive

\* A worker without the lock, or with nothing left to do with the container.
Idle == Lockless \cup {"prepared", "spawned", "poll", "runs", "await", "decide", "postflight"} \cup Final

\* A step that leaves the container alone, and its worker where it was or idle.
LEMMA ContainerIdle ==
  ASSUME JobInv, NEW j \in Jobs, UNCHANGED containerVars,
         \A k \in Jobs : job'[k].command = job[k].command,
         \A k \in Jobs : k # j => wpc'[k] = wpc[k] /\ plan'[k] = plan[k] /\ given'[k] = given[k],
         \/ wpc'[j] \in Idle \ {"queued"}
         \/ wpc'[j] = wpc[j] /\ plan'[j] = plan[j] /\ given'[j] = given[j]
  PROVE  ContainerInv'
<1>1. MaterialInv'
  BY DEF JobInv, MaterialInv, containerVars, Idle, Lockless, Final
<1>2. BoxInv'
  BY DEF JobInv, BoxInv, containerVars, Idle, Lockless, Final
<1>3. MountsAreActive'
  BY DEF JobInv, MountsAreActive, containerVars
<1> QED
  BY <1>1, <1>2, <1>3 DEF ContainerInv

\* A step of the worker that has the lock: nobody else is anywhere with the container.
LEMMA ContainerAlone ==
  ASSUME JobInv, NEW j \in Jobs, wpc[j] \notin Lockless, \A k \in Jobs : k # j => wpc'[k] = wpc[k],
         \A k \in Jobs : k # j => plan'[k] = plan[k]
  PROVE  \A k \in Jobs : k # j =>
           /\ wpc'[k] \in Lockless
           /\ wpc'[k] = "queued" => plan'[k] = Empty
BY Alone DEF JobInv, BoxInv

LEMMA ReconcilesContainer ==
  ASSUME JobInv, NEW j \in Jobs, Reconciles(j)
  PROVE  ContainerInv'
<1>1. \A k \in Jobs : k # j => wpc'[k] = wpc[k] /\ plan'[k] = plan[k]
  BY DEF JobInv, JobTypes, Reconciles, Goto, GoesWrong, StageFor, DownBox, RecoverSlots, RetireActive, SwapStage,
         DropRetired, UpBox, Unproved, Inspect, Clean
<1>2. \A k \in Jobs : k # j => wpc'[k] \in Lockless /\ (wpc'[k] = "queued" => plan'[k] = Empty)
  BY <1>1, ReconcilesActive, ContainerAlone
<1>3. job' = job
  BY ReconcilesFrame DEF records
<1> DEFINE Mine ==
      /\ wpc[j] \in {"recover", "retire", "swap", "drop", "up"} => box = Absent
      /\ wpc[j] \in {"down", "recover", "retire", "swap"} => slots["staging"] = plan[j]
      /\ wpc[j] \in {"drop", "up"} => slots["active"] = plan[j]
      /\ wpc[j] \in {"retire", "up"} => slots["recovery"] = Absent
      /\ wpc[j] \in {"inspect", "commit", "clean"} => box = Absent \/ box.id = given[j]
      /\ wpc[j] = "stage" /\ plan[j] # Empty => box = Absent \/ box.id = given[j]
      /\ wpc[j] \in {"inspect", "commit", "exec"} => box = Absent \/ box.mounts = plan[j]
      /\ wpc[j] \in {"queued", "preflight"} => plan[j] = Empty
      /\ wpc[j] = "commit" => plan[j] = j \/ job[j].command = "prepare"
      /\ wpc[j] = "exec" => plan[j] = j
<1>4. Mine /\ MountsAreActive
  BY DEF JobInv, MaterialInv, BoxInv
<1>5. Mine' /\ MountsAreActive'
  <2> USE <1>3, <1>4 DEF JobInv, JobTypes, ContainerTypes, Goto, GoesWrong, At, MountsAreActive, Slots
  <2>1. CASE StageFor(j)
    BY <2>1 DEF StageFor, StageMaterial, StageRefused
  <2>2. CASE DownBox(j)
    BY <2>2 DEF DownBox, Down, Discard
  <2>3. CASE RecoverSlots(j)
    BY <2>3 DEF RecoverSlots, Recover, Discard, Ambiguous
  <2>4. CASE RetireActive(j)
    BY <2>4 DEF RetireActive, Retire
  <2>5. CASE SwapStage(j)
    BY <2>5 DEF SwapStage, Swap, SwapFails
  <2>6. CASE DropRetired(j)
    BY <2>6 DEF DropRetired, Drop
  <2>7. CASE UpBox(j)
    BY <2>7 DEF UpBox, Up
  <2>8. CASE Unproved(j)
    BY <2>8 DEF Unproved, RetireAll
  <2>9. CASE Inspect(j)
    BY <2>9 DEF Inspect, containerVars
  <2>10. CASE Clean(j)
    BY <2>10 DEF Clean, CleanUp, Remove, RetireAll
  <2> QED
    BY <2>1, <2>2, <2>3, <2>4, <2>5, <2>6, <2>7, <2>8, <2>9, <2>10 DEF Reconciles
<1> QED
  BY <1>2, <1>5 DEF ContainerInv, MaterialInv, BoxInv, Lockless

LEMMA WorkerContainer ==
  ASSUME JobInv, NEW j \in Jobs, WorkerStep(j), \A k \in Jobs : job'[k].command = job[k].command
  PROVE  ContainerInv'
<1> USE DEF JobInv, JobTypes, Goto, GoesWrong, At, Quiet
<1>1. CASE Reconciles(j)
  BY <1>1, ReconcilesContainer
<1>2. CASE Lock(j)
  <2>1. /\ UNCHANGED <<containerVars, plan, given>> /\ wpc[j] = "queued"
        /\ \A k \in Jobs : k # j => wpc'[k] = wpc[k]
        /\ wpc'[j] \in {"preflight", "failing"}
    BY <1>2 DEF Lock
  <2> QED
    BY <2>1 DEF ContainerInv, MaterialInv, BoxInv, MountsAreActive, containerVars
<1>3. CASE Preflight(j)
  <2>1. /\ UNCHANGED <<containerVars, plan, given>> /\ wpc[j] = "preflight"
        /\ \A k \in Jobs : k # j => wpc'[k] = wpc[k]
        /\ wpc'[j] \in {"stage", "failing"}
    BY <1>3 DEF Preflight
  <2> QED
    BY <2>1 DEF ContainerInv, MaterialInv, BoxInv, MountsAreActive, containerVars
<1>4. CASE CommitEvidence(j)
  <2>1. /\ UNCHANGED <<containerVars, plan, given>> /\ wpc[j] = "commit"
        /\ \A k \in Jobs : k # j => wpc'[k] = wpc[k]
        /\ wpc'[j] \in {"prepared", "exec", "clean"}
        /\ wpc'[j] = "exec" => job[j].command # "prepare"
    BY <1>4 DEF CommitEvidence
  <2> QED
    BY <2>1 DEF ContainerInv, MaterialInv, BoxInv, MountsAreActive, containerVars
<1>5. CASE Prepared(j) \/ Supervises(j) \/ Postflight(j) \/ Failing(j) \/ ReleaseLock(j) \/ WorkerPuts(j)
  <2>1. UNCHANGED containerVars
    BY <1>5 DEF Prepared, Supervises, Exec, Spawned, Poll, Streams, ReadsAll, Await, Decide, MarkTerminal, Postflight, Failing,
                ReleaseLock, WorkerPuts
  <2>2. \A k \in Jobs : k # j => wpc'[k] = wpc[k] /\ plan'[k] = plan[k] /\ given'[k] = given[k]
    BY <1>5 DEF Prepared, Supervises, Exec, Spawned, Poll, Streams, ReadsAll, Await, Decide, MarkTerminal, Postflight, Failing,
                ReleaseLock, Forgets, WorkerPuts, workers
  <2>3. \/ wpc'[j] \in Idle \ {"queued"}
        \/ wpc'[j] = wpc[j] /\ plan'[j] = plan[j] /\ given'[j] = given[j]
    <3>1. CASE Decide(j)
      BY <3>1, DecidedIsBacked DEF Decide, Idle, Final
    <3>2. CASE ~Decide(j)
      BY <1>5, <3>2 DEF Prepared, Supervises, Exec, Spawned, Poll, Streams, ReadsAll, Await, MarkTerminal, Postflight, Failing,
                  ReleaseLock, WorkerPuts, workers, Idle, Lockless
    <3> QED
      BY <3>1, <3>2
  <2> QED
    BY <2>1, <2>2, <2>3, ContainerIdle
<1> QED
  BY <1>1, <1>2, <1>3, <1>4, <1>5 DEF WorkerStep

LEMMA OtherContainer ==
  ASSUME JobInv, NEW j \in Jobs, NEW p \in Actors, \A k \in Jobs : job'[k].command = job[k].command,
         CancelStep(j) \/ CommandStep(j) \/ Vanishes(p, j) \/ Repair
  PROVE  ContainerInv'
<1>1. CASE CancelStep(j) \/ CommandStep(j)
  <2>1. UNCHANGED <<containerVars, workers>>
    BY <1>1 DEF CancelStep, CancelReads, SignalGroup, SignalHost, Refused, Stopping, Grace, Late, Settles,
                CancelFinal, CancelPuts, CancelFrame, CommandStep, WritesPid, Batches, Concludes, Exits, Elsewhere
  <2> QED
    BY <2>1, ContainerIdle DEF workers
<1>2. CASE Vanishes(p, j)
  <2>1. /\ UNCHANGED containerVars
        /\ \A k \in Jobs : k # j => wpc'[k] = wpc[k] /\ plan'[k] = plan[k] /\ given'[k] = given[k]
        /\ \/ wpc'[j] = "dead"
           \/ wpc'[j] = wpc[j] /\ plan'[j] = plan[j] /\ given'[j] = given[j]
    BY <1>2 DEF Vanishes, GoesWrong, Forgets, workers, JobInv, JobTypes
  <2> QED
    BY <2>1, ContainerIdle DEF Idle, Lockless
<1>3. CASE Repair
  <2>1. \A k \in Jobs : wpc[k] \in Lockless
    BY <1>3, JobAssumption DEF Repair, JobInv, JobTypes, LockInv, Lockless
  <2>2. UNCHANGED workers /\ (UNCHANGED <<slots, box>> \/ box' = Absent)
    BY <1>3 DEF Repair
  <2> QED
    BY <2>1, <2>2 DEF JobInv, ContainerInv, MaterialInv, BoxInv, MountsAreActive, workers, Lockless
<1> QED
  BY <1>1, <1>2, <1>3

----
(* Before the command. *)

\* No step goes back to where the command was not started, and until it is only
\* j's worker writes, and nothing but a box.
LEMMA EarlyKept ==
  ASSUME JobInv, NEW j \in Jobs, NEW p \in Actors, RecordStep(j), BackedStep(j), LearningStep(j),
         \/ WorkerStep(j) \/ CancelStep(j) \/ CommandStep(j)
         \/ Vanishes(p, j) \/ Repair
  PROVE  EarlyInv'
<1> DEFINE Before(k) ==
      /\ Fresh(job[k]) /\ (writing[Worker(k)] # Absent => Fresh(writing[Worker(k)]))
      /\ cpc[k] \in {"idle", "none"} /\ writing[Canceller(k)] = Absent
      /\ live[k] = Absent /\ looked[k] = Absent
      /\ artifact[k].verdict = Absent /\ artifact[k].batch = Absent
<1> USE DEF JobInv, JobTypes
<1>0. \A k \in Jobs : Worker(k) \in Actors /\ Canceller(k) \in Actors
  BY ActorsKnown
<1>1. ASSUME NEW k \in Jobs, k # j, wpc'[k] \in Early PROVE Before(k)'
  <2>1. Before(k)
    BY <1>1 DEF BackedStep, EarlyInv
  <2>2. cpc'[k] = cpc[k] /\ looked'[k] = looked[k] /\ artifact'[k] = artifact[k] /\ live'[k] = Absent
    BY <1>1, <2>1 DEF BackedStep, LeftStep, LearningStep
  <2>3. {Worker(k), Canceller(k)} \cap {Worker(j), Canceller(j)} = {}
    BY <1>1 DEF Worker, Canceller
  <2>4. job'[k] = job[k] /\ \A q \in {Worker(k), Canceller(k)} : writing'[q] \in {writing[q], Absent}
    BY <1>0, <1>1, <2>3 DEF RecordStep, records
  <2> QED
    BY <2>1, <2>2, <2>4
<1>2. ASSUME wpc'[j] \in Early, wpc[j] \in Early PROVE Before(j)'
  <2>1. Before(j) /\ Worker(j) # Canceller(j)
    BY <1>2 DEF EarlyInv, Worker, Canceller
  <2>2. ~CancelStep(j)
    BY <2>1 DEF CancelStep, CancelReads, SignalGroup, SignalHost, Refused, Stopping, Grace, Late, Settles,
                CancelFinal, CancelPuts, Cancels, Put, Fresh
  <2>3. CASE CommandStep(j)
    BY <2>1, <2>3 DEF CommandStep, WritesPid, Batches, Concludes, Exits, Running, Elsewhere, leavings, records, workers
  <2>4. CASE Vanishes(p, j)
    BY <1>2, <2>1, <2>4 DEF Vanishes, GoesWrong, Early
  <2>5. CASE Repair
    BY <2>1, <2>5, KilledFrame DEF Repair, records, workers, leavings
  <2>6. CASE Reconciles(j)
    BY <2>1, <2>6, ReconcilesFrame DEF records, leavings
  <2>7. CASE Lock(j)
    BY <2>1, <2>7 DEF Lock, Quiet, records, commands, leavings
  <2>8. CASE Preflight(j)
    <3>1. PICK r \in Record :
            /\ job' = job /\ writing' = [writing EXCEPT ![Worker(j)] = r]
            /\ r.status = "preflighting"
            /\ r.found = job[j].found /\ r.host = job[j].host /\ r.group = job[j].group
      BY <2>8, StatusPatched DEF Preflight, Statuses
    <3> QED
      BY <1>0, <2>1, <2>8, <3>1 DEF Preflight, Quiet, commands, leavings, Fresh
  <2>9. CASE CommitEvidence(j)
    <3>1. UNCHANGED <<cpc, live, looked, artifact>>
      BY <2>9 DEF CommitEvidence, Quiet, commands, leavings
    <3>2. UNCHANGED records \/ Patch(Worker(j), j, [box |-> given[j]])
      BY <2>9 DEF CommitEvidence
    <3>3. CASE Patch(Worker(j), j, [box |-> given[j]])
      <4> DEFINE fields == [box |-> given[j]]
      <4>1. DOMAIN fields = {"box"} /\ fields["box"] = given[j]
        OBVIOUS
      <4>2. Patch(Worker(j), j, fields)
        BY <3>3
      <4> HIDE DEF fields
      <4>3. PICK r \in Record :
              /\ job' = job /\ writing' = [writing EXCEPT ![Worker(j)] = r]
              /\ r.status = job[j].status
              /\ r.found = job[j].found /\ r.host = job[j].host /\ r.group = job[j].group
        BY <4>1, <4>2, Patched DEF Fields
      <4> QED
        BY <1>0, <2>1, <3>1, <4>3 DEF Fresh
    <3> QED
      BY <2>1, <3>1, <3>2, <3>3 DEF records
  <2>10. CASE WorkerPuts(j)
    BY <1>0, <2>1, <2>10 DEF WorkerPuts, Put, workers, commands, leavings
  <2>11. CASE Prepared(j) \/ Supervises(j) \/ Postflight(j) \/ Failing(j) \/ ReleaseLock(j)
    <3>1. ~(Prepared(j) \/ Exec(j) \/ Postflight(j) \/ Failing(j) \/ ReleaseLock(j))
      BY <1>2 DEF Prepared, Exec, Postflight, Failing, ReleaseLock, Goto, GoesWrong, Early
    <3>2. ~(Spawned(j) \/ Poll(j) \/ Streams(j) \/ ReadsAll(j) \/ Await(j) \/ Decide(j) \/ MarkTerminal(j))
      BY <1>2 DEF Spawned, Poll, Streams, ReadsAll, Await, Decide, MarkTerminal, At, Early, Final
    <3> QED
      BY <2>11, <3>1, <3>2 DEF Supervises
  <2> QED
    BY <2>2, <2>3, <2>4, <2>5, <2>6, <2>7, <2>8, <2>9, <2>10, <2>11 DEF WorkerStep
<1>3. wpc'[j] \in Early => wpc[j] \in Early
  <2>1. CASE CancelStep(j) \/ CommandStep(j) \/ Repair
    <3>1. wpc' = wpc
      BY <2>1 DEF CancelStep, CancelReads, SignalGroup, SignalHost, Refused, Stopping, Grace, Late, Settles,
                CancelFinal, CancelPuts, CancelFrame, workers, CommandStep, WritesPid, Batches, Concludes, Exits,
                Elsewhere, Repair
    <3> QED
      BY <3>1
  <2>2. CASE Vanishes(p, j)
    BY <2>2 DEF Vanishes, GoesWrong, Early, workers
  <2>3. CASE Reconciles(j)
    BY <2>3 DEF Reconciles, At, StageFor, DownBox, RecoverSlots, RetireActive, SwapStage, DropRetired, UpBox,
                Unproved, Inspect, Clean, Early
  <2>4. CASE Lock(j) \/ Preflight(j) \/ CommitEvidence(j) \/ Prepared(j) \/ WorkerPuts(j)
    BY <2>4 DEF Lock, Preflight, CommitEvidence, Prepared, WorkerPuts, At, Goto, Early, workers
  <2>5. CASE Supervises(j) \/ Postflight(j) \/ Failing(j) \/ ReleaseLock(j)
    <3>1. CASE Decide(j)
      BY <3>1, DecidedIsBacked DEF Decide, Goto, Early, Final
    <3>2. CASE ~Decide(j)
      BY <2>5, <3>2 DEF Supervises, Exec, Spawned, Poll, Streams, ReadsAll, Await, MarkTerminal, Postflight,
                  Failing, ReleaseLock, At, Goto, GoesWrong, Early, workers
    <3> QED
      BY <3>1, <3>2
  <2> QED
    BY <2>1, <2>2, <2>3, <2>4, <2>5 DEF WorkerStep
<1> QED
  BY <1>1, <1>2, <1>3 DEF EarlyInv

----
(* The invariant. *)

LEMMA JobInitInv == JobInit => JobInv
<1> SUFFICES ASSUME JobInit PROVE JobInv
  OBVIOUS
<1> USE DEF JobInit, ContainerInit
<1>1. PICK asked \in Requests :
        /\ job = [j \in Jobs |-> [command |-> asked.command[j], status |-> "preflighting", box |-> Absent,
                                 host |-> FALSE, group |-> FALSE, found |-> Absent]]
        /\ cpc = [j \in Jobs |-> IF j \in asked.cancelled THEN "idle" ELSE "none"]
  OBVIOUS
<1>2. ContainerTypes
  BY DEF ContainerTypes, Mounts, Slots
<1>3. job \in [Jobs -> Record]
  BY <1>1, JobAssumption DEF Record, Statuses
<1>4. JobTypes
  <2>1. artifact \in [Jobs -> Remains]
    BY DEF Remains
  <2>2. cpc \in [Jobs -> CancelPlaces]
    BY <1>1 DEF CancelPlaces
  <2> QED
    BY <1>3, <2>1, <2>2 DEF JobTypes, WorkerPlaces
<1>5. LockInv /\ MaterialInv /\ BoxInv /\ MountsAreActive /\ CommandInv
  BY DEF LockInv, MaterialInv, BoxInv, MountsAreActive, CommandInv
<1>6. IdsInv
  BY <1>1, JobAssumption, ActorsKnown DEF IdsInv, Knows
<1>7. StatusInv
  BY <1>1, ActorsKnown DEF StatusInv, Backed, Meant
<1>8. EarlyInv
  BY <1>1, ActorsKnown DEF EarlyInv, Fresh
<1> QED
  BY <1>2, <1>4, <1>5, <1>6, <1>7, <1>8 DEF JobInv

LEMMA JobStep == JobInv /\ [JobNext]_jobVars => JobInv'
<1> SUFFICES ASSUME JobInv, [JobNext]_jobVars PROVE JobInv'
  OBVIOUS
<1>1. ASSUME NEW j \in Jobs, NEW p \in Actors,
             \/ WorkerStep(j) \/ CancelStep(j) \/ CommandStep(j)
             \/ Vanishes(p, j) \/ Repair
      PROVE  JobInv'
  <2>1. JobTypes' /\ ContainerTypes'
    BY <1>1, WorkerTypes, OtherTypes DEF JobInv
  <2>2. RecordStep(j) /\ BackedStep(j) /\ LearningStep(j)
    BY <1>1, WorkerRecords, CancelRecords, HostRecords, WorkerBacks, OthersBack, WorkerLearns, OthersLearn DEF JobInv
  <2>3. StatusInv' /\ IdsInv' /\ \A k \in Jobs : job'[k].command = job[k].command
    BY <2>2, StatusKept, IdsKept DEF JobInv
  <2>4. ContainerInv'
    BY <1>1, <2>3, WorkerContainer, OtherContainer
  <2> QED
    BY <1>1, <2>1, <2>2, <2>3, <2>4, LockKept, CommandKept, EarlyKept DEF JobInv, ContainerInv
<1>2. CASE JobNext
  <2>1. CASE Repair /\ Jobs = {}
    <3>1. live' \in [Jobs -> {Absent} \cup Command] /\ UNCHANGED <<client, leavings, times>>
      BY <2>1, KilledFrame DEF Repair, JobInv
    <3> QED
      BY <2>1, <3>1 DEF Repair, records, workers, leavings, times, JobInv, ContainerTypes, JobTypes, LockInv,
         MaterialInv, BoxInv, MountsAreActive, IdsInv, CommandInv, StatusInv, EarlyInv, Mounts
  <2>2. CASE Repair /\ Jobs # {}
    <3>1. PICK j \in Jobs : TRUE
      BY <2>2
    <3> QED
      BY <1>1, <2>2, <3>1, ActorsKnown
  <2>3. CASE ~Repair
    BY <1>1, <1>2, <2>3, ActorsKnown DEF JobNext
  <2> QED
    BY <2>1, <2>2, <2>3
<1>3. CASE UNCHANGED jobVars
  BY <1>3 DEF jobVars, containerVars, records, workers, commands, leavings, times, JobInv, ContainerTypes, JobTypes,
     LockInv, MaterialInv, BoxInv, MountsAreActive, IdsInv, Knows, CommandInv, StatusInv, Backed, Meant, Candidates,
     Left, Ended, CancelledAs, EarlyInv
<1> QED
  BY <1>2, <1>3

\* Whatever dies and whoever cancels: a container mounts what is active, one command runs at a time with its
\* own job's credentials, it is interrupted by its own cancellation alone, and of a job that is called
\* done or cancelled, its command or one of its kind that it may be taken for left what that command had
\* to leave (process.ts 314-441, container.ts, credential-scope.ts).
THEOREM JobsAreKeptAlways == JobSpec => []JobsAreKept
<1>1. JobInv => JobsAreKept
  <2> SUFFICES ASSUME JobInv PROVE JobsAreKept
    OBVIOUS
  <2>1. OneOwnCommand
    <3> SUFFICES ASSUME NEW j \in Jobs, NEW k \in Jobs, Running(j)
                 PROVE  live[j].agent = j /\ live[j].supervisor = j /\ (Running(k) => k = j)
      BY DEF OneOwnCommand
    <3>1. box.id \in Nat /\ Knows(j, box.id) /\ (Running(k) => Knows(k, box.id))
      BY DEF JobInv, ContainerTypes, Running, Knows
    <3> QED
      BY <3>1 DEF JobInv, CommandInv, IdsInv, Running
  <2> QED
    BY <2>1 DEF JobInv, JobsAreKept, SignalsReachOwn, CommandInv, StatusIsWitnessed, StatusInv, Backed
<1> QED
  BY <1>1, JobInitInv, JobStep, PTL DEF JobSpec

----
(* The lock of a worktree. *)

\* While the section was one caller's at a time, what is at the destination is
\* what the caller in the section left there, and a call that was answered with
\* the tree found nobody who would remove it.
TreeTypes ==
  /\ at \in [Callers -> {"mkdir", "open", "pin", "verify", "look", "poll", "sever", "sift",
                         "section", "add", "adding", "cleanup", "release", "unpin", "tear",
                         "done", "dead"}]
  /\ answer \in [Callers -> {"none", "ok", "error"}]
  /\ tree \in {"none", "partial", "whole"}
  /\ shared \in BOOLEAN

OneInside == \A p, q \in Inside : p = q

InsideKnows ==
  \A p \in Callers :
    /\ at[p] = "add" => tree = "none"
    /\ at[p] \in {"adding", "cleanup"} => tree = "partial"

TreeInv ==
  /\ TreeTypes
  /\ ~harmed
  /\ ~shared => OneInside /\ InsideKnows /\ TreesAreWhole

\* The earlier caller left a tree or a part of one, and nobody has an answer yet.
LEMMA TreeStarts == LockInit => TreeInv
<1> SUFFICES ASSUME LockInit PROVE TreeInv
  OBVIOUS
<1>1. /\ at = [p \in Callers |-> "mkdir"] /\ answer = [p \in Callers |-> "none"]
      /\ tree \in {"none", "partial", "whole"} /\ shared = FALSE /\ harmed = FALSE
  BY DEF LockInit
<1>2. TreeTypes
  BY <1>1 DEF TreeTypes
<1>3. OneInside /\ InsideKnows /\ TreesAreWhole
  BY <1>1 DEF OneInside, InsideKnows, TreesAreWhole, Inside
<1> QED
  BY <1>1, <1>2, <1>3 DEF TreeInv

\* A step outside the section does not disturb it, whatever it does to the
\* directories, when it harms nobody.
LEMMA OutsideKeepsTrees ==
  ASSUME TreeInv, NEW p \in Callers, NEW next \in {"mkdir", "open", "pin", "verify", "look",
           "poll", "sever", "sift", "release", "unpin", "tear", "done", "dead"},
         Goes(p, next), UNCHANGED <<tree, shared>>,
         answer' \in [Callers -> {"none", "ok", "error"}],
         \A q \in Callers : answer'[q] = "ok" => answer[q] = "ok",
         ~harmed'
  PROVE  TreeInv'
<1>1. \A q \in Callers : at'[q] = IF q = p THEN next ELSE at[q]
  BY DEF TreeInv, TreeTypes, Goes
<1>2. TreeTypes'
  BY DEF TreeInv, TreeTypes, Goes
<1>3. Inside' \subseteq Inside
  BY <1>1 DEF Inside
<1>4. ASSUME ~shared' PROVE OneInside' /\ InsideKnows' /\ TreesAreWhole'
  <2>1. OneInside /\ InsideKnows /\ TreesAreWhole /\ ~shared
    BY <1>4 DEF TreeInv
  <2>2. OneInside'
    BY <2>1, <1>3 DEF OneInside
  <2>3. InsideKnows'
    BY <2>1, <1>1 DEF InsideKnows
  <2>4. TreesAreWhole'
    BY <2>1 DEF TreesAreWhole
  <2> QED
    BY <2>2, <2>3, <2>4
<1> QED
  BY <1>2, <1>4 DEF TreeInv

\* Who is alone in the section knows what is at the destination.
LEMMA InsideKeepsTrees ==
  ASSUME TreeInv, NEW p \in Callers,
         Reuse(p) \/ Add(p) \/ Added(p) \/ Cleanup(p)
  PROVE  TreeInv'
<1>1. PICK next \in {"add", "adding", "cleanup", "release"} : Goes(p, next)
  BY DEF Reuse, Add, Added, Cleanup
<1>2. \A q \in Callers : at'[q] = IF q = p THEN next ELSE at[q]
  BY <1>1 DEF TreeInv, TreeTypes, Goes
<1>3. shared' = shared /\ harmed' = harmed
  BY DEF Reuse, Add, Added, Cleanup
<1>4. p \in Inside /\ Inside' \subseteq Inside
  BY <1>2 DEF Inside, Reuse, Add, Added, Cleanup
<1>5. TreeTypes'
  <2>1. at' \in [Callers -> {"mkdir", "open", "pin", "verify", "look", "poll", "sever", "sift",
                         "section", "add", "adding", "cleanup", "release", "unpin", "tear",
                         "done", "dead"}]
    BY <1>1 DEF TreeInv, TreeTypes, Goes
  <2>2. answer' \in [Callers -> {"none", "ok", "error"}]
    BY DEF TreeInv, TreeTypes, Reuse, Add, Added, Cleanup, Says
  <2>3. tree' \in {"none", "partial", "whole"}
    BY DEF TreeInv, TreeTypes, Reuse, Add, Added, Cleanup
  <2> QED
    BY <1>3, <2>1, <2>2, <2>3 DEF TreeInv, TreeTypes
<1>6. ASSUME ~shared' PROVE OneInside' /\ InsideKnows' /\ TreesAreWhole'
  <2>1. OneInside /\ InsideKnows /\ TreesAreWhole /\ TreeTypes
    BY <1>3, <1>6 DEF TreeInv
  <2>2. OneInside'
    BY <2>1, <1>4 DEF OneInside
  <2>3. \A q \in Callers \ {p} : at'[q] \notin {"section", "add", "adding", "cleanup"}
    BY <2>1, <1>2, <1>4 DEF OneInside, Inside
  <2>4. \A q \in Callers : answer'[q] = IF q = p THEN answer'[p] ELSE answer[q]
    BY <2>1 DEF TreeTypes, Reuse, Add, Added, Cleanup, Says
  <2>5. CASE Reuse(p)
    <3>1. tree' = tree /\ (next = "add" => tree = "none") /\ next \in {"add", "release"}
      BY <2>1, <2>5, <1>1, <1>2 DEF Reuse, Goes, TreeTypes
    <3>2. answer'[p] = "ok" => answer[p] = "ok" \/ tree = "whole"
      BY <2>1, <2>5 DEF Reuse, Says, TreeTypes
    <3>3. InsideKnows'
      BY <2>3, <3>1, <1>2 DEF InsideKnows
    <3>4. TreesAreWhole'
      BY <1>3, <1>6, <2>1, <2>4, <3>1, <3>2 DEF TreesAreWhole
    <3> QED
      BY <2>2, <3>3, <3>4
  <2>6. CASE Add(p)
    <3>1. tree = "none" /\ tree' = "partial" /\ at'[p] = "adding" /\ answer' = answer
      BY <2>1, <2>6 DEF Add, Goes, TreeTypes, InsideKnows
    <3>2. InsideKnows'
      BY <2>3, <3>1 DEF InsideKnows
    <3>3. TreesAreWhole'
      BY <2>1, <3>1, <1>3, <1>6 DEF TreesAreWhole
    <3> QED
      BY <2>2, <3>2, <3>3
  <2>7. CASE Added(p)
    <3>1. tree = "partial" /\ \A q \in Callers : answer[q] # "ok"
      BY <2>1, <2>7, <1>3, <1>6 DEF Added, InsideKnows, TreesAreWhole
    <3>2. \/ tree' = "whole" /\ at'[p] = "release"
          \/ tree' = "partial" /\ at'[p] = "cleanup" /\ answer' = answer
      BY <2>1, <2>7, <3>1 DEF Added, Goes, TreeTypes
    <3>3. InsideKnows'
      BY <2>3, <3>2 DEF InsideKnows
    <3>4. TreesAreWhole'
      BY <3>1, <3>2 DEF TreesAreWhole
    <3> QED
      BY <2>2, <3>3, <3>4
  <2>8. CASE Cleanup(p)
    <3>1. tree = "partial" /\ \A q \in Callers : answer[q] # "ok"
      BY <2>1, <2>8, <1>3, <1>6 DEF Cleanup, InsideKnows, TreesAreWhole
    <3>2. at'[p] = "release" /\ answer'[p] = "error"
      BY <2>1, <2>8 DEF Cleanup, Goes, Says, TreeTypes
    <3>3. InsideKnows'
      BY <2>3, <3>2 DEF InsideKnows
    <3>4. TreesAreWhole'
      BY <2>4, <3>1, <3>2 DEF TreesAreWhole
    <3> QED
      BY <2>2, <3>3, <3>4
  <2> QED
    BY <2>5, <2>6, <2>7, <2>8
<1> QED
  BY <1>3, <1>5, <1>6 DEF TreeInv

\* What a reclaim removes is stale, what a release removes is its own.
LEMMA FilesAreSpared ==
  ASSUME TreeInv, NEW p \in Callers, Sift(p) \/ Tear(p)
  PROVE  ~harmed'
<1>1. CASE Sift(p)
  BY <1>1 DEF TreeInv, Sift, Leaves, Spared
<1>2. CASE Tear(p)
  BY <1>2 DEF TreeInv, Tear, Leaves
<1> QED
  BY <1>1, <1>2

LEMMA TreesKept == TreeInv /\ [LockNext]_lockVars => TreeInv'
<1> SUFFICES ASSUME TreeInv, [LockNext]_lockVars PROVE TreeInv'
  OBVIOUS
<1> USE DEF Work, Disk
<1>0. TreeTypes /\ ~harmed
  BY DEF TreeInv
<1>1. ASSUME NEW p \in Callers, Mkdir(p) PROVE TreeInv'
  BY <1>0, <1>1, OutsideKeepsTrees DEF Mkdir, TreeTypes
<1>2. ASSUME NEW p \in Callers, Enter(p) PROVE TreeInv'
  <2>1. answer' \in [Callers -> {"none", "ok", "error"}]
    BY <1>0, <1>2 DEF Enter, Says, TreeTypes
  <2>2. \A q \in Callers : answer'[q] = "ok" => answer[q] = "ok"
    BY <1>0, <1>2 DEF Enter, Says, TreeTypes
  <2> QED
    BY <1>0, <1>2, <2>1, <2>2, OutsideKeepsTrees DEF Enter
<1>3. ASSUME NEW p \in Callers, Pin(p) PROVE TreeInv'
  <2>1. answer' \in [Callers -> {"none", "ok", "error"}]
    BY <1>0, <1>3 DEF Pin, Says, TreeTypes
  <2>2. \A q \in Callers : answer'[q] = "ok" => answer[q] = "ok"
    BY <1>0, <1>3 DEF Pin, Says, TreeTypes
  <2> QED
    BY <1>0, <1>3, <2>1, <2>2, OutsideKeepsTrees DEF Pin
<1>4. ASSUME NEW p \in Callers, Verify(p) PROVE TreeInv'
  <2>1. CASE place = mine[p]
    <3>1. Goes(p, "section") /\ shared' = (shared \/ Inside # {}) /\ UNCHANGED <<tree, answer, harmed>>
      BY <1>4, <2>1 DEF Verify
    <3>2. \A q \in Callers : at'[q] = IF q = p THEN "section" ELSE at[q]
      BY <1>0, <3>1 DEF TreeTypes, Goes
    <3>3. TreeTypes'
      BY <1>0, <3>1 DEF TreeTypes, Goes
    <3>4. ASSUME ~shared' PROVE OneInside' /\ InsideKnows' /\ TreesAreWhole'
      <4>1. Inside = {} /\ ~shared /\ OneInside /\ InsideKnows /\ TreesAreWhole
        BY <3>1, <3>4 DEF TreeInv
      <4>2. Inside' \subseteq {p}
        BY <3>2, <4>1 DEF Inside
      <4>3. OneInside'
        BY <4>2 DEF OneInside
      <4>4. InsideKnows'
        BY <3>1, <3>2, <4>1 DEF InsideKnows
      <4>5. TreesAreWhole'
        BY <3>1, <4>1 DEF TreesAreWhole
      <4> QED
        BY <4>3, <4>4, <4>5
    <3> QED
      BY <1>0, <3>1, <3>3, <3>4 DEF TreeInv
  <2>2. CASE place # mine[p]
    BY <1>0, <1>4, <2>2, OutsideKeepsTrees DEF Verify, TreeTypes
  <2> QED
    BY <2>1, <2>2
<1>5. ASSUME NEW p \in Callers, Observe(p) PROVE TreeInv'
  BY <1>0, <1>5, OutsideKeepsTrees DEF Observe, TreeTypes
<1>6. ASSUME NEW p \in Callers, Wait(p) PROVE TreeInv'
  BY <1>0, <1>6, OutsideKeepsTrees DEF Wait, TreeTypes
<1>7. ASSUME NEW p \in Callers, Displace(p) PROVE TreeInv'
  BY <1>0, <1>7, OutsideKeepsTrees DEF Displace, TreeTypes
<1>8. ASSUME NEW p \in Callers, Sift(p) PROVE TreeInv'
  BY <1>0, <1>8, OutsideKeepsTrees, FilesAreSpared DEF Sift, TreeTypes
<1>9. ASSUME NEW p \in Callers, Reuse(p) \/ Add(p) \/ Added(p) \/ Cleanup(p) PROVE TreeInv'
  BY <1>9, InsideKeepsTrees
<1>10. ASSUME NEW p \in Callers, GiveUp(p) PROVE TreeInv'
  BY <1>0, <1>10, OutsideKeepsTrees DEF GiveUp, Closes, TreeTypes
<1>11. ASSUME NEW p \in Callers, Unpin(p) PROVE TreeInv'
  BY <1>0, <1>11, OutsideKeepsTrees DEF Unpin, Closes, TreeTypes
<1>12. ASSUME NEW p \in Callers, Tear(p) PROVE TreeInv'
  BY <1>0, <1>12, OutsideKeepsTrees, FilesAreSpared DEF Tear, Closes, TreeTypes
<1>13. ASSUME NEW p \in Callers, Dies(p) PROVE TreeInv'
  BY <1>0, <1>13, OutsideKeepsTrees DEF Dies, TreeTypes
<1>14. CASE UNCHANGED <<at, tree, answer, shared, harmed>>
  BY <1>14 DEF TreeInv, TreeTypes, OneInside, InsideKnows, TreesAreWhole, Inside
<1>15. ASSUME NEW p \in Owners, Grows(p) PROVE TreeInv'
  BY <1>14, <1>15 DEF Grows
<1>16. CASE UNCHANGED lockVars
  BY <1>14, <1>16 DEF lockVars
<1> QED
  BY <1>1, <1>2, <1>3, <1>4, <1>5, <1>6, <1>7, <1>8, <1>9, <1>10, <1>11, <1>12, <1>13, <1>15,
     <1>16 DEF LockNext, Acts

\* Whatever callers meet at one destination, for any number of them that die
\* anywhere: the file of an owner that is not stale goes by its own caller's hand
\* (withDestLock), and the tree that a call promised is there and whole, provided
\* the callers took turns.
THEOREM WorktreesAreSafeAlways == LockSpec => []WorktreesAreSafe
<1>1. TreeInv => WorktreesAreSafe
  BY DEF TreeInv, WorktreesAreSafe, OwnersAreSpared, TreesAreWhole
<1> QED
  BY <1>1, TreeStarts, TreesKept, PTL DEF LockSpec
====
