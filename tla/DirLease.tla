---- MODULE DirLease ----
(***************************************************************************)
(* The directory lease of src/src/campaign/locks.ts, which both the host's *)
(* live-spend lock and the journal of each campaign take.  The lock is a   *)
(* directory at one path: mkdir takes it, a token file named after the     *)
(* acquire call says who did, and every removal is a rename to a private   *)
(* name first and a check of what was renamed after.                       *)
(*                                                                         *)
(* One action is one system call, or several between which nothing another *)
(* process does can matter.  A process makes one acquire call, so its      *)
(* token is named after it.  Clocks are left out: a holder that died may   *)
(* be found stale at any time or not yet, a live one is never judged dead  *)
(* (its identity is checked after its heartbeat), and an empty directory   *)
(* that was seen twice may have been empty for the whole grace.            *)
(***************************************************************************)
EXTENDS Naturals, FiniteSets

CONSTANTS
  Processes,  \* the processes that call acquireLease, once each
  Departed,   \* those that had taken the lease and died before the others came
  Inodes,     \* the directory identities (dev and ino) the file system can give
  None

ASSUME LeaseAssumption ==
  /\ Departed \subseteq Processes
  /\ IsFiniteSet(Departed) /\ Cardinality(Departed) <= 1
  /\ Inodes # {} /\ None \notin Inodes
  /\ None \notin Processes \cup {"release", "rollback", "empty"}
  /\ Processes \cap {"release", "rollback", "empty"} = {}

VARIABLES
  path,     \* the directory at the lock path, or None
  entries,  \* inode -> whose owner tokens the directory has
  blank,    \* the owners whose token was created and not yet written
  trash,    \* process -> the directory it has renamed to its private name
  parked,   \* directories left under a private name for the operator
  pc,       \* process -> what it does next
  mark,     \* process -> the directory it has open and takes the path to be
  why,      \* process -> what it proved before it severs
  waited,   \* processes that have seen the path empty (emptySince)
  alive,    \* processes that have not died
  maker,    \* history: inode -> the process that made the directory
  crossed   \* history: an acquisition's calls went to two directories

disk == <<path, entries, blank, trash, parked>>
local == <<pc, mark, why, waited, alive>>
history == <<maker, crossed>>
vars == <<disk, local, history>>

\* What the severed directory is checked against; a process there is the dead
\* owner of the token that was judged.
Guards == {"release", "rollback", "empty"} \cup Processes

Init ==
  /\ \/ Departed = {} /\ path = None /\ entries = [i \in Inodes |-> {}]
     \/ /\ Departed # {} /\ path \in Inodes
        /\ entries = [i \in Inodes |-> IF i = path THEN Departed ELSE {}]
  /\ blank = {} /\ parked = {} /\ waited = {}
  /\ maker = [i \in Inodes |-> None] /\ crossed = FALSE
  /\ alive = Processes \ Departed
  /\ trash = [p \in Processes |-> None]
  /\ pc = [p \in Processes |-> IF p \in Departed THEN "done" ELSE "start"]
  /\ mark = [p \in Processes |-> None]
  /\ why = [p \in Processes |-> None]

----
\* An open descriptor keeps an inode from being given out again.
Referenced == {mark[p] : p \in alive}
Linked(i) == i = path \/ i \in parked \/ \E p \in Processes : trash[p] = i
Free == {i \in Inodes : ~Linked(i) /\ i \notin Referenced}

Go(p, next) == pc' = [pc EXCEPT ![p] = next]
Mark(p, i) == mark' = [mark EXCEPT ![p] = i]

\* The acquire loop's continue, and a call that has returned or thrown: either
\* way the descriptors are closed.
Again(p) == Go(p, "start") /\ Mark(p, None) /\ why' = [why EXCEPT ![p] = None]
Return(p) == Go(p, "done") /\ Mark(p, None) /\ why' = [why EXCEPT ![p] = None]

\* mkdir takes the path.
Make(p) ==
  /\ pc[p] = "start" /\ path = None
  /\ \E i \in Free : path' = i /\ maker' = [maker EXCEPT ![i] = p]
  /\ Go(p, "made")
  /\ UNCHANGED <<entries, blank, trash, parked, mark, why, waited, alive, crossed>>

\* The directory is opened by its path, after mkdir and not with it.
Open(p) ==
  /\ pc[p] = "made"
  /\ IF path = None THEN Return(p) /\ UNCHANGED crossed
     ELSE /\ Mark(p, path) /\ Go(p, "create") /\ UNCHANGED why
          /\ crossed' = (crossed \/ maker[path] # p)
  /\ UNCHANGED <<disk, waited, alive, maker>>

CreateToken(p) ==
  /\ pc[p] = "create"
  /\ IF path = None THEN Go(p, "rollback") /\ UNCHANGED <<entries, blank, crossed>>
     ELSE /\ entries' = [entries EXCEPT ![path] = @ \cup {p}]
          /\ blank' = blank \cup {p}
          /\ crossed' = (crossed \/ path # mark[p])
          /\ Go(p, "write")
  /\ UNCHANGED <<path, trash, parked, mark, why, waited, alive, maker>>

\* The disk may refuse the write.
WriteToken(p) ==
  /\ pc[p] = "write"
  /\ \/ blank' = blank \ {p} /\ Go(p, "confirm")
     \/ UNCHANGED blank /\ Go(p, "rollback")
  /\ UNCHANGED <<path, entries, trash, parked, mark, why, waited, alive, history>>

InPlace(p) == path = mark[p]

Confirm(p) ==
  /\ pc[p] = "confirm"
  /\ Go(p, IF InPlace(p) THEN "holding" ELSE "rollback")
  /\ UNCHANGED <<disk, mark, why, waited, alive, history>>

\* rollbackCreatedDir(): sever the directory if it is still there; otherwise
\* the token may have landed in another's, and is removed by its own name.
Rollback(p) ==
  /\ pc[p] = "rollback"
  /\ IF path = mark[p]
     THEN Go(p, "sever") /\ why' = [why EXCEPT ![p] = "rollback"] /\ UNCHANGED <<entries, mark>>
     ELSE /\ entries' = IF path = None THEN entries ELSE [entries EXCEPT ![path] = @ \ {p}]
          /\ Return(p)
  /\ blank' = blank \ {p}
  /\ UNCHANGED <<path, trash, parked, waited, alive, history>>

----
\* mkdir found the path taken: its directory is opened before it is judged.
Look(p) ==
  /\ pc[p] = "start" /\ path # None
  /\ Mark(p, path) /\ Go(p, "judge")
  /\ UNCHANGED <<disk, why, waited, alive, history>>

\* Mutant of Expired: an empty directory is waited on for ever.
NeverExpired(p) == FALSE

Expired(p) == p \in waited

\* observeOwner(), and what its answer allows.
Judge(p) ==
  /\ pc[p] = "judge"
  /\ \/ path = None /\ Again(p) /\ UNCHANGED waited
     \/ /\ path # None /\ entries[path] = {}
        /\ IF Expired(p)
           THEN /\ Go(p, "sever") /\ why' = [why EXCEPT ![p] = "empty"]
                /\ waited' = waited \ {p} /\ UNCHANGED mark
           ELSE Again(p) /\ waited' = waited \cup {p}
     \/ /\ path # None /\ entries[path] # {}
        /\ Return(p) /\ UNCHANGED waited
     \/ \E owner \in Processes \ (alive \cup blank) :
          /\ path # None /\ entries[path] = {owner}
          /\ Go(p, "sever") /\ why' = [why EXCEPT ![p] = owner]
          /\ waited' = waited \ {p} /\ UNCHANGED mark
  /\ UNCHANGED <<disk, alive, history>>

\* severAndRemove(): the rename is the claim.  What comes after it depends on
\* who severs: the acquire loop goes round, a rollback throws, a release ends.
After(p) == IF why[p] \in {"release", "rollback"} THEN Return(p) ELSE Again(p)

Sever(p) ==
  /\ pc[p] = "sever"
  /\ IF path = None THEN After(p) /\ UNCHANGED <<path, trash>>
     ELSE /\ trash' = [trash EXCEPT ![p] = path] /\ path' = None
          /\ Go(p, "settle") /\ UNCHANGED <<mark, why>>
  /\ UNCHANGED <<entries, blank, parked, waited, alive, history>>

\* Mutant of Foreign: an emptiness that was judged is not looked at again.
ForeignByIdentity(p) == trash[p] # mark[p]

\* The rename won a directory that was never judged, or one whose owner's
\* token has landed since.
Foreign(p) ==
  \/ trash[p] # mark[p]
  \/ why[p] = "empty" /\ entries[trash[p]] # {}

\* The token that was judged is in the directory that was judged no longer.
Drifted(p) == why[p] \in Processes /\ why[p] \notin entries[trash[p]]

\* Left for the operator, with an error that names it.  A release may be tried
\* again; every other call is over.
Park(p) ==
  /\ parked' = parked \cup {trash[p]}
  /\ why' = [why EXCEPT ![p] = None]
  /\ IF why[p] = "release" THEN Go(p, "holding") /\ UNCHANGED mark
     ELSE Go(p, "done") /\ Mark(p, None)

Settle(p) ==
  /\ pc[p] = "settle"
  /\ trash' = [trash EXCEPT ![p] = None]
  /\ \/ \* rename puts it back, over an empty directory too
        /\ Foreign(p) /\ (path # None => entries[path] = {})
        /\ path' = trash[p] /\ After(p) /\ UNCHANGED <<entries, parked>>
     \/ /\ Foreign(p) /\ path # None /\ entries[path] # {}
        /\ Park(p) /\ UNCHANGED <<path, entries>>
     \/ ~Foreign(p) /\ Drifted(p) /\ Park(p) /\ UNCHANGED <<path, entries>>
     \/ /\ ~Foreign(p) /\ ~Drifted(p)
        /\ entries' = [entries EXCEPT ![trash[p]] = {}]
        /\ After(p) /\ UNCHANGED <<path, parked>>
  /\ UNCHANGED <<blank, waited, alive, history>>

----

\* What every beat proves before it writes and the path again after it.  A beat
\* that can prove it renews the token, which nothing here reads.
Provable(p) == path = mark[p] /\ entries[path] = {p}

\* The beat throws in a timer: the process ends.
FailStop(p) ==
  /\ pc[p] = "holding" /\ ~Provable(p)
  /\ Return(p)
  /\ alive' = alive \ {p}
  /\ UNCHANGED <<disk, waited, history>>

Release(p) ==
  /\ pc[p] = "holding"
  /\ IF path = mark[p]
     THEN Go(p, "sever") /\ why' = [why EXCEPT ![p] = "release"] /\ UNCHANGED mark
     ELSE Return(p)
  /\ UNCHANGED <<disk, waited, alive, history>>

\* Death closes the descriptors and leaves the disk as it is.
Die(p) ==
  /\ p \in alive
  /\ alive' = alive \ {p}
  /\ Return(p)
  /\ trash' = [trash EXCEPT ![p] = None]
  /\ parked' = parked \cup ({trash[p]} \ {None})
  /\ UNCHANGED <<path, entries, blank, waited, history>>

----
Acquire(p) ==
  \/ Make(p) \/ Open(p) \/ CreateToken(p) \/ WriteToken(p) \/ Confirm(p) \/ Rollback(p)
  \/ Look(p) \/ Judge(p) \/ Sever(p) \/ Settle(p)

Step(p) == p \in alive /\ (Acquire(p) \/ FailStop(p) \/ Release(p) \/ Die(p))

Next == \E p \in Processes : Step(p)

\* A process that is running runs on, and its heartbeat timer fires.
Fairness ==
  \A p \in Processes : /\ WF_vars(p \in alive /\ Acquire(p))
                       /\ WF_vars(p \in alive /\ FailStop(p))

Spec == Init /\ [][Next]_vars
FairSpec == Spec /\ Fairness

----
(* Properties. *)

TypeOK ==
  /\ path \in Inodes \cup {None}
  /\ entries \in [Inodes -> SUBSET Processes]
  /\ blank \subseteq Processes
  /\ trash \in [Processes -> Inodes \cup {None}]
  /\ parked \subseteq Inodes
  /\ pc \in [Processes -> {"start", "made", "create", "write", "confirm", "holding",
                          "rollback", "judge", "sever", "settle", "done"}]
  /\ mark \in [Processes -> Inodes \cup {None}]
  /\ why \in [Processes -> Guards \cup {None}]
  /\ waited \subseteq Processes /\ alive \subseteq Processes
  /\ maker \in [Inodes -> Processes \cup {None}] /\ crossed \in BOOLEAN
  /\ \A p \in Processes : /\ trash[p] # None <=> pc[p] = "settle"
                          /\ mark[p] # None => p \in alive
                          /\ pc[p] \in {"sever", "settle"} <=> why[p] # None

Holding == {p \in alive : pc[p] = "holding"}

\* A live lock is never silently orphaned (locks.ts 350-357): whatever races its
\* directory was renamed in, a holder's directory still has its token, and is at
\* the path, on its way back to it or parked where an error says.  It presumes
\* that mkdir, open and the token's creation, three calls by path, met one
\* directory; when they did not, TLC finds holders without a directory.
HeldIsKept ==
  ~crossed => \A p \in Holding : Linked(mark[p]) /\ p \in entries[mark[p]]

\* The residual window of locks.ts 35-46 closes: when two live processes both
\* believe they hold the lease, a beat ends that.
DoubleHoldingEnds ==
  \A p, q \in Processes : p # q => (({p, q} \subseteq Holding) ~> ~({p, q} \subseteq Holding))

\* An acquire call returns or throws: it never waits for ever on a directory
\* whose maker crashed, nor chases others round the loop.
AcquireReturns ==
  \A p \in Processes : pc[p] = "start" ~> pc[p] \in {"holding", "done"}

\* What locks.ts 43-46 says: displacing a live holder is unreachable, since
\* reclamation asks for a stale heartbeat and a dead owner.
LiveHolderInPlace == \A p \in Holding : path = mark[p]
====
