---- MODULE DestLock ----
(***************************************************************************)
(* One worktree per destination (campaign/provisioning.ts): withDestLock,  *)
(* the directory that makes its callers take turns, around the check for   *)
(* an earlier tree and git worktree add.                                   *)
(*                                                                         *)
(* A directory at the lock path is what mkdir makes; an owner-<uuid> file  *)
(* in it, one per call, is the owner.  The calls that wait reclaim what    *)
(* has been there for LOCK_STALE_MS, and an empty directory they have seen *)
(* empty before.  Every system call is a step; ages are two, fresh and     *)
(* stale.  Entries that are no owner's, symbolic links and the age of an   *)
(* empty directory are left out.                                           *)
(***************************************************************************)
EXTENDS Naturals, FiniteSets

CONSTANTS
  Callers,   \* one call of ensureValidatedWorktree each
  Gone,      \* an earlier caller, that died wherever it was
  Directories,   \* bound: those that mkdir may make
  Nothing

VARIABLES
  place,    \* the directory at the lock path
  files,    \* of each directory, the owners whose file it has
  aside,    \* of each caller, the directory under its private name
  stale,    \* of each directory, those older than LOCK_STALE_MS
  at,
  mine,     \* of each caller, the directory its descriptor is open on
  seen,     \* emptySince: the callers that saw an empty directory at their last poll
  tree,     \* what is at the destination
  answer,   \* how each call ended
  shared,   \* history: two callers were in the section at once
  harmed    \* history: a file was removed that was fresh and another's

lockVars == <<place, files, aside, stale, at, mine, seen, tree, answer, shared, harmed>>

Owners == Callers \cup {Gone}

\* What an earlier caller may have left.
LockInit ==
  /\ \E left \in {{}, {Gone}} : \E there \in Directories \cup {Nothing} :
       /\ there # Nothing => \A i \in Directories : there <= i
       /\ place = there
       /\ files = [i \in Directories |-> IF i = there THEN left ELSE {}]
  /\ tree \in (IF place = Nothing THEN {"none"} ELSE {"none", "partial", "whole"})
  /\ aside = [p \in Callers |-> Nothing] /\ stale = [i \in Directories |-> {}]
  /\ at = [p \in Callers |-> "mkdir"] /\ mine = [p \in Callers |-> Nothing]
  /\ seen = {}
  /\ answer = [p \in Callers |-> "none"] /\ shared = FALSE /\ harmed = FALSE

----
(* What the steps share. *)

Inside == {p \in Callers : at[p] \in {"section", "add", "adding", "cleanup"}}
Unused ==
  {i \in Directories : place # i /\ files[i] = {} /\ \A p \in Callers : i \notin {aside[p], mine[p]}}

Goes(p, next) == at' = [at EXCEPT ![p] = next]
Says(p, what) == answer' = [answer EXCEPT ![p] = what]
Disk == <<place, files, aside, stale>>
Work == <<tree, answer, harmed>>

\* What makes a caller come round again: its descriptor is closed.
Retry(p) == mine' = [mine EXCEPT ![p] = Nothing]

----
(* tryAcquireLock. *)

Mkdir(p) ==
  /\ at[p] = "mkdir"
  /\ IF place = Nothing
     THEN /\ \E i \in Unused : (\A j \in Unused : i <= j) /\ place' = i
          /\ Goes(p, "open")
     ELSE Goes(p, "look") /\ UNCHANGED place
  /\ UNCHANGED <<files, aside, stale, mine, seen, Work, shared>>

\* The directory is opened by its path; a path that is free again is an error.
Enter(p) ==
  /\ at[p] = "open"
  /\ IF place = Nothing
     THEN Goes(p, "done") /\ Says(p, "error") /\ UNCHANGED mine
     ELSE Goes(p, "pin") /\ mine' = [mine EXCEPT ![p] = place] /\ UNCHANGED answer
  /\ UNCHANGED <<Disk, seen, tree, shared, harmed>>

\* The owner file is created by its path too, exclusively.
Pin(p) ==
  /\ at[p] = "pin"
  /\ IF place = Nothing
     THEN Goes(p, "look") /\ Retry(p) /\ UNCHANGED <<files, answer>>
     ELSE IF p \in files[place]
     THEN Goes(p, "done") /\ Says(p, "error") /\ Retry(p) /\ UNCHANGED files
     ELSE /\ files' = [files EXCEPT ![place] = @ \cup {p}]
          /\ Goes(p, "verify") /\ UNCHANGED <<mine, answer>>
  /\ UNCHANGED <<place, aside, stale, seen, tree, shared, harmed>>

\* The swap check.
Verify(p) ==
  /\ at[p] = "verify"
  /\ IF place = mine[p]
     THEN /\ Goes(p, "section") /\ shared' = (shared \/ Inside # {})
          /\ UNCHANGED mine
     ELSE Goes(p, "look") /\ Retry(p) /\ UNCHANGED shared
  /\ UNCHANGED <<Disk, seen, Work>>

----
(* reclaimStaleLock and the poll. *)

\* Nothing fresh: every owner is stale, or it is empty and was so at the last poll.
Reclaimable(p) ==
  \/ files[place] # {} /\ files[place] = stale[place]
  \/ files[place] = {} /\ p \in seen

Observe(p) ==
  /\ at[p] = "look"
  /\ IF place = Nothing THEN Goes(p, "mkdir") /\ seen' = seen \ {p}
     ELSE Goes(p, IF Reclaimable(p) THEN "sever" ELSE "poll") /\ UNCHANGED seen
  /\ UNCHANGED <<Disk, mine, Work, shared>>

\* An emptiness that is seen here is past its grace at the next look.
Wait(p) ==
  /\ at[p] = "poll"
  /\ seen' = IF place # Nothing /\ files[place] = {} THEN seen \cup {p} ELSE seen \ {p}
  /\ Goes(p, "mkdir")
  /\ UNCHANGED <<Disk, mine, Work, shared>>

Displace(p) ==
  /\ at[p] = "sever"
  /\ IF place = Nothing
     THEN Goes(p, "mkdir") /\ seen' = seen \ {p} /\ UNCHANGED <<place, aside>>
     ELSE /\ aside' = [aside EXCEPT ![p] = place] /\ place' = Nothing
          /\ Goes(p, "sift") /\ UNCHANGED seen
  /\ UNCHANGED <<files, stale, mine, Work, shared>>

\* Mutant of Spared: whatever is under the trash is removed.
SparedNone(p) == {}

\* The owner files that landed after the look are not removed.
Spared(p) == files[aside[p]] \ stale[aside[p]]

\* A rename puts a directory back on a free path, or over an empty directory.
CanPutBack == place = Nothing \/ files[place] = {}
PutBack(p) ==
  /\ IF CanPutBack THEN place' = aside[p] ELSE UNCHANGED place
  /\ aside' = [aside EXCEPT ![p] = Nothing]

\* These files are left in what was renamed; an orphan is of no more concern.
Leaves(p, left, mayReturn) ==
  LET kept == IF mayReturn /\ CanPutBack THEN left ELSE {} IN
  /\ files' = [files EXCEPT ![aside[p]] = kept]
  /\ stale' = [stale EXCEPT ![aside[p]] = @ \cap kept]
  /\ harmed' = (harmed \/ ~ (files[aside[p]] \ left) \subseteq stale[aside[p]] \cup {p})

\* What is stale goes; with something fresh among it the lock is put back, or
\* stays an orphan.
Sift(p) ==
  /\ at[p] = "sift"
  /\ Leaves(p, Spared(p), Spared(p) # {})
  /\ IF Spared(p) # {}
     THEN PutBack(p) /\ Goes(p, "poll") /\ UNCHANGED seen
     ELSE /\ aside' = [aside EXCEPT ![p] = Nothing] /\ UNCHANGED place
          /\ Goes(p, "mkdir") /\ seen' = seen \ {p}
  /\ UNCHANGED <<mine, tree, answer, shared>>

----
(* The section: the tree is reused or added, and removed when adding failed. *)

Reuse(p) ==
  /\ at[p] = "section"
  /\ IF tree = "none" THEN Goes(p, "add") /\ UNCHANGED answer
     ELSE Goes(p, "release") /\ Says(p, IF tree = "whole" THEN "ok" ELSE "error")
  /\ UNCHANGED <<Disk, mine, seen, tree, shared, harmed>>

\* git worktree add refuses a destination that is there.
Add(p) ==
  /\ at[p] = "add"
  /\ IF tree = "none" THEN tree' = "partial" /\ Goes(p, "adding")
     ELSE UNCHANGED tree /\ Goes(p, "cleanup")
  /\ UNCHANGED <<Disk, mine, seen, answer, shared, harmed>>

Added(p) ==
  /\ at[p] = "adding"
  /\ \/ /\ tree' = (IF tree = "partial" THEN "whole" ELSE tree)
        /\ Says(p, "ok") /\ Goes(p, "release")
     \/ Goes(p, "cleanup") /\ UNCHANGED <<tree, answer>>
  /\ UNCHANGED <<Disk, mine, seen, shared, harmed>>

\* git worktree remove --force, which may fail as well.
Cleanup(p) ==
  /\ at[p] = "cleanup"
  /\ tree' \in {"none", tree}
  /\ Says(p, "error") /\ Goes(p, "release")
  /\ UNCHANGED <<Disk, mine, seen, shared, harmed>>

----
(* releaseLock. *)

Closes(p) == Goes(p, "done") /\ Retry(p)

GiveUp(p) ==
  /\ at[p] = "release"
  /\ IF place = mine[p] THEN Goes(p, "unpin") /\ UNCHANGED mine ELSE Closes(p)
  /\ UNCHANGED <<Disk, seen, Work, shared>>

Unpin(p) ==
  /\ at[p] = "unpin"
  /\ IF place = Nothing THEN Closes(p) /\ UNCHANGED <<place, aside>>
     ELSE /\ aside' = [aside EXCEPT ![p] = place] /\ place' = Nothing
          /\ Goes(p, "tear") /\ UNCHANGED mine
  /\ UNCHANGED <<files, stale, seen, Work, shared>>

\* What was renamed is its own, or is put back untouched.
Tear(p) ==
  /\ at[p] = "tear"
  /\ IF aside[p] = mine[p]
     THEN /\ Leaves(p, files[aside[p]] \ {p}, FALSE)
          /\ aside' = [aside EXCEPT ![p] = Nothing] /\ UNCHANGED place
     ELSE Leaves(p, files[aside[p]], TRUE) /\ PutBack(p)
  /\ Closes(p)
  /\ UNCHANGED <<seen, tree, answer, shared>>

----
(* What happens to them. *)

\* Ten minutes pass over a file: of a caller that died, or of one that is slow.
Grows(p) ==
  /\ \E i \in Directories :
       p \in files[i] \ stale[i] /\ stale' = [stale EXCEPT ![i] = @ \cup {p}]
  /\ UNCHANGED <<place, files, aside, at, mine, seen, Work, shared>>

Dies(p) ==
  /\ at[p] \notin {"done", "dead"}
  /\ \A q \in Callers : at[q] # "dead"
  /\ Goes(p, "dead") /\ Retry(p)
  /\ aside' = [aside EXCEPT ![p] = Nothing]
  /\ files' = [i \in Directories |-> IF i = aside[p] THEN {} ELSE files[i]]
  /\ stale' = [i \in Directories |-> IF i = aside[p] THEN {} ELSE stale[i]]
  /\ UNCHANGED <<place, seen, Work, shared>>

Acts(p) ==
  \/ Mkdir(p) \/ Enter(p) \/ Pin(p) \/ Verify(p)
  \/ Observe(p) \/ Wait(p) \/ Displace(p) \/ Sift(p)
  \/ Reuse(p) \/ Add(p) \/ Added(p) \/ Cleanup(p)
  \/ GiveUp(p) \/ Unpin(p) \/ Tear(p)

LockNext ==
  \/ \E p \in Callers : Acts(p) \/ Dies(p)
  \/ \E p \in Owners : Grows(p)

\* A caller runs on, an owner file that stays grows old, and the polls of others,
\* a quarter of a second apart, do not fall between the mkdir of a caller and
\* its owner file for ever.
LockFairness ==
  /\ \A p \in Owners : WF_lockVars(Grows(p))
  /\ \A p \in Callers :
       /\ WF_lockVars(Acts(p))
       /\ SF_lockVars(place = mine[p] /\ Pin(p))
       /\ SF_lockVars(place = mine[p] /\ Verify(p))

LockSpec == LockInit /\ [][LockNext]_lockVars /\ LockFairness

----
(* Properties. *)

LockTypeOK ==
  /\ place \in Directories \cup {Nothing}
  /\ files \in [Directories -> SUBSET Owners]
  /\ aside \in [Callers -> Directories \cup {Nothing}]
  /\ \A i \in Directories : stale[i] \subseteq files[i]
  /\ seen \subseteq Callers
  /\ mine \in [Callers -> Directories \cup {Nothing}]
  /\ tree \in {"none", "partial", "whole"}
  /\ answer \in [Callers -> {"none", "ok", "error"}]
  /\ shared \in BOOLEAN /\ harmed \in BOOLEAN

\* "A live lock is never deleted" (provisioning.ts 337-338): whatever directory a
\* reclaim or a release renamed, the file of an owner that is not stale goes by
\* the hand of its own caller.
OwnersAreSpared == ~harmed

\* A call that returned left the whole tree, and nobody's cleanup removed it, as
\* long as the section was one caller's at a time.
TreesAreWhole == ~shared => \A p \in Callers : answer[p] = "ok" => tree = "whole"

\* No live caller's file is removed by another, and a tree that was promised is
\* whole.
WorktreesAreSafe == OwnersAreSpared /\ TreesAreWhole
====
