---- MODULE Registration ----
(***************************************************************************)
(* The registration of a campaign: registerCampaign of campaign/           *)
(* registration.ts with the snapshot it materializes (snapshot.ts,         *)
(* instrument-snapshot.ts), the journal it starts and the document it      *)
(* publishes last (campaign-document.ts), and those who load a campaign.   *)
(*                                                                         *)
(* Registrars may die at any step and may be told the same campaign id.    *)
(* What a suite says is Compilation's; here it is refused or it is not.    *)
(* The lease is DirLease's, exclusive and taken over from the dead; how    *)
(* callers share a worktree is DestLock's.                                 *)
(***************************************************************************)
EXTENDS Naturals

CONSTANTS
  Registrars,
  Null

VARIABLES
  lease,    \* who has registration.lock.d
  pc,
  disk,     \* the campaign directory
  told      \* what each registrar answered

regVars == <<lease, pc, disk, told>>

Trees == {"evals", "gauntlet", "arms"}

RegInit ==
  /\ lease = Null
  /\ pc = [r \in Registrars |-> "resolve"]
  /\ told = [r \in Registrars |-> Null]
  /\ disk = [made |-> FALSE,
             tree |-> [t \in Trees |-> "none"],
             marker |-> FALSE, installed |-> FALSE, wrapper |-> FALSE,
             ballast |-> FALSE, journal |-> "none", doc |-> "none"]

----
(* What the steps share. *)

Goes(r, next) == pc' = [pc EXCEPT ![r] = next]
At(r, where) == pc[r] = where /\ lease = r

\* An error: the finally releases the lease, the directory stays as it is.
Refuses(r) == Goes(r, "release") /\ told' = [told EXCEPT ![r] = "refused"]

\* Mutant of Tries: a step that failed is passed over.
TriesOn(r, next, change) ==
  disk' \in {change, disk} /\ Goes(r, next) /\ UNCHANGED <<lease, told>>

\* A step that does this to the directory, or fails.
Tries(r, next, change) ==
  \/ disk' = change /\ Goes(r, next) /\ UNCHANGED <<lease, told>>
  \/ Refuses(r) /\ UNCHANGED <<lease, disk>>

\* A check that passes or is the end of it.
Demands(r, next, holds) ==
  /\ IF holds THEN Goes(r, next) /\ UNCHANGED told ELSE Refuses(r)
  /\ UNCHANGED <<lease, disk>>

----
(* registerCampaign, down to the snapshot. *)

\* The suite, the grader and the refs are resolved, the intake is read from the
\* object store and compiled: nothing is written.
Resolve(r) ==
  /\ pc[r] = "resolve"
  /\ \/ Goes(r, "lease") /\ UNCHANGED told
     \/ Goes(r, "done") /\ told' = [told EXCEPT ![r] = "refused"]
  /\ UNCHANGED <<lease, disk>>

\* acquireLease: a holder that is alive makes the call throw.
Acquire(r) ==
  /\ pc[r] = "lease"
  /\ IF lease = Null \/ pc[lease] = "dead"
     THEN lease' = r /\ Goes(r, "collision") /\ UNCHANGED told
     ELSE /\ Goes(r, "done") /\ told' = [told EXCEPT ![r] = "refused"]
          /\ UNCHANGED lease
  /\ UNCHANGED disk

\* The campaign id was never used here.
Fresh == ~disk.made

Collision(r) == At(r, "collision") /\ Demands(r, "evals", Fresh)

\* ensureWorktreeAt: an exact tree is reused, anything else there is refused, and
\* an add that failed is cleaned up if it can be.
Ensures(r, t, next) ==
  \/ /\ disk.tree[t] = "none"
     /\ Tries(r, next, [disk EXCEPT !.made = TRUE, !.tree[t] = "whole"])
  \/ /\ disk.tree[t] = "none"
     /\ disk' = [disk EXCEPT !.made = TRUE, !.tree[t] = "partial"]
     /\ Refuses(r) /\ UNCHANGED lease
  \/ disk.tree[t] # "none" /\ Demands(r, next, disk.tree[t] = "whole")

\* A registrar that dies in git worktree add leaves what there is.
Adding(r, t) ==
  /\ disk.tree[t] = "none"
  /\ disk' = [disk EXCEPT !.made = TRUE, !.tree[t] = "partial"]
  /\ Goes(r, "dead") /\ UNCHANGED <<lease, told>>

Evals(r) == At(r, "evals") /\ (Ensures(r, "evals", "gauntlet") \/ Adding(r, "evals"))
Gauntlet(r) ==
  At(r, "gauntlet") /\ (Ensures(r, "gauntlet", "marker") \/ Adding(r, "gauntlet"))

\* Without the success marker, what it stands for is done again.
Marked(r) ==
  /\ At(r, "marker")
  /\ Goes(r, IF disk.marker THEN "arms" ELSE "install")
  /\ UNCHANGED <<lease, disk, told>>

\* bun install in both trees; the wrapper by a rename; the marker, exclusively.
Install(r) == At(r, "install") /\ Tries(r, "wrapper", [disk EXCEPT !.installed = TRUE])
Wrapper(r) == At(r, "wrapper") /\ Tries(r, "mark", [disk EXCEPT !.wrapper = TRUE])
Mark(r) ==
  /\ At(r, "mark")
  /\ IF disk.marker THEN Refuses(r) /\ UNCHANGED <<lease, disk>>
     ELSE Tries(r, "arms", [disk EXCEPT !.marker = TRUE])

\* The superpowers trees of the arms.
Arms(r) == At(r, "arms") /\ (Ensures(r, "arms", "match") \/ Adding(r, "arms"))

----
(* From the snapshot to the document. *)

\* verifyIntakeMatch and the second compile: byte for byte what was digested.
Matches == disk.tree["evals"] = "whole"

Match(r) == At(r, "match") /\ Demands(r, "probe", Matches)

\* The child contract, and the prices if the suite has a snapshot of them.
Probe(r) == At(r, "probe") /\ Tries(r, "ballast", disk)

\* Both are created exclusively.
Ballast(r) ==
  /\ At(r, "ballast")
  /\ IF disk.ballast THEN Refuses(r) /\ UNCHANGED <<lease, disk>>
     ELSE Tries(r, "journal", [disk EXCEPT !.ballast = TRUE])

Journal(r) ==
  /\ At(r, "journal")
  /\ IF disk.journal # "none" THEN Refuses(r) /\ UNCHANGED <<lease, disk>>
     ELSE Tries(r, "commit", [disk EXCEPT !.journal = "empty"])

\* The election and the first transition; a COMMIT may fail and be there.
Commit(r) ==
  /\ At(r, "commit")
  /\ \/ Tries(r, "publish", [disk EXCEPT !.journal = "registered"])
     \/ /\ disk' = [disk EXCEPT !.journal = "registered"]
        /\ Refuses(r) /\ UNCHANGED lease

Publishable == disk.journal = "registered" /\ disk.doc = "none"

\* Staged, synced and renamed: the document is whole or not there.
Publish(r) ==
  /\ At(r, "publish")
  /\ IF Publishable THEN Tries(r, "sync", [disk EXCEPT !.doc = "whole"])
     ELSE Refuses(r) /\ UNCHANGED <<lease, disk>>

\* The directory is synced after the rename: it may fail with the document there.
Sync(r) ==
  /\ At(r, "sync")
  /\ \/ Goes(r, "release") /\ told' = [told EXCEPT ![r] = "registered"]
     \/ Refuses(r)
  /\ UNCHANGED <<lease, disk>>

Release(r) ==
  /\ pc[r] = "release"
  /\ lease' = IF lease = r THEN Null ELSE lease
  /\ Goes(r, "done")
  /\ UNCHANGED <<disk, told>>

Dies(r) ==
  /\ pc[r] \notin {"done", "dead"}
  /\ Goes(r, "dead")
  /\ UNCHANGED <<lease, disk, told>>

\* Somebody works in a tree of the snapshot.
Drift(t) ==
  /\ disk.tree[t] = "whole"
  /\ disk' = [disk EXCEPT !.tree[t] = "drifted"]
  /\ UNCHANGED <<lease, pc, told>>

RegNext ==
  \/ \E r \in Registrars :
       \/ Resolve(r) \/ Acquire(r) \/ Collision(r)
       \/ Evals(r) \/ Gauntlet(r) \/ Marked(r) \/ Install(r) \/ Wrapper(r) \/ Mark(r) \/ Arms(r)
       \/ Match(r) \/ Probe(r) \/ Ballast(r) \/ Journal(r) \/ Commit(r)
       \/ Publish(r) \/ Sync(r) \/ Release(r) \/ Dies(r)
  \/ \E t \in Trees : Drift(t)

RegSpec == RegInit /\ [][RegNext]_regVars

----
(* Those who load it: loadFrozenCampaign, and the session that takes its      *)
(* instrument from what is on disk (reconstructCampaignSnapshot,              *)
(* verifyCampaignSnapshot).                                                   *)

Loadable == disk.doc = "whole" /\ disk.journal = "registered"
Complete == disk.marker /\ disk.wrapper
Verified == Complete /\ \A t \in Trees : disk.tree[t] = "whole"

----
(* Properties. *)

RegTypeOK ==
  /\ lease \in Registrars \cup {Null}
  /\ pc \in [Registrars -> {"resolve", "lease", "collision", "evals", "gauntlet", "marker",
       "install", "wrapper", "mark", "arms", "match", "probe", "ballast", "journal",
       "commit", "publish", "sync", "release", "done", "dead"}]
  /\ told \in [Registrars -> {Null, "refused", "registered"}]
  /\ disk.tree \in [Trees -> {"none", "partial", "whole", "drifted"}]
  /\ disk.journal \in {"none", "empty", "registered"} /\ disk.doc \in {"none", "whole"}

\* "Never runnable" before campaign.json, and whole with it (design of the
\* appliance v2, 450): wherever registrars died or were refused, a campaign that
\* loads has its snapshot installed, its trees, its reserve and its registration;
\* only a change made to a tree keeps a session from it.
LoadableIsWhole ==
  Loadable =>
    /\ disk.ballast /\ disk.installed /\ Complete
    /\ \A t \in Trees : disk.tree[t] \in {"whole", "drifted"}
    /\ ~Verified => \E t \in Trees : disk.tree[t] = "drifted"

\* A registrar that answered "registered" left a campaign that loads, and it is the
\* only one that did.  Of one that was refused nothing is said: it may have met the
\* document of another, or its own may load although the last fsync failed.
AnswersAreTrue ==
  \A r \in Registrars :
    told[r] = "registered" =>
      Loadable /\ \A q \in Registrars \ {r} : told[q] # "registered"

\* No registrar touches a campaign that is published, whatever id it was given.
PublishedIsFrozen == disk.doc = "whole" => disk' = [disk EXCEPT !.tree = disk'.tree]

\* The three together.
RegistrationIsWhole == [](LoadableIsWhole /\ AnswersAreTrue) /\ [][PublishedIsFrozen]_regVars
====
