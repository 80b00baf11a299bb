---- MODULE AdmissionProofs ----
(***************************************************************************)
(* What a campaign is registered as, what it may launch, what halts it.    *)
(*                                                                         *)
(* The registration, for any number of registrars: what can be loaded is   *)
(* whole, who is told so is alone, and what is published is not touched    *)
(* again.  Whoever holds the lease found the directory fresh, so that all  *)
(* there is in it is that registrar's own work, and each place of its      *)
(* program says how far the work is.  A registrar that stops leaves it     *)
(* where it was, and nobody takes it up again: it is no longer fresh.      *)
(*                                                                         *)
(* The admission, for any registry and any blocks: pools and keys are      *)
(* never overdrawn.  A block fits before it is granted keys, so that each  *)
(* of its turns finds less held than the capacity; keys that are all at    *)
(* their allowance would be held as often as the capacity, so that one is  *)
(* below it; and aliases that share a key give it the same allowance.      *)
(*                                                                         *)
(* The contention guard, for any K, coverage, block and horizon: sampler   *)
(* and auditor count the same runs, so that their windows open and close   *)
(* together, and those are the runs a breach is made of.  An interval with *)
(* a sample after it is judged by what lies up to that sample: lines have  *)
(* later and later instants, so that none is inserted before it.           *)
(***************************************************************************)
EXTENDS Registration, Admission, Contention, FiniteSetTheorems, SequenceTheorems,
  WellFoundedInduction, TLAPS

----
(* The registration. *)

\* The places of the program, each from there on.
Journaled == {"publish", "sync"}
Ballasted == {"journal", "commit"} \cup Journaled
Armed == {"match", "probe", "ballast"} \cup Ballasted
MarkedOn == {"arms"} \cup Armed
Wrapped == {"mark"} \cup MarkedOn
Installed == {"wrapper"} \cup Wrapped
Planted == {"marker", "install"} \cup Installed
Begun == {"gauntlet"} \cup Planted
Building == {"evals"} \cup Begun
Active == {"collision", "release"} \cup Building
Places == {"resolve", "lease", "done", "dead"} \cup Active

DiskType ==
  disk \in [made : BOOLEAN, tree : [Trees -> {"none", "partial", "whole", "drifted"}],
            marker : BOOLEAN, installed : BOOLEAN, wrapper : BOOLEAN, ballast : BOOLEAN,
            journal : {"none", "empty", "registered"}, doc : {"none", "whole"}]

RegType ==
  /\ lease \in Registrars \cup {Null}
  /\ pc \in [Registrars -> Places]
  /\ told \in [Registrars -> {Null, "refused", "registered"}]
  /\ DiskType

\* Only the holder of the lease works, and until it lets go of it.
HolderWorks == \A r \in Registrars : pc[r] \in Active => lease = r

\* A directory that was never made has nothing in it.
FreshIsEmpty ==
  ~disk.made => (\A t \in Trees : disk.tree[t] = "none") /\ ~disk.marker /\ disk.doc = "none"

Stands(t) == disk.tree[t] \in {"whole", "drifted"}

\* What is there, by how far its registrar is.
Built(r) ==
  /\ pc[r] = "evals" => ~disk.made
  /\ pc[r] \in Begun => Stands("evals")
  /\ pc[r] \in Planted => Stands("gauntlet")
  /\ pc[r] \in Installed => disk.installed
  /\ pc[r] \in Wrapped => disk.wrapper
  /\ pc[r] \in Building \ MarkedOn => ~disk.marker
  /\ pc[r] \in MarkedOn => disk.marker
  /\ pc[r] \in Armed => Stands("arms")
  /\ pc[r] \in Ballasted => disk.ballast
  /\ pc[r] \in Journaled => disk.journal = "registered"
  /\ pc[r] \in Building \ {"sync"} => disk.doc = "none"
  /\ pc[r] = "sync" => disk.doc = "whole"

PublishedIsWhole ==
  disk.doc = "whole" =>
    /\ disk.journal = "registered" /\ disk.ballast /\ disk.installed /\ Complete
    /\ \A t \in Trees : Stands(t)

ToldIsOver ==
  \A r \in Registrars : told[r] = "registered" =>
    /\ disk.doc = "whole"
    /\ \A q \in Registrars : pc[q] \notin Building
    /\ \A q \in Registrars \ {r} : told[q] # "registered"

RegInv ==
  /\ RegType /\ HolderWorks /\ FreshIsEmpty /\ (\A r \in Registrars : Built(r))
  /\ PublishedIsWhole /\ ToldIsOver

USE DEF Journaled, Ballasted, Armed, MarkedOn, Wrapped, Installed, Planted, Begun, Building, Active,
        Places, Trees

\* A registrar at work is the only one.
LEMMA Alone ==
  ASSUME HolderWorks, NEW r \in Registrars, pc[r] \in Active
  PROVE  lease = r /\ \A q \in Registrars \ {r} : pc[q] \notin Active
BY DEF HolderWorks

\* A registrar that builds and goes on.
LEMMA GoesOn ==
  ASSUME RegInv, NEW r \in Registrars, pc[r] \in {"collision"} \cup Building, UNCHANGED <<lease, told>>,
         NEW next \in Building, Goes(r, next), DiskType', FreshIsEmpty',
         \A q \in Registrars : told[q] # "registered",
         pc'[r] = next => Built(r)' /\ PublishedIsWhole'
  PROVE  RegInv'
<1>1. pc' \in [Registrars -> Places] /\ pc'[r] = next /\ \A q \in Registrars \ {r} : pc'[q] = pc[q]
  BY DEF RegInv, RegType, Goes
<1>2. lease = r /\ \A q \in Registrars \ {r} : pc[q] \notin Active
  BY Alone DEF RegInv
<1>3. RegType' /\ HolderWorks'
  BY <1>1, <1>2 DEF RegInv, RegType, HolderWorks
<1>4. \A q \in Registrars \ {r} : Built(q)'
  BY <1>1, <1>2 DEF Built
<1>5. ToldIsOver'
  BY DEF ToldIsOver
<1> QED
  BY <1>1, <1>3, <1>4, <1>5 DEF RegInv

\* A registrar that builds and stops, with what it may leave of the step.
LEMMA StopsThere ==
  ASSUME RegInv, NEW r \in Registrars, pc[r] \in {"collision"} \cup Building, UNCHANGED lease,
         NEW next \in {"release", "dead"}, Goes(r, next),
         told' \in {told, [told EXCEPT ![r] = "refused"]},
         DiskType', FreshIsEmpty',
         disk.doc = "whole" => disk' = disk, disk'.doc = disk.doc
  PROVE  RegInv'
<1>1. pc' \in [Registrars -> Places] /\ pc'[r] = next /\ \A q \in Registrars \ {r} : pc'[q] = pc[q]
  BY DEF RegInv, RegType, Goes
<1>2. lease = r /\ \A q \in Registrars \ {r} : pc[q] \notin Active
  BY Alone DEF RegInv
<1>3. /\ told' \in [Registrars -> {Null, "refused", "registered"}]
      /\ \A q \in Registrars : told'[q] = "registered" => told[q] = "registered"
  BY DEF RegInv, RegType
<1>4. RegType' /\ HolderWorks'
  BY <1>1, <1>2, <1>3 DEF RegInv, RegType, HolderWorks
<1>5. \A q \in Registrars : Built(q)'
  BY <1>1, <1>2 DEF Built
<1>6. PublishedIsWhole'
  BY DEF RegInv, PublishedIsWhole, Stands, Complete
<1>7. ToldIsOver'
  BY <1>1, <1>3 DEF RegInv, ToldIsOver
<1> QED
  BY <1>4, <1>5, <1>6, <1>7 DEF RegInv

\* While somebody builds, nothing was published and nobody was told.
LEMMA NobodyTold ==
  ASSUME RegInv, NEW r \in Registrars, pc[r] \in Building
  PROVE  \A q \in Registrars : told[q] # "registered"
BY DEF RegInv, ToldIsOver

\* A step that is refused, in a state that stays as it is.
LEMMA Refused ==
  ASSUME RegInv, NEW r \in Registrars, pc[r] \in {"collision"} \cup Building,
         Refuses(r), UNCHANGED <<lease, disk>>
  PROVE  RegInv'
<1>1. DiskType' /\ FreshIsEmpty'
  BY DEF RegInv, RegType, DiskType, FreshIsEmpty
<1> QED
  BY <1>1, StopsThere DEF Refuses

LEMMA TreeLaid ==
  ASSUME DiskType, NEW t \in Trees, NEW state \in {"partial", "whole", "drifted"},
         disk' = [disk EXCEPT !.made = TRUE, !.tree[t] = state]
  PROVE  /\ DiskType' /\ disk'.made /\ disk'.tree[t] = state
         /\ \A u \in Trees \ {t} : disk'.tree[u] = disk.tree[u]
         /\ disk'.marker = disk.marker /\ disk'.installed = disk.installed
         /\ disk'.wrapper = disk.wrapper /\ disk'.ballast = disk.ballast
         /\ disk'.journal = disk.journal /\ disk'.doc = disk.doc
<1> DEFINE laid == [disk.tree EXCEPT ![t] = state]
<1>1. laid \in [Trees -> {"none", "partial", "whole", "drifted"}] /\ laid[t] = state
      /\ \A u \in Trees \ {t} : laid[u] = disk.tree[u]
  BY DEF DiskType
<1>2. disk' = [disk EXCEPT !.made = TRUE, !.tree = laid]
  OBVIOUS
<1> HIDE DEF laid
<1> QED
  BY <1>1, <1>2 DEF DiskType

\* A worktree: there and whole, added, or the end of it.
LEMMA EnsuresKeeps ==
  ASSUME RegInv, NEW r \in Registrars, NEW t \in Trees, NEW next \in Begun,
         \/ pc[r] = "evals" /\ t = "evals" /\ next = "gauntlet"
         \/ pc[r] = "gauntlet" /\ t = "gauntlet" /\ next = "marker"
         \/ pc[r] = "arms" /\ t = "arms" /\ next = "match",
         Ensures(r, t, next) \/ Adding(r, t)
  PROVE  RegInv'
<1>1. pc[r] \in Building \ {"sync"} /\ disk.doc = "none" /\ Built(r) /\ DiskType /\ FreshIsEmpty
  BY DEF Built, RegType, RegInv
<1>2. (\A q \in Registrars : told[q] # "registered") /\ lease = r
  BY <1>1, NobodyTold DEF RegInv, HolderWorks
<1>3. CASE Goes(r, next) /\ UNCHANGED <<lease, told>>
           /\ \/ disk' = [disk EXCEPT !.made = TRUE, !.tree[t] = "whole"]
              \/ disk' = disk /\ disk.tree[t] = "whole"
  <2>1. /\ DiskType' /\ disk'.tree[t] = "whole" /\ disk'.made
        /\ \A u \in Trees \ {t} : disk'.tree[u] = disk.tree[u]
        /\ disk'.marker = disk.marker /\ disk'.installed = disk.installed
        /\ disk'.wrapper = disk.wrapper /\ disk'.doc = disk.doc
    <3>1. CASE disk' = [disk EXCEPT !.made = TRUE, !.tree[t] = "whole"]
      BY <1>1, <3>1, TreeLaid
    <3>2. CASE disk' = disk /\ disk.tree[t] = "whole"
      <4>1. DiskType'
        BY <1>1, <3>2 DEF DiskType
      <4>2. disk.made
        BY <1>1, <3>2 DEF FreshIsEmpty, DiskType
      <4> QED
        BY <3>2, <4>1, <4>2
    <3> QED
      BY <1>3, <3>1, <3>2
  <2>2. Stands(t)' /\ \A u \in Trees : Stands(u) => Stands(u)'
    BY <2>1 DEF Stands
  <2>3. FreshIsEmpty'
    BY <2>1 DEF FreshIsEmpty
  <2>4. PublishedIsWhole'
    BY <1>1, <2>1 DEF PublishedIsWhole
  <2>5. pc'[r] = next => Built(r)'
    BY <1>1, <2>1, <2>2 DEF Built
  <2> QED
    BY <1>1, <1>2, <1>3, <2>1, <2>3, <2>4, <2>5, GoesOn
<1>4. CASE /\ disk' = [disk EXCEPT !.made = TRUE, !.tree[t] = "partial"] /\ UNCHANGED lease
           /\ \/ Refuses(r)
              \/ Goes(r, "dead") /\ UNCHANGED told
  <2>1. DiskType' /\ disk'.doc = disk.doc /\ FreshIsEmpty'
    BY <1>1, <1>4, TreeLaid DEF FreshIsEmpty
  <2> QED
    BY <1>1, <1>4, <2>1, StopsThere DEF Refuses
<1>5. CASE Refuses(r) /\ UNCHANGED <<lease, disk>>
  BY <1>1, <1>5, Refused
<1> QED
  BY <1>3, <1>4, <1>5 DEF Ensures, Adding, Tries, Demands

\* A step of a builder that changes the directory as it should, or is refused.
LEMMA TriesKeeps ==
  ASSUME RegInv, NEW r \in Registrars, pc[r] \in Building, NEW next \in Building, NEW change,
         Tries(r, next, change),
         disk' = change => DiskType' /\ FreshIsEmpty',
         disk' = change /\ pc'[r] = next => Built(r)' /\ PublishedIsWhole'
  PROVE  RegInv'
<1>1. CASE Refuses(r) /\ UNCHANGED <<lease, disk>>
  BY <1>1, Refused
<1>2. CASE disk' = change /\ Goes(r, next) /\ UNCHANGED <<lease, told>>
  <2>1. \A q \in Registrars : told[q] # "registered"
    BY NobodyTold
  <2> QED
    BY <1>2, <2>1, GoesOn
<1> QED
  BY <1>1, <1>2 DEF Tries

\* A check of a builder.
LEMMA DemandsKeeps ==
  ASSUME RegInv, NEW r \in Registrars, pc[r] \in {"collision"} \cup Building,
         NEW next \in Building, NEW holds, Demands(r, next, holds),
         holds => \A q \in Registrars : told[q] # "registered",
         holds /\ disk' = disk /\ pc'[r] = next => Built(r)' /\ PublishedIsWhole'
  PROVE  RegInv'
<1>1. CASE Refuses(r) /\ UNCHANGED <<lease, disk>>
  BY <1>1, Refused
<1>2. CASE holds /\ Goes(r, next) /\ UNCHANGED <<lease, disk, told>>
  <2>1. DiskType' /\ FreshIsEmpty'
    BY <1>2 DEF RegInv, RegType, DiskType, FreshIsEmpty
  <2> QED
    BY <1>2, <2>1, GoesOn
<1> QED
  BY <1>1, <1>2 DEF Demands

\* The other steps that build.
LEMMA BuildKeeps ==
  ASSUME RegInv, NEW r \in Registrars,
         \/ Collision(r) \/ Marked(r) \/ Install(r) \/ Wrapper(r) \/ Mark(r) \/ Match(r) \/ Probe(r)
         \/ Ballast(r) \/ Journal(r) \/ Commit(r) \/ Publish(r)
  PROVE  RegInv'
<1>1. Built(r) /\ DiskType /\ FreshIsEmpty
  BY DEF RegInv, RegType
<1>2. CASE Collision(r)
  <2>1. Fresh => \A q \in Registrars : told[q] # "registered"
    BY DEF RegInv, Fresh, FreshIsEmpty, ToldIsOver
  <2>2. Fresh /\ disk' = disk /\ pc'[r] = "evals" => Built(r)' /\ PublishedIsWhole'
    BY <1>1 DEF Fresh, FreshIsEmpty, Built, PublishedIsWhole
  <2> QED
    BY <1>2, <2>1, <2>2, DemandsKeeps DEF Collision, At
<1>3. CASE pc[r] \in Begun
  <2>1. /\ pc[r] \in Building /\ disk.made /\ \A q \in Registrars : told[q] # "registered"
    BY <1>1, <1>3, NobodyTold DEF FreshIsEmpty, Built, Stands
  <2>2. CASE Marked(r)
    <3>1. Goes(r, "install") /\ UNCHANGED <<lease, disk, told>> /\ pc[r] = "marker"
      BY <1>1, <2>2 DEF Marked, At, Built
    <3>2. pc'[r] = "install" => Built(r)' /\ PublishedIsWhole'
      BY <1>1, <3>1 DEF Built, Stands, PublishedIsWhole
    <3>3. DiskType' /\ FreshIsEmpty'
      BY <1>1, <3>1 DEF DiskType, FreshIsEmpty
    <3> QED
      BY <2>1, <3>1, <3>2, <3>3, GoesOn
  <2>3. CASE Install(r)
    <3> DEFINE change == [disk EXCEPT !.installed = TRUE]
    <3>1. disk' = change => DiskType' /\ FreshIsEmpty'
      BY <1>1, <2>1 DEF DiskType, FreshIsEmpty
    <3>2. disk' = change /\ pc'[r] = "wrapper" => Built(r)' /\ PublishedIsWhole'
      BY <1>1, <2>3 DEF Install, At, DiskType, Built, Stands, PublishedIsWhole
    <3> QED
      BY <2>1, <2>3, <3>1, <3>2, TriesKeeps DEF Install, At
  <2>4. CASE Wrapper(r)
    <3> DEFINE change == [disk EXCEPT !.wrapper = TRUE]
    <3>1. disk' = change => DiskType' /\ FreshIsEmpty'
      BY <1>1, <2>1 DEF DiskType, FreshIsEmpty
    <3>2. disk' = change /\ pc'[r] = "mark" => Built(r)' /\ PublishedIsWhole'
      BY <1>1, <2>4 DEF Wrapper, At, DiskType, Built, Stands, PublishedIsWhole
    <3> QED
      BY <2>1, <2>4, <3>1, <3>2, TriesKeeps DEF Wrapper, At
  <2>5. CASE Mark(r)
    <3> DEFINE change == [disk EXCEPT !.marker = TRUE]
    <3>1. disk' = change => DiskType' /\ FreshIsEmpty'
      BY <1>1, <2>1 DEF DiskType, FreshIsEmpty
    <3>2. disk' = change /\ pc'[r] = "arms" => Built(r)' /\ PublishedIsWhole'
      BY <1>1, <2>5 DEF Mark, At, DiskType, Built, Stands, PublishedIsWhole
    <3> QED
      BY <2>1, <2>5, <3>1, <3>2, Refused, TriesKeeps DEF Mark, At
  <2>6. CASE Match(r)
    <3>1. disk' = disk /\ pc'[r] = "probe" => Built(r)' /\ PublishedIsWhole'
      BY <1>1, <2>6 DEF Match, At, Built, Stands, PublishedIsWhole
    <3> QED
      BY <2>1, <2>6, <3>1, DemandsKeeps DEF Match, At
  <2>7. CASE Probe(r)
    <3>1. disk' = disk => DiskType' /\ FreshIsEmpty'
      BY <1>1 DEF DiskType, FreshIsEmpty
    <3>2. disk' = disk /\ pc'[r] = "ballast" => Built(r)' /\ PublishedIsWhole'
      BY <1>1, <2>7 DEF Probe, At, Built, Stands, PublishedIsWhole
    <3> QED
      BY <2>1, <2>7, <3>1, <3>2, TriesKeeps DEF Probe, At
  <2>8. CASE Ballast(r)
    <3> DEFINE change == [disk EXCEPT !.ballast = TRUE]
    <3>1. disk' = change => DiskType' /\ FreshIsEmpty'
      BY <1>1, <2>1 DEF DiskType, FreshIsEmpty
    <3>2. disk' = change /\ pc'[r] = "journal" => Built(r)' /\ PublishedIsWhole'
      BY <1>1, <2>8 DEF Ballast, At, DiskType, Built, Stands, PublishedIsWhole
    <3> QED
      BY <2>1, <2>8, <3>1, <3>2, Refused, TriesKeeps DEF Ballast, At
  <2>9. CASE Journal(r)
    <3> DEFINE change == [disk EXCEPT !.journal = "empty"]
    <3>1. disk' = change => DiskType' /\ FreshIsEmpty'
      BY <1>1, <2>1 DEF DiskType, FreshIsEmpty
    <3>2. disk' = change /\ pc'[r] = "commit" => Built(r)' /\ PublishedIsWhole'
      BY <1>1, <2>9 DEF Journal, At, DiskType, Built, Stands, PublishedIsWhole
    <3> QED
      BY <2>1, <2>9, <3>1, <3>2, Refused, TriesKeeps DEF Journal, At
  <2>10. CASE Commit(r)
    <3> DEFINE change == [disk EXCEPT !.journal = "registered"]
    <3>1. disk' = change => DiskType' /\ FreshIsEmpty' /\ disk'.doc = disk.doc
      BY <1>1, <2>1 DEF DiskType, FreshIsEmpty
    <3>2. disk' = change /\ pc'[r] = "publish" => Built(r)' /\ PublishedIsWhole'
      BY <1>1, <2>10 DEF Commit, At, DiskType, Built, Stands, PublishedIsWhole
    <3>3. CASE disk' = change /\ Refuses(r) /\ UNCHANGED lease
      <4>1. disk.doc = "none"
        BY <1>1, <2>10 DEF Commit, At, Built
      <4> QED
        BY <2>1, <3>1, <3>3, <4>1, StopsThere DEF Refuses
    <3> QED
      BY <2>1, <2>10, <3>1, <3>2, <3>3, TriesKeeps DEF Commit, At
  <2>11. CASE Publish(r)
    <3> DEFINE change == [disk EXCEPT !.doc = "whole"]
    <3>1. disk' = change => DiskType' /\ FreshIsEmpty'
      BY <1>1, <2>1 DEF DiskType, FreshIsEmpty
    <3>2. disk' = change /\ pc'[r] = "sync" => Built(r)' /\ PublishedIsWhole'
      BY <1>1, <2>11 DEF Publish, Publishable, At, DiskType, Built, Stands, PublishedIsWhole, Complete
    <3> QED
      BY <2>1, <2>11, <3>1, <3>2, Refused, TriesKeeps DEF Publish, At
  <2> QED
    BY <1>3, <2>2, <2>3, <2>4, <2>5, <2>6, <2>7, <2>8, <2>9, <2>10, <2>11 DEF Collision, At
<1> QED
  BY <1>2, <1>3 DEF Marked, Install, Wrapper, Mark, Match, Probe, Ballast, Journal, Commit, Publish, At

\* The end of a registration, told or not.
LEMMA SyncKeeps ==
  ASSUME RegInv, NEW r \in Registrars, Sync(r)
  PROVE  RegInv'
<1>1. /\ pc[r] = "sync" /\ lease = r /\ disk.doc = "whole" /\ UNCHANGED <<lease, disk>>
      /\ \A q \in Registrars : told[q] # "registered"
  BY NobodyTold DEF RegInv, Built, Sync, At
<1>2. CASE Refuses(r)
  BY <1>1, <1>2, Refused
<1>3. CASE Goes(r, "release") /\ told' = [told EXCEPT ![r] = "registered"]
  <2>1. /\ pc' \in [Registrars -> Places] /\ pc'[r] = "release"
        /\ \A q \in Registrars \ {r} : pc'[q] = pc[q] /\ pc[q] \notin Active
    BY <1>1, <1>3, Alone DEF RegInv, RegType, Goes
  <2>2. /\ told' \in [Registrars -> {Null, "refused", "registered"}]
        /\ \A q \in Registrars \ {r} : told'[q] # "registered"
    BY <1>1, <1>3 DEF RegInv, RegType
  <2>3. RegType' /\ HolderWorks' /\ FreshIsEmpty' /\ PublishedIsWhole'
    BY <1>1, <2>1, <2>2
       DEF RegInv, RegType, DiskType, HolderWorks, FreshIsEmpty, PublishedIsWhole, Stands, Complete
  <2>4. \A q \in Registrars : Built(q)'
    BY <2>1 DEF Built
  <2>5. ToldIsOver'
    BY <1>1, <2>1, <2>2 DEF ToldIsOver
  <2> QED
    BY <2>3, <2>4, <2>5 DEF RegInv
<1> QED
  BY <1>2, <1>3 DEF Sync

\* Who builds nothing: before it has the lease, when it lets go, and when it dies.
LEMMA OthersKeep ==
  ASSUME Null \notin Registrars, RegInv, NEW r \in Registrars,
         Resolve(r) \/ Acquire(r) \/ Release(r) \/ Dies(r)
  PROVE  RegInv'
<1>1. PICK next \in Places \ Building : Goes(r, next) /\ (next = "release" => pc[r] \in Active)
  BY DEF Resolve, Acquire, Release, Dies
<1>2. /\ pc' \in [Registrars -> Places] /\ pc'[r] = next
      /\ \A q \in Registrars \ {r} : pc'[q] = pc[q]
  BY <1>1 DEF RegInv, RegType, Goes
<1>3. disk' = disk
  BY DEF Resolve, Acquire, Release, Dies
<1>4. /\ told' \in [Registrars -> {Null, "refused", "registered"}]
      /\ \A q \in Registrars : told'[q] = "registered" => told[q] = "registered"
  BY DEF RegInv, RegType, Resolve, Acquire, Release, Dies
<1>5. lease' \in Registrars \cup {Null} /\ HolderWorks'
  <2>1. CASE Acquire(r)
    <3>1. CASE lease = Null \/ pc[lease] = "dead"
      <4>1. lease' = r
        BY <2>1, <3>1 DEF Acquire
      <4>2. \A q \in Registrars : pc[q] \notin Active
        BY <3>1 DEF RegInv, HolderWorks
      <4> QED
        BY <1>2, <4>1, <4>2 DEF HolderWorks
    <3>2. CASE ~(lease = Null \/ pc[lease] = "dead")
      <4>1. lease' = lease /\ Goes(r, "done")
        BY <2>1, <3>2 DEF Acquire
      <4>2. pc'[r] = "done"
        BY <4>1 DEF Goes, RegInv, RegType
      <4> QED
        BY <1>2, <4>1, <4>2 DEF RegInv, RegType, HolderWorks
    <3> QED
      BY <3>1, <3>2
  <2>2. CASE Release(r)
    <3>1. \A q \in Registrars \ {r} : pc[q] \notin Active
      BY <2>2, Alone DEF RegInv, Release
    <3>2. pc'[r] = "done" /\ lease' \in Registrars \cup {Null}
      BY <2>2 DEF Release, Goes, RegInv, RegType
    <3> QED
      BY <1>2, <3>1, <3>2 DEF HolderWorks
  <2>3. CASE Resolve(r) \/ Dies(r)
    <3>1. lease' = lease /\ pc'[r] \notin Active
      BY <2>3 DEF Resolve, Dies, Goes, RegInv, RegType
    <3> QED
      BY <1>2, <3>1 DEF RegInv, RegType, HolderWorks
  <2> QED
    BY <2>1, <2>2, <2>3
<1>6. RegType' /\ FreshIsEmpty' /\ PublishedIsWhole'
  BY <1>2, <1>3, <1>4, <1>5
     DEF RegInv, RegType, DiskType, FreshIsEmpty, PublishedIsWhole, Stands, Complete
<1>7. \A q \in Registrars : pc'[q] \in Building => pc[q] = pc'[q]
  BY <1>2
<1>8. \A q \in Registrars : Built(q)'
  <2> SUFFICES ASSUME NEW q \in Registrars PROVE Built(q)'
    OBVIOUS
  <2>1. CASE pc'[q] \in Building
    BY <1>3, <1>7, <2>1 DEF RegInv, Built, Stands
  <2>2. CASE pc'[q] \notin Building
    BY <2>2 DEF Built
  <2> QED
    BY <2>1, <2>2
<1>9. ToldIsOver'
  BY <1>3, <1>4, <1>7 DEF RegInv, ToldIsOver
<1> QED
  BY <1>5, <1>6, <1>8, <1>9 DEF RegInv

\* Somebody at work in a tree.
LEMMA DriftKeeps ==
  ASSUME RegInv, NEW t \in Trees, Drift(t)
  PROVE  RegInv'
<1>1. DiskType /\ disk.tree[t] = "whole" /\ FreshIsEmpty
  BY DEF RegInv, RegType, Drift
<1>2. disk.made
  BY <1>1 DEF FreshIsEmpty
<1>3. disk' = [disk EXCEPT !.made = TRUE, !.tree[t] = "drifted"]
  BY <1>1, <1>2 DEF Drift, DiskType
<1>4. /\ DiskType' /\ disk'.made /\ disk'.tree[t] = "drifted"
      /\ \A u \in Trees \ {t} : disk'.tree[u] = disk.tree[u]
      /\ disk'.marker = disk.marker /\ disk'.installed = disk.installed
      /\ disk'.wrapper = disk.wrapper /\ disk'.ballast = disk.ballast
      /\ disk'.journal = disk.journal /\ disk'.doc = disk.doc
  BY <1>1, <1>3, TreeLaid
<1>5. \A u \in Trees : Stands(u) => Stands(u)'
  BY <1>4 DEF Stands
<1>6. UNCHANGED <<lease, pc, told>>
  BY DEF Drift
<1>7. RegType' /\ HolderWorks' /\ FreshIsEmpty' /\ PublishedIsWhole' /\ ToldIsOver'
  BY <1>4, <1>5, <1>6
     DEF RegInv, RegType, HolderWorks, FreshIsEmpty, PublishedIsWhole, Complete, ToldIsOver
<1>8. \A q \in Registrars : Built(q)'
  BY <1>2, <1>4, <1>5, <1>6 DEF RegInv, Built
<1> QED
  BY <1>7, <1>8 DEF RegInv

LEMMA RegStep ==
  ASSUME Null \notin Registrars, RegInv, [RegNext]_regVars
  PROVE  RegInv'
<1>1. CASE UNCHANGED regVars
  <2>1. lease' = lease /\ pc' = pc /\ disk' = disk /\ told' = told
    BY <1>1 DEF regVars
  <2>2. \A q \in Registrars : Built(q)'
    BY <2>1 DEF RegInv, Built, Stands
  <2> QED
    BY <2>1, <2>2 DEF RegInv, RegType, DiskType, HolderWorks, FreshIsEmpty, PublishedIsWhole, Stands,
                      Complete, ToldIsOver
<1>2. ASSUME NEW r \in Registrars, Evals(r) \/ Gauntlet(r) \/ Arms(r) PROVE RegInv'
  BY <1>2, EnsuresKeeps DEF Evals, Gauntlet, Arms, At
<1>3. ASSUME NEW r \in Registrars,
             \/ Resolve(r) \/ Acquire(r) \/ Collision(r)
             \/ Evals(r) \/ Gauntlet(r) \/ Marked(r) \/ Install(r) \/ Wrapper(r) \/ Mark(r) \/ Arms(r)
             \/ Match(r) \/ Probe(r) \/ Ballast(r) \/ Journal(r) \/ Commit(r)
             \/ Publish(r) \/ Sync(r) \/ Release(r) \/ Dies(r)
      PROVE  RegInv'
  BY <1>2, <1>3, BuildKeeps, SyncKeeps, OthersKeep
<1> QED
  BY <1>1, <1>3, DriftKeeps DEF RegNext

\* A builder's step finds nothing published.
LEMMA FrozenStep ==
  ASSUME RegInv, [RegNext]_regVars
  PROVE  [PublishedIsFrozen]_regVars
<1> SUFFICES ASSUME disk.doc = "whole" PROVE disk' = [disk EXCEPT !.tree = disk'.tree]
  BY DEF PublishedIsFrozen
<1>1. DiskType /\ \A r \in Registrars : pc[r] \notin Building \ {"sync"}
  BY DEF RegInv, RegType, Built
<1>2. CASE disk' = disk
  BY <1>1, <1>2 DEF DiskType
<1>3. CASE \E t \in Trees : Drift(t)
  BY <1>1, <1>3 DEF Drift, DiskType
<1>4. ASSUME NEW r \in Registrars,
             \/ Evals(r) \/ Gauntlet(r) \/ Marked(r) \/ Install(r) \/ Wrapper(r) \/ Mark(r) \/ Arms(r)
             \/ Match(r) \/ Probe(r) \/ Ballast(r) \/ Journal(r) \/ Commit(r) \/ Publish(r)
      PROVE  FALSE
  BY <1>1, <1>4 DEF Evals, Gauntlet, Marked, Install, Wrapper, Mark, Arms, Match, Probe, Ballast,
                    Journal, Commit, Publish, At
<1>5. ASSUME NEW r \in Registrars,
             Resolve(r) \/ Acquire(r) \/ Collision(r) \/ Sync(r) \/ Release(r) \/ Dies(r)
      PROVE  disk' = disk
  BY <1>5 DEF Resolve, Acquire, Collision, Demands, Sync, Release, Dies
<1> QED
  BY <1>2, <1>3, <1>4, <1>5 DEF RegNext, regVars

\* RegistrationIsWhole (registration.ts, snapshot.ts): however many registrars are given
\* one campaign id, wherever each of them dies or is refused, and whoever works in the
\* trees meanwhile, a campaign that loads is whole, at most one registrar was told that
\* it registered it and then it loads, and nobody changes a published campaign.
THEOREM RegistrationIsWholeAlways ==
  ASSUME Null \notin Registrars, Null # "registered"
  PROVE  RegSpec => RegistrationIsWhole
<1>1. RegInit => RegInv
  <2> SUFFICES ASSUME RegInit PROVE RegInv
    OBVIOUS
  <2>1. RegType
    BY DEF RegInit, RegType, DiskType
  <2>2. HolderWorks /\ FreshIsEmpty /\ PublishedIsWhole /\ ToldIsOver
    BY DEF RegInit, HolderWorks, FreshIsEmpty, PublishedIsWhole, ToldIsOver
  <2>3. \A r \in Registrars : Built(r)
    BY DEF RegInit, Built
  <2> QED
    BY <2>1, <2>2, <2>3 DEF RegInv
<1>2. RegInv /\ [RegNext]_regVars => RegInv'
  BY RegStep
<1>3. RegInv => LoadableIsWhole /\ AnswersAreTrue
  <2> SUFFICES ASSUME RegInv PROVE LoadableIsWhole /\ AnswersAreTrue
    OBVIOUS
  <2>1. LoadableIsWhole
    BY DEF RegInv, PublishedIsWhole, LoadableIsWhole, Loadable, Verified, Stands
  <2>2. AnswersAreTrue
    BY DEF RegInv, PublishedIsWhole, ToldIsOver, AnswersAreTrue, Loadable
  <2> QED
    BY <2>1, <2>2
<1>4. RegInv /\ [RegNext]_regVars => [PublishedIsFrozen]_regVars
  BY FrozenStep
<1> QED
  BY <1>1, <1>2, <1>3, <1>4, PTL DEF RegSpec, RegistrationIsWhole

----
(* The admission.  Numbers and counts first; induction goes over a set of numbers. *)

LEMMA LeastExists ==
  ASSUME NEW S \in SUBSET Nat, S # {}
  PROVE  \E x \in S : \A y \in S : x <= y
  <1> DEFINE Upto(k) == {x \in S : x <= k}
             Initial == {Upto(k) : k \in S}
  <1>1. Initial \subseteq FiniteSubsetsOf(Nat) /\ Initial # {}
    <2>1. ASSUME NEW k \in S PROVE Upto(k) \in FiniteSubsetsOf(Nat)
      <3>1. IsFiniteSet(Upto(k))
        BY FS_BoundedSetOfNaturals
      <3> QED
        BY <3>1 DEF FiniteSubsetsOf
    <2> QED
      BY <2>1
  <1>2. PICK U \in Initial : \A V \in Initial : ~ (<<V, U>> \in StrictSubsetOrdering(Nat))
    BY <1>1, FS_StrictSubsetOrderingWellFounded, WFMin
  <1>3. PICK k \in S : U = Upto(k)
    BY <1>2
  <1>4. ASSUME NEW y \in S, y < k PROVE FALSE
    <2>1. k \in Nat /\ y \in Nat /\ ~ (k <= y)
      BY <1>4
    <2>2. Upto(y) \in SUBSET Nat /\ Upto(k) \in SUBSET Nat
      OBVIOUS
    <2>3. ASSUME NEW x \in Upto(y) PROVE x \in Upto(k)
      <3>1. x \in S /\ x \in Nat /\ x <= y
        OBVIOUS
      <3> QED
        BY <3>1, <2>1
    <2>4. k \in Upto(k) /\ k \notin Upto(y)
      BY <2>1
    <2>5. <<Upto(y), Upto(k)>> \in StrictSubsetOrdering(Nat)
      BY <2>2, <2>3, <2>4 DEF StrictSubsetOrdering
    <2> QED
      BY <2>5, <1>2, <1>3
  <1> QED
    BY <1>4

LEMMA Inductive ==
  ASSUME NEW A \in SUBSET Nat, 0 \in A, \A n \in A : n + 1 \in A
  PROVE  A = Nat
  <1> SUFFICES ASSUME Nat \ A # {} PROVE FALSE
    OBVIOUS
  <1>1. PICK x \in Nat \ A : \A y \in Nat \ A : x <= y
    BY LeastExists
  <1> QED
    BY <1>1

LEMMA LeastIs ==
  ASSUME NEW S \in SUBSET Nat, S # {}
  PROVE  Least(S) \in S /\ \A y \in S : Least(S) <= y
  BY LeastExists DEF Least

LEMMA GreatestIs ==
  ASSUME NEW S \in SUBSET Nat, S # {}, NEW m \in Nat, \A y \in S : y <= m
  PROVE  Greatest(S) \in S /\ \A y \in S : y <= Greatest(S)
  <1> DEFINE Over == {n \in Nat : \A y \in S : y <= n}
  <1>1. PICK n \in Over : \A k \in Over : n <= k
    <2>1. Over # {} /\ Over \in SUBSET Nat
      OBVIOUS
    <2> QED
      BY <2>1, LeastExists
  <1>2. n \in S
    <2>1. SUFFICES ASSUME n \notin S PROVE FALSE
      OBVIOUS
    <2>2. \A y \in S : y \in Nat /\ y <= n /\ y # n
      BY <1>1, <2>1
    <2>3. n # 0 /\ n \in Nat
      <3>1. PICK y \in S : TRUE
        OBVIOUS
      <3>2. y \in Nat /\ n \in Nat /\ y <= n /\ y # n
        BY <3>1, <2>2, <1>1
      <3> QED
        BY <3>2
    <2>4. n - 1 \in Over
      BY <2>2, <2>3
    <2> QED
      BY <2>4, <2>3, <1>1
  <1> QED
    BY <1>1, <1>2 DEF Greatest

LEMMA FiniteBounded ==
  ASSUME NEW S \in SUBSET Nat, IsFiniteSet(S)
  PROVE  \E m \in Nat : \A y \in S : y <= m
  <1> DEFINE Bounded(T) == \E m \in Nat : \A y \in T : y <= m
             A == {n \in Nat : \A T \in SUBSET S : Cardinality(T) = n => Bounded(T)}
  <1>1. 0 \in A
    <2>1. ASSUME NEW T \in SUBSET S, Cardinality(T) = 0 PROVE Bounded(T)
      <3>1. T = {}
        BY <2>1, FS_Subset, FS_EmptySet
      <3> QED
        BY <3>1
    <2> QED
      BY <2>1
  <1>2. ASSUME NEW n \in A PROVE n + 1 \in A
    <2>1. ASSUME NEW T \in SUBSET S, Cardinality(T) = n + 1 PROVE Bounded(T)
      <3>0. n \in Nat
        OBVIOUS
      <3>1. IsFiniteSet(T) /\ T # {}
        <4>1. IsFiniteSet(T)
          BY FS_Subset
        <4>2. Cardinality(T) # 0
          BY <2>1, <3>0
        <4> QED
          BY <4>1, <4>2, FS_EmptySet
      <3>2. PICK x \in T : TRUE
        BY <3>1
      <3>3. Cardinality(T \ {x}) = n /\ T \ {x} \in SUBSET S
        <4>1. Cardinality(T \ {x}) = n
          <5>1. Cardinality(T \ {x}) = Cardinality(T) - 1
            BY <3>1, <3>2, FS_RemoveElement
          <5> QED
            BY <5>1, <3>0, <2>1
        <4> QED
          BY <4>1
      <3>4. PICK m \in Nat : \A y \in T \ {x} : y <= m
        BY <3>3
      <3>5. m \in Nat /\ x \in Nat /\ \A y \in T : y \in Nat
        BY <3>2, <3>4
      <3>6. m + x \in Nat /\ \A y \in T : y <= m + x
        BY <3>4, <3>5
      <3> QED
        BY <3>6
    <2> QED
      BY <2>1
  <1>3. A = Nat
    <2> HIDE DEF A
    <2> QED
      BY <1>1, <1>2, Inductive DEF A
  <1>4. Cardinality(S) \in A /\ S \in SUBSET S
    <2> HIDE DEF A
    <2> QED
      BY <1>3, FS_CardinalityType
  <1> QED
    BY <1>4

LEMMA CeilingCovers ==
  ASSUME NEW c \in Nat, NEW n \in Nat \ {0}
  PROVE  /\ (c + n - 1) \div n \in Nat
         /\ n * ((c + n - 1) \div n) >= c
  OBVIOUS

LEMMA DisjointUnion ==
  ASSUME NEW S, IsFiniteSet(S), NEW T, IsFiniteSet(T), S \cap T = {}
  PROVE  /\ IsFiniteSet(S \cup T)
         /\ Cardinality(S \cup T) = Cardinality(S) + Cardinality(T)
  BY FS_Union, FS_EmptySet, FS_CardinalityType

\* Where each of n parts, disjoint in P and in Q, has t holders, there are n times t.
LEMMA Crowded ==
  ASSUME NEW P, IsFiniteSet(P), NEW Q, IsFiniteSet(Q), NEW n \in Nat, NEW t \in Nat,
         NEW f \in [1 .. n -> SUBSET P], NEW g \in [1 .. n -> SUBSET Q],
         \A i, j \in 1 .. n : i # j => f[i] \cap f[j] = {} /\ g[i] \cap g[j] = {},
         \A i \in 1 .. n : Cardinality(f[i]) + Cardinality(g[i]) >= t
  PROVE  Cardinality(P) + Cardinality(Q) >= n * t
  <1> DEFINE P1(m) == {s \in P : \E i \in 1 .. m : i <= n /\ s \in f[i]}
             Q1(m) == {u \in Q : \E i \in 1 .. m : i <= n /\ u \in g[i]}
             A == {m \in Nat : m <= n => Cardinality(P1(m)) + Cardinality(Q1(m)) >= m * t}
  <1>0. \A m \in Nat : /\ IsFiniteSet(P1(m)) /\ Cardinality(P1(m)) \in Nat
                       /\ IsFiniteSet(Q1(m)) /\ Cardinality(Q1(m)) \in Nat
                       /\ Cardinality(P1(m)) <= Cardinality(P)
                       /\ Cardinality(Q1(m)) <= Cardinality(Q)
    BY FS_Subset, FS_CardinalityType
  <1>1. 0 \in A
    <2>1. Cardinality(P1(0)) \in Nat /\ Cardinality(Q1(0)) \in Nat
      <3> HIDE DEF P1, Q1
      <3> QED
        BY <1>0
    <2>2. 0 * t = 0
      OBVIOUS
    <2> HIDE DEF P1, Q1
    <2> QED
      BY <2>1, <2>2
  <1>2. ASSUME NEW m \in A PROVE m + 1 \in A
    <2> SUFFICES ASSUME m + 1 <= n
                 PROVE  Cardinality(P1(m + 1)) + Cardinality(Q1(m + 1)) >= (m + 1) * t
      OBVIOUS
    <2> DEFINE P2 == f[m + 1]
               Q2 == g[m + 1]
    <2>1. m \in Nat /\ m + 1 \in 1 .. n /\ Cardinality(P1(m)) + Cardinality(Q1(m)) >= m * t
      OBVIOUS
    <2>2. 1 .. (m + 1) = (1 .. m) \cup {m + 1}
      BY <2>1
    <2>3. P1(m + 1) = P1(m) \cup P2 /\ Q1(m + 1) = Q1(m) \cup Q2
      <3>1. P2 \subseteq P /\ Q2 \subseteq Q
        BY <2>1
      <3> QED
        BY <2>1, <2>2, <3>1
    <2>4. P1(m) \cap P2 = {} /\ Q1(m) \cap Q2 = {}
      <3>1. \A i \in 1 .. m : f[i] \cap f[m + 1] = {} /\ g[i] \cap g[m + 1] = {}
        BY <2>1
      <3> QED
        BY <3>1
    <2>5. IsFiniteSet(P2) /\ IsFiniteSet(Q2) /\ Cardinality(P2) \in Nat /\ Cardinality(Q2) \in Nat
      BY FS_Subset, FS_CardinalityType
    <2>7. /\ Cardinality(P1(m) \cup P2) = Cardinality(P1(m)) + Cardinality(P2)
          /\ Cardinality(Q1(m) \cup Q2) = Cardinality(Q1(m)) + Cardinality(Q2)
      <3> HIDE DEF P1, P2, Q1, Q2
      <3> QED
        BY <1>0, <2>1, <2>4, <2>5, DisjointUnion
    <2>8. Cardinality(P2) + Cardinality(Q2) >= t
      BY <2>1
    <2>9. (m + 1) * t = m * t + t /\ m * t \in Nat
      BY <2>1
    <2>10. Cardinality(P1(m)) \in Nat /\ Cardinality(Q1(m)) \in Nat
      BY <1>0, <2>1
    <2>11. Cardinality(P1(m + 1)) + Cardinality(Q1(m + 1)) =
             (Cardinality(P1(m)) + Cardinality(Q1(m))) + (Cardinality(P2) + Cardinality(Q2))
      <3>1. /\ Cardinality(P1(m + 1)) = Cardinality(P1(m)) + Cardinality(P2)
            /\ Cardinality(Q1(m + 1)) = Cardinality(Q1(m)) + Cardinality(Q2)
        <4> HIDE DEF P1, P2, Q1, Q2, A
        <4> QED
          BY <2>3, <2>7
      <3>2. \A a, b, c, d \in Nat : (a + b) + (c + d) = (a + c) + (b + d)
        OBVIOUS
      <3> HIDE DEF P1, P2, Q1, Q2, A
      <3> QED
        BY <3>1, <3>2, <2>5, <2>10
    <2>12. \A x, y, z \in Nat : x >= z /\ y >= t => x + y >= z + t
      OBVIOUS
    <2>13. /\ Cardinality(P1(m)) + Cardinality(Q1(m)) \in Nat
           /\ Cardinality(P2) + Cardinality(Q2) \in Nat
      BY <2>5, <2>10
    <2> HIDE DEF P1, P2, Q1, Q2, A
    <2> QED
      BY <2>1, <2>8, <2>9, <2>11, <2>12, <2>13
  <1>3. A = Nat
    <2> HIDE DEF A
    <2> QED
      BY <1>1, <1>2, Inductive DEF A
  <1>4. Cardinality(P1(n)) + Cardinality(Q1(n)) >= n * t
    <2> HIDE DEF P1, Q1
    <2> QED
      BY <1>3
  <1>5. n * t \in Nat /\ Cardinality(P) \in Nat /\ Cardinality(Q) \in Nat
    BY FS_CardinalityType
  <1> HIDE DEF P1, Q1
  <1> QED
    BY <1>0, <1>4, <1>5

----
(* The registry. *)

LEMMA Registry ==
  ASSUME NEW r \in Registries
  PROVE  /\ IsFiniteSet(DOMAIN r) /\ Grader \in DOMAIN r
         /\ \A n \in DOMAIN r : Credential(r[n])
         /\ \A a \in All : ArmOf[a] \in DOMAIN r
         /\ \A s \in PlacesOf(All) : \E n \in DOMAIN r : CredOf(r, s) = r[n]
  <1>1. IsFiniteSet(DOMAIN r) /\ Grader \in DOMAIN r /\ \A n \in DOMAIN r : Credential(r[n])
    BY AdmissionAssumption
  <1>2. \A a \in All : ArmOf[a] \in DOMAIN r
    BY AdmissionAssumption DEF All, Members, Blocks
  <1>3. ASSUME NEW s \in PlacesOf(All) PROVE \E n \in DOMAIN r : CredOf(r, s) = r[n]
    BY <1>1, <1>2 DEF PlacesOf, CredOf
  <1> QED
    BY <1>1, <1>2, <1>3

LEMMA CapacityIs ==
  ASSUME NEW r \in Registries, NEW p \in PoolsOf(r)
  PROVE  CapacityOf(r, p) \in Nat \ {0}
  <1> DEFINE S == {r[n].limit : n \in Aliases(r, p)}
  <1>1. S \in SUBSET (Nat \ {0}) /\ S # {}
    <2>1. Aliases(r, p) # {}
      BY DEF PoolsOf, Aliases
    <2>2. \A n \in Aliases(r, p) : r[n].limit \in Nat \ {0}
      BY Registry DEF Aliases, Credential
    <2> QED
      BY <2>1, <2>2
  <1>2. Least(S) \in S
    BY <1>1, LeastIs
  <1> QED
    BY <1>1, <1>2 DEF CapacityOf

LEMMA SpacingIs ==
  ASSUME NEW r \in Registries, NEW p
  PROVE  SpacingOf(r, p) \in Nat
  <1> DEFINE f == [n \in Aliases(r, p) |-> r[n].spacing]
             S == {0} \cup {r[n].spacing : n \in Aliases(r, p)}
  <1>1. IsFiniteSet(Aliases(r, p)) /\ \A n \in Aliases(r, p) : r[n].spacing \in Nat
    BY Registry, FS_Subset DEF Aliases, Credential
  <1>2. IsFiniteSet({r[n].spacing : n \in Aliases(r, p)})
    <2>1. f \in Surjection(Aliases(r, p), {r[n].spacing : n \in Aliases(r, p)})
      BY DEF Surjection
    <2> QED
      BY <2>1, <1>1, FS_Surjection
  <1>3. IsFiniteSet(S) /\ S \in SUBSET Nat /\ S # {}
    BY <1>1, <1>2, FS_AddElement
  <1>4. PICK m \in Nat : \A y \in S : y <= m
    <2> HIDE DEF S
    <2> QED
      BY <1>3, FiniteBounded
  <1>5. Greatest(S) \in S
    <2> HIDE DEF S
    <2> QED
      BY <1>3, <1>4, GreatestIs
  <1> QED
    BY <1>3, <1>5 DEF SpacingOf

LEMMA ThresholdIs ==
  ASSUME NEW cred, Credential(cred), NEW c \in Nat \ {0}
  PROVE  /\ KeyWaitThreshold(cred, c) \in Nat
         /\ cred.pooled => Len(cred.keys) * KeyWaitThreshold(cred, c) >= c
         /\ ~cred.pooled => KeyWaitThreshold(cred, c) = c
  <1>1. CASE cred.pooled
    <2>1. Len(cred.keys) \in Nat \ {0}
      BY <1>1 DEF Credential
    <2> QED
      BY <1>1, <2>1, CeilingCovers DEF KeyWaitThreshold
  <1>2. CASE ~cred.pooled
    <2>1. (c + 1 - 1) \div 1 = c
      OBVIOUS
    <2> QED
      BY <1>2, <2>1 DEF KeyWaitThreshold
  <1> QED
    BY <1>1, <1>2

----
(* Attempts and their places. *)

LEMMA AttemptsOf ==
  ASSUME NEW b \in Blocks
  PROVE  /\ Len(Attempts[b]) \in Nat /\ DOMAIN Attempts[b] = 1 .. Len(Attempts[b])
         /\ Members(b) \subseteq All /\ IsFiniteSet(Members(b))
         /\ \A i, j \in DOMAIN Attempts[b] : Attempts[b][i] = Attempts[b][j] => i = j
  <1> DEFINE S == {Attempts[b][i] : i \in DOMAIN Attempts[b]}
  <1>1. Attempts[b] \in Seq(S)
    BY AdmissionAssumption DEF Blocks
  <1>2. Len(Attempts[b]) \in Nat /\ DOMAIN Attempts[b] = 1 .. Len(Attempts[b])
    <2> HIDE DEF S
    <2> QED
      BY <1>1
  <1>3. IsFiniteSet(S)
    <2>1. [i \in 1 .. Len(Attempts[b]) |-> Attempts[b][i]] \in Surjection(1 .. Len(Attempts[b]), S)
      BY <1>2 DEF Surjection
    <2>2. IsFiniteSet(1 .. Len(Attempts[b]))
      <3>1. 1 \in Int /\ Len(Attempts[b]) \in Int
        BY <1>2
      <3> QED
        BY <3>1, FS_Interval
    <2> QED
      BY <2>1, <2>2, FS_Surjection
  <1> QED
    BY <1>2, <1>3, AdmissionAssumption DEF Members, All, Blocks

LEMMA AllFinite == IsFiniteSet(All)
  <1>1. IsFiniteSet(Blocks)
    BY AdmissionAssumption, FS_Interval DEF Blocks
  <1>2. [b \in Blocks |-> Members(b)] \in Surjection(Blocks, {Members(b) : b \in Blocks})
    BY DEF Surjection
  <1>3. IsFiniteSet({Members(b) : b \in Blocks})
    BY <1>1, <1>2, FS_Surjection
  <1> QED
    <2>1. \A T \in {Members(b) : b \in Blocks} : IsFiniteSet(T)
      BY AttemptsOf
    <2> QED
      BY <1>3, <2>1, FS_UNION DEF All

LEMMA PlacesFinite ==
  ASSUME NEW r, NEW S \in SUBSET All, NEW p
  PROVE  IsFiniteSet(InPool(r, S, p)) /\ Demand(r, S, p) \in Nat
  <1>1. IsFiniteSet(S) /\ IsFiniteSet({1, 2})
    <2>1. IsFiniteSet(S)
      BY AllFinite, FS_Subset
    <2>2. IsFiniteSet({1} \cup {2}) /\ {1} \cup {2} = {1, 2}
      BY FS_Singleton, FS_AddElement
    <2> QED
      BY <2>1, <2>2
  <1>2. IsFiniteSet(PlacesOf(S))
    BY <1>1, FS_Product DEF PlacesOf
  <1>3. IsFiniteSet(InPool(r, S, p))
    BY <1>2, FS_Subset DEF InPool
  <1> QED
    BY <1>3, FS_CardinalityType DEF Demand

\* Each place of a block has one turn.
LEMMA TurnIs ==
  ASSUME NEW b \in Blocks
  PROVE  /\ \A t \in Turns(b) : PlaceOf(b, t) \in PlacesOf(Members(b))
         /\ \A t, u \in Turns(b) : PlaceOf(b, t) = PlaceOf(b, u) => t = u
         /\ \A s \in PlacesOf(Members(b)) : \E t \in Turns(b) : PlaceOf(b, t) = s
  <1> DEFINE N == Len(Attempts[b])
  <1>1. N \in Nat /\ DOMAIN Attempts[b] = 1 .. N
    BY AttemptsOf
  <1>2. \A t \in Turns(b) : t \in Nat /\ (t + 1) \div 2 \in 1 .. N
    BY <1>1 DEF Turns
  <1>3. ASSUME NEW t \in Turns(b) PROVE PlaceOf(b, t) \in PlacesOf(Members(b))
    BY <1>1, <1>2 DEF PlaceOf, PlacesOf, Members
  <1>4. ASSUME NEW t \in Turns(b), NEW u \in Turns(b), PlaceOf(b, t) = PlaceOf(b, u) PROVE t = u
    <2>1. Attempts[b][(t + 1) \div 2] = Attempts[b][(u + 1) \div 2] /\ (t % 2 = 1 <=> u % 2 = 1)
      BY <1>4 DEF PlaceOf
    <2>2. (t + 1) \div 2 = (u + 1) \div 2
      BY <2>1, <1>1, <1>2, AttemptsOf
    <2>3. t \in Nat /\ u \in Nat
      BY <1>2
    <2> QED
      BY <2>1, <2>2, <2>3
  <1>5. ASSUME NEW s \in PlacesOf(Members(b)) PROVE \E t \in Turns(b) : PlaceOf(b, t) = s
    <2>1. PICK i \in 1 .. N, k \in {1, 2} : s = <<Attempts[b][i], k>>
      BY <1>1 DEF PlacesOf, Members
    <2>2. i \in Nat /\ 2 * i \in Turns(b) /\ 2 * i - 1 \in Turns(b)
      BY <1>1 DEF Turns
    <2>3. /\ (2 * i + 1) \div 2 = i /\ (2 * i) % 2 = 0
          /\ (2 * i - 1 + 1) \div 2 = i /\ (2 * i - 1) % 2 = 1
      BY <2>2
    <2>4. CASE k = 1
      BY <2>1, <2>2, <2>3, <2>4 DEF PlaceOf
    <2>5. CASE k = 2
      BY <2>1, <2>2, <2>3, <2>5 DEF PlaceOf
    <2> QED
      BY <2>4, <2>5
  <1> QED
    BY <1>3, <1>4, <1>5

\* As many places as turns.
LEMMA TurnsCount ==
  ASSUME NEW b \in Blocks, NEW X \in SUBSET Turns(b)
  PROVE  /\ IsFiniteSet(X) /\ IsFiniteSet({PlaceOf(b, t) : t \in X})
         /\ Cardinality(X) \in Nat
         /\ Cardinality({PlaceOf(b, t) : t \in X}) = Cardinality(X)
  <1> DEFINE f == [t \in X |-> PlaceOf(b, t)]
             Y == {PlaceOf(b, t) : t \in X}
  <1>1. IsFiniteSet(X)
    <2>1. 1 \in Int /\ 2 * Len(Attempts[b]) \in Int
      BY AttemptsOf
    <2>2. IsFiniteSet(Turns(b))
      BY <2>1, FS_Interval DEF Turns
    <2> QED
      BY <2>2, FS_Subset
  <1>2. f \in Bijection(X, Y)
    <2>1. f \in Injection(X, Y)
      <3>1. \A t, u \in X : f[t] = f[u] => t = u
        BY TurnIs
      <3>2. f \in [X -> Y]
        OBVIOUS
      <3> QED
        BY <3>1, <3>2 DEF Injection, IsInjective
    <2>2. f \in Surjection(X, Y)
      BY DEF Surjection
    <2> HIDE DEF f, Y
    <2> QED
      BY <2>1, <2>2 DEF Bijection
  <1>3. ExistsBijection(X, Y)
    BY <1>2 DEF ExistsBijection
  <1> QED
    BY <1>1, <1>3, FS_Bijection, FS_CardinalityType

----
(* The keys. *)

\* Only a pool of keys waits, when all are at the allowance; a key of a pool is
\* granted below it.
LEMMA SelectKeyIs ==
  ASSUME NEW cred, Credential(cred), NEW loads \in [DOMAIN cred.keys -> Nat],
         NEW threshold, threshold = KeyWaitThreshold(cred, Capacity(cred.pool))
  PROVE  /\ SelectKey(cred, loads) = "wait" =>
              cred.pooled /\ \A i \in DOMAIN cred.keys : ~ (loads[i] < threshold)
         /\ \A k \in KeysOf(cred) : SelectKey(cred, loads) = k =>
              \E i \in DOMAIN cred.keys : cred.keys[i] = k /\ (cred.pooled => loads[i] < threshold)
         /\ SelectKey(cred, loads) \in KeysOf(cred) \cup {"native", "wait"}
  <1> DEFINE C == Choices(cred, loads)
             Best(i) == \A j \in C : loads[i] < loads[j] \/ (loads[i] = loads[j] /\ i <= j)
  <1>1. Len(cred.keys) \in Nat /\ DOMAIN cred.keys = 1 .. Len(cred.keys)
    <2> DEFINE S == {cred.keys[i] : i \in DOMAIN cred.keys}
    <2>1. cred.keys \in Seq(S)
      BY DEF Credential
    <2> HIDE DEF S
    <2> QED
      BY <2>1
  <1>2. C \subseteq DOMAIN cred.keys /\ C \in SUBSET Nat
    BY <1>1 DEF Choices
  <1>3. ASSUME C # {} PROVE \E i \in C : Best(i)
    <2> DEFINE L == {loads[j] : j \in C}
    <2>1. L \in SUBSET Nat /\ L # {}
      BY <1>2, <1>3
    <2>2. PICK l \in L : \A x \in L : l <= x
      BY <2>1, LeastExists
    <2> DEFINE D == {j \in C : loads[j] = l}
    <2>3. D \in SUBSET Nat /\ D # {}
      BY <1>2, <2>2
    <2>4. PICK i \in D : \A j \in D : i <= j
      BY <2>3, LeastExists
    <2>5. ASSUME NEW j \in C PROVE loads[i] < loads[j] \/ (loads[i] = loads[j] /\ i <= j)
      <3>1. loads[i] = l /\ l \in Nat /\ loads[j] \in Nat /\ l <= loads[j]
        BY <1>2, <2>1, <2>2, <2>4
      <3>2. CASE loads[j] = l
        BY <2>4, <3>1, <3>2
      <3>3. CASE loads[j] # l
        BY <3>1, <3>3
      <3> QED
        BY <3>2, <3>3
    <2> QED
      BY <2>4, <2>5
  <1>4. CASE cred.keys = <<>>
    <2>1. SelectKey(cred, loads) = "native" /\ KeysOf(cred) = {}
      BY <1>4 DEF SelectKey, KeysOf
    <2> QED
      BY <2>1
  <1>5. CASE cred.keys # <<>> /\ C = {}
    <2>1. SelectKey(cred, loads) = "wait"
      BY <1>5 DEF SelectKey
    <2>2. "wait" \notin KeysOf(cred)
      BY DEF KeysOf, Credential
    <2>3. 1 \in DOMAIN cred.keys
      BY <1>1, <1>5
    <2>4. cred.pooled /\ \A i \in DOMAIN cred.keys : ~ (loads[i] < threshold)
      BY <1>5, <2>3 DEF Choices
    <2> QED
      BY <2>1, <2>2, <2>4
  <1>6. CASE cred.keys # <<>> /\ C # {}
    <2>1. PICK i \in C : SelectKey(cred, loads) = cred.keys[i]
      <3>1. SelectKey(cred, loads) = cred.keys[CHOOSE i \in C : Best(i)]
        BY <1>6 DEF SelectKey
      <3>2. (CHOOSE i \in C : Best(i)) \in C
        BY <1>3, <1>6
      <3> QED
        BY <3>1, <3>2
    <2>2. cred.keys[i] # "wait"
      BY <1>2 DEF Credential
    <2>3. i \in DOMAIN cred.keys /\ (cred.pooled => loads[i] < threshold)
      BY <1>2 DEF Choices
    <2>4. cred.keys[i] \in KeysOf(cred)
      BY <2>3 DEF KeysOf
    <2> QED
      BY <2>1, <2>2, <2>3, <2>4
  <1> QED
    BY <1>4, <1>5, <1>6

\* What an attempt is given depends on what the turns before it were given.
LEMMA ResolveLooksBack ==
  ASSUME NEW b, NEW f, NEW g, NEW t, \A u \in 1 .. t - 1 : f[u] = g[u]
  PROVE  ResolveKey(b, f, t) = ResolveKey(b, g, t)
  <1>1. \A p, k : Taken(b, f, t, p, k) = Taken(b, g, t, p, k)
    <2>1. \A p, k : {u \in 1 .. t - 1 : CredAt(b, u).pool = p /\ f[u] = k}
                    = {u \in 1 .. t - 1 : CredAt(b, u).pool = p /\ g[u] = k}
      OBVIOUS
    <2> QED
      BY <2>1 DEF Taken
  <1> QED
    BY <1>1 DEF ResolveKey

----
(* The invariant. *)

AdmissionTypes ==
  /\ registry \in Registries
  /\ \A p \in Pools : Agree(registry, p)
  /\ now \in Nat
  /\ phase \in [All -> {"planned", "prepared", "started", "stopped"}]
  /\ startedAt \in [All -> Nat \cup {Unset}]
  /\ \A a \in All : startedAt[a] # Unset => startedAt[a] <= now
  /\ latch \in [Pools -> Nat]
  /\ launching \in Blocks \cup {Unset}

\* The credential of a turn is registered, and so is its pool.
LEMMA CredAtIs ==
  ASSUME AdmissionTypes, NEW b \in Blocks, NEW t \in Turns(b)
  PROVE  /\ \E n \in DOMAIN registry : CredAt(b, t) = registry[n]
         /\ Credential(CredAt(b, t)) /\ CredAt(b, t).pool \in Pools
  <1>1. PlaceOf(b, t) \in PlacesOf(All)
    BY TurnIs, AttemptsOf DEF PlacesOf
  <1>2. PICK n \in DOMAIN registry : CredAt(b, t) = registry[n]
    BY <1>1, Registry DEF CredAt, AdmissionTypes
  <1>3. Credential(registry[n]) /\ registry[n].pool \in Pools
    BY Registry DEF AdmissionTypes, Pools, PoolsOf
  <1> QED
    BY <1>2, <1>3

\* The turns of a block before one, that are of a pool.
Earlier(b, t, p) == {u \in 1 .. t - 1 : CredAt(b, u).pool = p}

LEMMA EarlierFit ==
  ASSUME AdmissionTypes, NEW b \in Blocks, NEW t \in 1 .. 2 * Len(Attempts[b]) + 1, NEW p
  PROVE  /\ IsFiniteSet(Earlier(b, t, p)) /\ Cardinality(Earlier(b, t, p)) \in Nat
         /\ Earlier(b, t, p) \subseteq Turns(b)
         /\ Cardinality(Earlier(b, t, p)) <= Demand(registry, Members(b), p)
         /\ t \in Turns(b) /\ CredAt(b, t).pool = p =>
              Cardinality(Earlier(b, t, p)) < Demand(registry, Members(b), p)
  <1> DEFINE E == Earlier(b, t, p)
             P == InPool(registry, Members(b), p)
             Of(X) == {PlaceOf(b, u) : u \in X}
  <1>1. E \subseteq Turns(b) /\ t \in Nat
    BY AttemptsOf DEF Earlier, Turns
  <1>2. IsFiniteSet(P) /\ Cardinality(P) \in Nat /\ Demand(registry, Members(b), p) = Cardinality(P)
    BY PlacesFinite, AttemptsOf DEF Demand
  <1>3. \A u \in Turns(b) : CredAt(b, u).pool = p => PlaceOf(b, u) \in P
    BY TurnIs DEF InPool, CredAt
  <1>4. IsFiniteSet(E) /\ Cardinality(E) \in Nat /\ Cardinality(Of(E)) = Cardinality(E)
    BY <1>1, TurnsCount
  <1>5. Of(E) \subseteq P
    BY <1>1, <1>3 DEF Earlier
  <1>6. Cardinality(E) <= Cardinality(P)
    BY <1>2, <1>4, <1>5, FS_Subset
  <1>7. ASSUME t \in Turns(b), CredAt(b, t).pool = p PROVE Cardinality(E) < Cardinality(P)
    <2>1. PlaceOf(b, t) \in P
      BY <1>3, <1>7
    <2>2. PlaceOf(b, t) \notin Of(E)
      <3>1. \A u \in E : u \in Turns(b) /\ u # t
        BY <1>1 DEF Earlier
      <3> QED
        BY <3>1, <1>7, TurnIs
    <2>3. Cardinality(Of(E)) # Cardinality(P)
      BY <1>2, <1>5, <2>1, <2>2, FS_Subset
    <2> HIDE DEF E, P, Of
    <2> QED
      BY <2>3, <1>2, <1>4, <1>6
  <1> QED
    BY <1>1, <1>2, <1>4, <1>6, <1>7

\* Where a block fits, a turn of it finds the capacity not yet taken.
LEMMA RoomAtTurn ==
  ASSUME AdmissionTypes, NEW b \in Blocks, FitsNow(b), NEW t \in Turns(b),
         NEW p, p = CredAt(b, t).pool
  PROVE  Demand(registry, Live, p) + Cardinality(Earlier(b, t, p)) < Capacity(p)
  <1>1. t \in 1 .. 2 * Len(Attempts[b]) + 1
    BY AttemptsOf DEF Turns
  <1>2. /\ Cardinality(Earlier(b, t, p)) \in Nat
        /\ Cardinality(Earlier(b, t, p)) < Demand(registry, Members(b), p)
    BY <1>1, EarlierFit
  <1>3. p \in Pools
    BY CredAtIs
  <1>4. /\ Demand(registry, Members(b), p) \in Nat
        /\ Demand(registry, Live, p) \in Nat
        /\ Capacity(p) \in Nat
    BY <1>3, PlacesFinite, AttemptsOf, CapacityIs DEF Live, Pools, Capacity, AdmissionTypes
  <1>5. Demand(registry, Live, p) + Demand(registry, Members(b), p) <= Capacity(p)
    BY <1>2, <1>3, <1>4 DEF FitsNow
  <1> QED
    BY <1>2, <1>4, <1>5

\* How often a key is held and taken at a turn.
Held(b, key, t, p, k) == Load(p, k) + Taken(b, key, t, p, k)

LEMMA HeldIs ==
  ASSUME NEW b \in Blocks, NEW key, NEW t \in 1 .. 2 * Len(Attempts[b]) + 1, NEW p, NEW k
  PROVE  Load(p, k) \in Nat /\ Taken(b, key, t, p, k) \in Nat
  <1>1. Load(p, k) \in Nat
    <2>1. IsFiniteSet(InPool(registry, Live, p))
      BY PlacesFinite DEF Live
    <2>2. IsFiniteSet({s \in InPool(registry, Live, p) : grants[s] = k})
      BY <2>1, FS_Subset
    <2> QED
      BY <2>2, FS_CardinalityType DEF Load
  <1>2. Taken(b, key, t, p, k) \in Nat
    <2>1. {u \in 1 .. t - 1 : CredAt(b, u).pool = p /\ key[u] = k} \in SUBSET Turns(b)
      BY AttemptsOf DEF Turns
    <2> QED
      BY <2>1, TurnsCount DEF Taken
  <1> QED
    BY <1>1, <1>2

\* What is granted is a key of the credential, or none.
LEMMA ResolveIs ==
  ASSUME AdmissionTypes, NEW b \in Blocks, NEW t \in Turns(b), NEW key
  PROVE  ResolveKey(b, key, t) \in KeysOf(CredAt(b, t)) \cup {"native", "wait"}
  <1> DEFINE cred == CredAt(b, t)
             loads == [i \in DOMAIN cred.keys |->
                         Load(cred.pool, cred.keys[i]) + Taken(b, key, t, cred.pool, cred.keys[i])]
  <1>1. t \in 1 .. 2 * Len(Attempts[b]) + 1
    BY AttemptsOf DEF Turns
  <1>2. loads \in [DOMAIN cred.keys -> Nat]
    BY <1>1, HeldIs
  <1>3. SelectKey(cred, loads) \in KeysOf(cred) \cup {"native", "wait"}
    <2> HIDE DEF loads
    <2> QED
      BY <1>2, CredAtIs, SelectKeyIs
  <1> QED
    BY <1>3 DEF ResolveKey

\* There is one grant of keys to a block, and each turn has what it resolves to.
LEMMA GrantedIs ==
  ASSUME AdmissionTypes, NEW b \in Blocks
  PROVE  \A t \in Turns(b) : Granted(b)[t] = ResolveKey(b, Granted(b), t)
  <1> DEFINE N == 2 * Len(Attempts[b])
             Given(before, t) == Append(before, ResolveKey(b, before, t))
             Solves(f, n) == f = [t \in 0 .. n |-> IF t = 0 THEN <<>> ELSE Given(f[t - 1], t)]
             A == {n \in Nat : \E f : Solves(f, n)}
  <1>0. N \in Nat
    BY AttemptsOf
  <1>1. 0 \in A
    <2>1. Solves([t \in 0 .. 0 |-> <<>>], 0)
      OBVIOUS
    <2> HIDE DEF Solves
    <2> QED
      BY <2>1
  <1>2. ASSUME NEW n \in A PROVE n + 1 \in A
    <2>1. PICK f : Solves(f, n)
      BY <1>2
    <2> DEFINE g == [t \in 0 .. (n + 1) |-> IF t \in 0 .. n THEN f[t] ELSE Given(f[n], n + 1)]
    <2>2. n \in Nat
      BY <1>2
    <2>3. ASSUME NEW t \in 0 .. (n + 1) PROVE g[t] = IF t = 0 THEN <<>> ELSE Given(g[t - 1], t)
      <3> HIDE DEF Given
      <3>1. CASE t = 0
        BY <2>1, <2>2, <3>1
      <3>2. CASE t \in 1 .. n
        <4>1. t \in 0 .. n /\ t - 1 \in 0 .. n /\ t - 1 \in 0 .. (n + 1) /\ t # 0
          BY <2>2, <3>2
        <4>2. g[t] = f[t] /\ g[t - 1] = f[t - 1]
          BY <4>1
        <4>3. f[t] = Given(f[t - 1], t)
          BY <2>1, <4>1
        <4> QED
          BY <4>1, <4>2, <4>3
      <3>3. CASE t = n + 1
        <4>1. t \notin 0 .. n /\ t - 1 = n /\ n \in 0 .. n /\ n \in 0 .. (n + 1) /\ t # 0
          BY <2>2, <3>3
        <4>2. g[t] = Given(f[n], n + 1) /\ g[n] = f[n]
          BY <4>1
        <4> QED
          BY <3>3, <4>1, <4>2
      <3> QED
        BY <2>2, <3>1, <3>2, <3>3
    <2>4. g = [t \in 0 .. (n + 1) |-> g[t]]
      OBVIOUS
    <2>5. Solves(g, n + 1)
      <3> HIDE DEF g, Given
      <3> QED
        BY <2>3, <2>4
    <2> HIDE DEF Solves, g
    <2> QED
      BY <2>2, <2>5
  <1>3. A = Nat
    <2> HIDE DEF A
    <2> QED
      BY <1>1, <1>2, Inductive DEF A
  <1>4. PICK f : Solves(f, N)
    <2> HIDE DEF Solves
    <2> QED
      BY <1>0, <1>3
  <1> DEFINE after == CHOOSE h : Solves(h, N)
  <1>5. Solves(after, N)
    <2> HIDE DEF Solves
    <2> QED
      BY <1>4
  <1>6. Granted(b) = after[N]
    BY DEF Granted
  <1> HIDE DEF after
  <1> DEFINE V == (UNION {KeysOf(registry[n]) : n \in DOMAIN registry}) \cup {"native", "wait"}
             Right(t) == /\ after[t] \in Seq(V) /\ Len(after[t]) = t
                         /\ \A u \in 1 .. t : after[t][u] = ResolveKey(b, after[t], u)
             B == {t \in Nat : t <= N => Right(t)}
  <1>7. 0 \in B
    <2>1. after[0] = <<>>
      BY <1>0, <1>5
    <2>2. <<>> \in Seq(V) /\ Len(<<>>) = 0 /\ 1 .. 0 = {}
      OBVIOUS
    <2>3. Right(0)
      <3> HIDE DEF V
      <3> QED
        BY <2>1, <2>2
    <2> HIDE DEF Right
    <2> QED
      BY <2>3
  <1>8. ASSUME NEW t \in B PROVE t + 1 \in B
    <2> SUFFICES ASSUME t + 1 <= N PROVE Right(t + 1)
      BY <1>8
    <2> DEFINE key == after[t]
               more == ResolveKey(b, key, t + 1)
    <2>1. t \in Nat /\ t + 1 \in 0 .. N /\ t + 1 # 0 /\ (t + 1) - 1 = t /\ t + 1 \in Turns(b)
      BY <1>0, <1>8 DEF Turns
    <2>2. key \in Seq(V) /\ Len(key) = t /\ \A u \in 1 .. t : key[u] = ResolveKey(b, key, u)
      BY <1>0, <1>8, <2>1
    <2>3. after[t + 1] = Append(key, more)
      <3> HIDE DEF Given, key
      <3>1. after[t + 1] = Given(after[(t + 1) - 1], t + 1)
        BY <1>5, <2>1
      <3> QED
        BY <3>1, <2>1 DEF Given, key
    <2>4. more \in V
      <3>1. more \in KeysOf(CredAt(b, t + 1)) \cup {"native", "wait"}
        BY <2>1, ResolveIs
      <3>2. PICK n \in DOMAIN registry : CredAt(b, t + 1) = registry[n]
        BY <2>1, CredAtIs
      <3>3. more \in KeysOf(registry[n]) \cup {"native", "wait"}
        BY <3>1, <3>2
      <3> HIDE DEF more
      <3> QED
        BY <3>3
    <2>5. /\ Append(key, more) \in Seq(V) /\ Len(Append(key, more)) = t + 1
          /\ \A u \in 1 .. t : Append(key, more)[u] = key[u]
          /\ Append(key, more)[t + 1] = more
      <3> HIDE DEF key, more, V
      <3> QED
        BY <2>2, <2>4, AppendProperties
    <2>6. ASSUME NEW u \in 1 .. t + 1
          PROVE  Append(key, more)[u] = ResolveKey(b, Append(key, more), u)
      <3>1. \A v \in 1 .. u - 1 : key[v] = Append(key, more)[v]
        <4>1. \A v \in 1 .. u - 1 : v \in 1 .. t
          BY <2>1
        <4> QED
          BY <4>1, <2>5
      <3>2. ResolveKey(b, key, u) = ResolveKey(b, Append(key, more), u)
        <4> DEFINE longer == Append(key, more)
        <4>1. \A v \in 1 .. u - 1 : key[v] = longer[v]
          BY <3>1
        <4> HIDE DEF key, longer
        <4>2. ResolveKey(b, key, u) = ResolveKey(b, longer, u)
          BY <4>1, ResolveLooksBack
        <4> QED
          BY <4>2 DEF longer
      <3>3. CASE u \in 1 .. t
        BY <2>2, <2>5, <3>2, <3>3
      <3>4. CASE u = t + 1
        BY <2>5, <3>2, <3>4
      <3> QED
        BY <2>1, <3>3, <3>4
    <2> HIDE DEF more, V
    <2> QED
      BY <2>3, <2>5, <2>6
  <1>9. B = Nat
    <2> HIDE DEF B
    <2> QED
      BY <1>7, <1>8, Inductive DEF B
  <1>10. \A u \in 1 .. N : after[N][u] = ResolveKey(b, after[N], u)
    <2>1. N \in B
      <3> HIDE DEF B
      <3> QED
        BY <1>0, <1>9
    <2>2. Right(N)
      <3> HIDE DEF Right
      <3> QED
        BY <1>0, <2>1
    <2> QED
      BY <2>2
  <1> QED
    BY <1>6, <1>10 DEF Turns

\* What is granted at a turn: no wait, and a key of a pool only below its allowance.
LEMMA TurnIsHonest ==
  ASSUME AdmissionTypes, NEW b \in Blocks, FitsNow(b), NEW t \in Turns(b),
         NEW cred, cred = CredAt(b, t), NEW key, key = Granted(b)
  PROVE  /\ key[t] # "wait"
         /\ key[t] \in KeysOf(cred) \cup {"native", "wait"}
         /\ \A k \in KeysOf(cred) : key[t] = k /\ cred.pooled =>
              Held(b, key, t, cred.pool, k) < KeyWaitThreshold(cred, Capacity(cred.pool))
  <1> DEFINE p == cred.pool
             T == KeyWaitThreshold(cred, Capacity(p))
             loads == [i \in DOMAIN cred.keys |-> Load(p, cred.keys[i]) + Taken(b, key, t, p, cred.keys[i])]
             n == Len(cred.keys)
             P == InPool(registry, Live, p)
             Q == Earlier(b, t, p)
  <1>1. Credential(cred) /\ p \in Pools /\ Capacity(p) \in Nat \ {0}
    BY CredAtIs, CapacityIs DEF Pools, Capacity, AdmissionTypes
  <1>2. t \in 1 .. 2 * Len(Attempts[b]) + 1
    BY AttemptsOf DEF Turns
  <1>3. loads \in [DOMAIN cred.keys -> Nat]
    BY <1>2, HeldIs
  <1>4. key[t] = SelectKey(cred, loads)
    BY GrantedIs DEF ResolveKey
  <1>5. /\ key[t] = "wait" =>
              cred.pooled /\ \A i \in DOMAIN cred.keys : ~ (loads[i] < T)
        /\ \A k \in KeysOf(cred) : key[t] = k =>
              \E i \in DOMAIN cred.keys : cred.keys[i] = k /\ (cred.pooled => loads[i] < T)
        /\ key[t] \in KeysOf(cred) \cup {"native", "wait"}
    <2> HIDE DEF loads
    <2> QED
      BY <1>1, <1>3, <1>4, SelectKeyIs
  <1>6. ASSUME key[t] = "wait" PROVE FALSE
    <2>1. n \in Nat /\ DOMAIN cred.keys = 1 .. n
      <3> DEFINE S == {cred.keys[i] : i \in DOMAIN cred.keys}
      <3>1. cred.keys \in Seq(S)
        BY <1>1 DEF Credential
      <3> HIDE DEF S
      <3> QED
        BY <3>1
    <2>2. T \in Nat /\ n * T >= Capacity(p)
      BY <1>1, <1>5, <1>6, ThresholdIs
    <2>3. ASSUME NEW i \in 1 .. n
          PROVE  Cardinality({s \in P : grants[s] = cred.keys[i]})
                 + Cardinality({u \in Q : key[u] = cred.keys[i]}) >= T
      <3>1. {u \in Q : key[u] = cred.keys[i]} =
              {u \in 1 .. t - 1 : CredAt(b, u).pool = p /\ key[u] = cred.keys[i]}
        BY DEF Earlier
      <3>2. loads[i] = Cardinality({s \in P : grants[s] = cred.keys[i]})
                       + Cardinality({u \in Q : key[u] = cred.keys[i]})
        BY <2>1, <3>1 DEF Load, Taken
      <3>3. loads[i] \in Nat /\ ~ (loads[i] < T)
        BY <1>3, <1>5, <1>6, <2>1
      <3> HIDE DEF loads
      <3> QED
        BY <2>2, <3>2, <3>3
    <2>4. IsFiniteSet(P) /\ IsFiniteSet(Q) /\ Cardinality(P) = Demand(registry, Live, p)
      BY <1>2, PlacesFinite, EarlierFit DEF Live, Demand
    <2>5. \A i, j \in 1 .. n : i # j => cred.keys[i] # cred.keys[j]
      BY <1>1, <2>1 DEF Credential
    <2> DEFINE f == [i \in 1 .. n |-> {s \in P : grants[s] = cred.keys[i]}]
               g == [i \in 1 .. n |-> {u \in Q : key[u] = cred.keys[i]}]
    <2>6. Cardinality(P) + Cardinality(Q) >= n * T
      <3>1. \A i, j \in 1 .. n : i # j => f[i] \cap f[j] = {} /\ g[i] \cap g[j] = {}
        BY <2>5
      <3>2. \A i \in 1 .. n : Cardinality(f[i]) + Cardinality(g[i]) >= T
        BY <2>3
      <3>3. f \in [1 .. n -> SUBSET P] /\ g \in [1 .. n -> SUBSET Q]
        OBVIOUS
      <3>4. IsFiniteSet(P) /\ IsFiniteSet(Q) /\ n \in Nat /\ T \in Nat
        BY <2>1, <2>2, <2>4
      <3> HIDE DEF P, Q, n, T, f, g
      <3> QED
        BY <3>1, <3>2, <3>3, <3>4, Crowded
    <2>7. Cardinality(P) + Cardinality(Q) < Capacity(p)
      BY <2>4, RoomAtTurn
    <2>8. Cardinality(P) \in Nat /\ Cardinality(Q) \in Nat /\ n * T \in Nat
      BY <2>1, <2>2, <2>4, FS_CardinalityType
    <2> HIDE DEF P, Q, n, T
    <2> QED
      BY <2>2, <2>6, <2>7, <2>8, <1>1
  <1>7. ASSUME NEW k \in KeysOf(cred), key[t] = k, cred.pooled
        PROVE  Held(b, key, t, p, k) < T
    BY <1>5, <1>7 DEF Held
  <1> QED
    BY <1>5, <1>6, <1>7

\* No key is held over its allowance at any turn, whatever aliases it has.
LEMMA AllowanceKept ==
  ASSUME AdmissionTypes, GrantsFit, NEW b \in Blocks, FitsNow(b),
         NEW key, key = Granted(b),
         NEW n \in DOMAIN registry, NEW k \in KeysOf(registry[n]),
         NEW p, p = registry[n].pool
  PROVE  \A t \in 0 .. 2 * Len(Attempts[b]) :
           Held(b, key, t + 1, p, k) <= KeyWaitThreshold(registry[n], Capacity(p))
  <1> DEFINE N == 2 * Len(Attempts[b])
             T == KeyWaitThreshold(registry[n], Capacity(p))
             A == {t \in Nat : t <= N => Held(b, key, t + 1, p, k) <= T}
  <1>1. N \in Nat
    BY AttemptsOf
  <1>2. p \in Pools /\ Capacity(p) \in Nat \ {0} /\ Credential(registry[n]) /\ T \in Nat
    <2>1. p \in Pools /\ Credential(registry[n])
      BY Registry DEF Pools, PoolsOf, AdmissionTypes
    <2>2. Capacity(p) \in Nat \ {0}
      BY <2>1, CapacityIs DEF Pools, Capacity, AdmissionTypes
    <2> QED
      BY <2>1, <2>2, ThresholdIs
  <1>3. 0 \in A
    <2>1. Taken(b, key, 1, p, k) = 0
      <3>1. {u \in 1 .. 1 - 1 : CredAt(b, u).pool = p /\ key[u] = k} = {}
        OBVIOUS
      <3> QED
        BY <3>1, FS_EmptySet DEF Taken
    <2>2. Load(p, k) <= T /\ Load(p, k) \in Nat
      <3>1. 1 \in 1 .. N + 1
        BY <1>1
      <3> QED
        BY <3>1, HeldIs DEF GrantsFit
    <2> QED
      BY <2>1, <2>2 DEF Held
  <1>4. ASSUME NEW t \in A PROVE t + 1 \in A
    <2> SUFFICES ASSUME t + 1 <= N PROVE Held(b, key, t + 2, p, k) <= T
      BY <1>4
    <2> DEFINE u == t + 1
               X(v) == {w \in 1 .. v - 1 : CredAt(b, w).pool = p /\ key[w] = k}
    <2>1. t \in Nat /\ u \in Turns(b) /\ u \in 1 .. N + 1 /\ t + 2 \in 1 .. N + 1
      BY <1>1, <1>4 DEF Turns
    <2>2. Held(b, key, u, p, k) <= T
      BY <1>1, <1>4, <2>1
    <2>3. Load(p, k) \in Nat /\ Taken(b, key, u, p, k) \in Nat /\ Taken(b, key, t + 2, p, k) \in Nat
      BY <2>1, HeldIs
    <2>4. 1 .. (t + 2) - 1 = (1 .. u - 1) \cup {u} /\ u \notin 1 .. u - 1
      BY <2>1
    <2>5. IsFiniteSet(X(u))
      <3>1. X(u) \in SUBSET Turns(b)
        BY <2>1, AttemptsOf DEF Turns
      <3> QED
        BY <3>1, TurnsCount
    <2>6. CASE CredAt(b, u).pool = p /\ key[u] = k
      <3>1. X(t + 2) = X(u) \cup {u} /\ u \notin X(u)
        BY <2>4, <2>6
      <3>2. Taken(b, key, t + 2, p, k) = Taken(b, key, u, p, k) + 1
        <4>1. Cardinality(X(t + 2)) = Cardinality(X(u)) + 1
          <5> HIDE DEF X, u
          <5> QED
            BY <3>1, <2>5, FS_AddElement
        <4> QED
          BY <4>1 DEF Taken
      <3>3. PICK m \in DOMAIN registry : CredAt(b, u) = registry[m]
        BY <2>1, CredAtIs
      <3>4. Credential(registry[m])
        BY Registry DEF AdmissionTypes
      <3>5. k \in KeysOf(registry[m])
        <4>1. key[u] \in KeysOf(registry[m]) \cup {"native", "wait"}
          BY <2>1, <3>3, TurnIsHonest
        <4>2. k \notin {"native", "wait"}
          BY <1>2 DEF Credential, KeysOf
        <4> QED
          BY <4>1, <4>2, <2>6
      <3>6. KeyWaitThreshold(registry[m], Capacity(p)) = T
        <4>1. m \in Aliases(registry, p) /\ n \in Aliases(registry, p)
          BY <2>6, <3>3 DEF Aliases
        <4>2. KeysOf(registry[m]) \cap KeysOf(registry[n]) # {}
          BY <3>5
        <4>3. Agree(registry, p)
          BY <1>2 DEF AdmissionTypes
        <4> QED
          BY <4>1, <4>2, <4>3 DEF Agree, Capacity
      <3>7. Held(b, key, u, p, k) < T
        <4>1. CASE registry[m].pooled
          BY <4>1, <2>1, <2>6, <3>3, <3>5, <3>6, TurnIsHonest
        <4>2. CASE ~registry[m].pooled
          <5>1. T = Capacity(p)
            BY <4>2, <1>2, <3>4, <3>6, ThresholdIs
          <5>2. Demand(registry, Live, p) + Cardinality(Earlier(b, u, p)) < Capacity(p)
            BY <2>1, <2>6, RoomAtTurn
          <5>3. Load(p, k) <= Demand(registry, Live, p) /\ Demand(registry, Live, p) \in Nat
            <6>1. IsFiniteSet(InPool(registry, Live, p)) /\ Demand(registry, Live, p) \in Nat
              BY PlacesFinite DEF Live
            <6>2. {s \in InPool(registry, Live, p) : grants[s] = k} \in SUBSET InPool(registry, Live, p)
              OBVIOUS
            <6> QED
              BY <6>1, <6>2, FS_Subset DEF Load, Demand
          <5>4. /\ Taken(b, key, u, p, k) <= Cardinality(Earlier(b, u, p))
                /\ Cardinality(Earlier(b, u, p)) \in Nat
            <6>1. IsFiniteSet(Earlier(b, u, p)) /\ Cardinality(Earlier(b, u, p)) \in Nat
              BY <2>1, EarlierFit
            <6>2. X(u) \in SUBSET Earlier(b, u, p)
              BY DEF Earlier
            <6>3. Cardinality(X(u)) <= Cardinality(Earlier(b, u, p))
              BY <6>1, <6>2, FS_Subset
            <6> QED
              BY <6>1, <6>3 DEF Taken
          <5> HIDE DEF u, T
          <5> QED
            BY <5>1, <5>2, <5>3, <5>4, <2>3, <1>2 DEF Held
        <4> QED
          BY <4>1, <4>2
      <3> HIDE DEF u, T
      <3> QED
        BY <3>2, <3>7, <2>3, <1>2 DEF Held
    <2>7. CASE ~ (CredAt(b, u).pool = p /\ key[u] = k)
      <3>1. X(t + 2) = X(u)
        BY <2>4, <2>7
      <3>2. Taken(b, key, t + 2, p, k) = Taken(b, key, u, p, k)
        BY <3>1 DEF Taken
      <3> QED
        BY <3>2, <2>2 DEF Held
    <2> QED
      BY <2>6, <2>7
  <1>5. A = Nat
    <2> HIDE DEF A
    <2> QED
      BY <1>3, <1>4, Inductive DEF A
  <1> QED
    BY <1>1, <1>5

----
(* The steps. *)

LEMMA GrantsFitInit ==
  ASSUME AdmissionInit
  PROVE  AdmissionTypes /\ GrantsFit /\ LaunchesAreSpaced
  <1>1. registry \in Registries /\ \A p \in Pools : Agree(registry, p)
    BY DEF AdmissionInit, Registered, Pools
  <1>2. AdmissionTypes
    BY <1>1 DEF AdmissionInit, AdmissionTypes, Pools
  <1>3. LaunchesAreSpaced
    BY DEF AdmissionInit, LaunchesAreSpaced
  <1>4. Live = {} /\ PlacesOf({}) = {}
    BY DEF AdmissionInit, Live, PlacesOf
  <1>5. \A p : InPool(registry, Live, p) = {}
    BY <1>4 DEF InPool
  <1>6. \A p : Demand(registry, Live, p) = 0 /\ \A k : Load(p, k) = 0
    <2>1. \A p, k : {s \in InPool(registry, Live, p) : grants[s] = k} = {}
      BY <1>5
    <2> QED
      BY <1>5, <2>1, FS_EmptySet DEF Demand, Load
  <1>7. \A p \in Pools : Capacity(p) \in Nat \ {0}
    BY <1>1, CapacityIs DEF Pools, Capacity
  <1>8. \A n \in DOMAIN registry :
          KeyWaitThreshold(registry[n], Capacity(registry[n].pool)) \in Nat
    <2> TAKE n \in DOMAIN registry
    <2>1. Credential(registry[n]) /\ registry[n].pool \in Pools
      BY <1>1, Registry DEF Pools, PoolsOf
    <2> QED
      BY <1>7, <2>1, ThresholdIs
  <1>9. GrantsFit
    <2>1. ~overrun
      BY DEF AdmissionInit
    <2> QED
      BY <2>1, <1>6, <1>7, <1>8 DEF GrantsFit
  <1> QED
    BY <1>2, <1>3, <1>9

\* Attempts that stay as they are, or die, leave the rest of the grants as they were.
LEMMA GrantsFitLess ==
  ASSUME AdmissionTypes, GrantsFit, UNCHANGED <<registry, grants, overrun>>, Live' \subseteq Live
  PROVE  GrantsFit'
  <1>1. Live \subseteq All
    BY DEF Live
  <1>2. ASSUME NEW p PROVE InPool(registry', Live', p) \subseteq InPool(registry, Live, p)
    BY DEF InPool, PlacesOf
  <1>3. ASSUME NEW p PROVE IsFiniteSet(InPool(registry, Live, p))
    BY <1>1, PlacesFinite
  <1>4. ASSUME NEW p \in Pools PROVE Demand(registry', Live', p) <= Capacity(p)
    <2>1. Demand(registry', Live', p) <= Demand(registry, Live, p)
      BY <1>2, <1>3, FS_Subset DEF Demand
    <2>2. Demand(registry', Live', p) \in Nat /\ Demand(registry, Live, p) \in Nat
      BY <1>1, PlacesFinite
    <2>3. Demand(registry, Live, p) <= Capacity(p) /\ Capacity(p) \in Nat
      BY CapacityIs DEF GrantsFit, AdmissionTypes, Pools, Capacity
    <2> QED
      BY <2>1, <2>2, <2>3
  <1>5. ASSUME NEW n \in DOMAIN registry, NEW k \in KeysOf(registry[n])
        PROVE  Load(registry[n].pool, k)' <= KeyWaitThreshold(registry[n], Capacity(registry[n].pool))
    <2> DEFINE p == registry[n].pool
               H == {s \in InPool(registry, Live, p) : grants[s] = k}
               G == {s \in InPool(registry', Live', p) : grants[s] = k}
    <2>1. p \in Pools /\ Credential(registry[n])
      BY Registry DEF Pools, PoolsOf, AdmissionTypes
    <2>2. Capacity(p) \in Nat \ {0}
      BY <2>1, CapacityIs DEF Pools, Capacity, AdmissionTypes
    <2>3. KeyWaitThreshold(registry[n], Capacity(p)) \in Nat
      BY <2>1, <2>2, ThresholdIs
    <2>4. IsFiniteSet(H) /\ G \subseteq H
      BY <1>2, <1>3, FS_Subset
    <2>5. Cardinality(G) \in Nat /\ Cardinality(H) \in Nat /\ Cardinality(G) <= Cardinality(H)
      <3> HIDE DEF G, H
      <3> QED
        BY <2>4, FS_Subset, FS_CardinalityType
    <2>6. Cardinality(H) <= KeyWaitThreshold(registry[n], Capacity(p))
      BY DEF GrantsFit, Load
    <2>7. Load(registry[n].pool, k)' = Cardinality(G)
      BY DEF Load
    <2> HIDE DEF G, H
    <2> QED
      BY <2>3, <2>5, <2>6, <2>7
  <1> QED
    BY <1>4, <1>5 DEF GrantsFit, Pools, Capacity

LEMMA ActivateFits ==
  ASSUME AdmissionTypes, GrantsFit, Activate
  PROVE  GrantsFit'
  <1> DEFINE b == Least(Eligible)
             key == Granted(b)
             N == 2 * Len(Attempts[b])
  <1>1. b \in Eligible
    <2>1. Eligible \in SUBSET Nat /\ Eligible # {}
      BY AdmissionAssumption DEF Activate, Eligible, Candidates, Blocks
    <2> QED
      BY <2>1, LeastIs
  <1>2. b \in Blocks /\ FitsNow(b) /\ \A a \in Members(b) : phase[a] = "planned"
    BY <1>1 DEF Eligible, Candidates
  <1>3. Members(b) \subseteq All /\ Live \subseteq All /\ Members(b) \cap Live = {} /\ N \in Nat
    BY <1>2, AttemptsOf DEF Live
  <1>4. \A t \in Turns(b) : key[t] # "wait"
    BY <1>2, TurnIsHonest
  <1>5. /\ phase' = [a \in All |-> IF a \in Members(b) THEN "prepared" ELSE phase[a]]
        /\ grants' = [s \in PlacesOf(All) |->
             IF s[1] \in Members(b)
             THEN key[CHOOSE t \in Turns(b) : PlaceOf(b, t) = s] ELSE grants[s]]
        /\ overrun' = overrun /\ registry' = registry
    BY <1>4 DEF Activate
  <1>6. Live' = Live \cup Members(b)
    BY <1>3, <1>5 DEF Live
  <1>7. \A p : /\ InPool(registry, Live', p) = InPool(registry, Live, p) \cup InPool(registry, Members(b), p)
               /\ InPool(registry, Live, p) \cap InPool(registry, Members(b), p) = {}
    BY <1>3, <1>6 DEF InPool, PlacesOf
  <1>8. \A p : /\ IsFiniteSet(InPool(registry, Live, p)) /\ IsFiniteSet(InPool(registry, Members(b), p))
               /\ Demand(registry, Live, p) \in Nat /\ Demand(registry, Members(b), p) \in Nat
    BY <1>3, PlacesFinite
  <1>9. ASSUME NEW p \in Pools PROVE Demand(registry, Live', p) <= Capacity(p)
    <2>1. Demand(registry, Live', p) = Demand(registry, Live, p) + Demand(registry, Members(b), p)
      BY <1>7, <1>8, DisjointUnion DEF Demand
    <2>2. Demand(registry, Live, p) <= Capacity(p)
      BY DEF GrantsFit
    <2>3. Demand(registry, Members(b), p) > 0 =>
            Demand(registry, Live, p) + Demand(registry, Members(b), p) <= Capacity(p)
      BY <1>2 DEF FitsNow
    <2> HIDE DEF b
    <2> QED
      BY <2>1, <2>2, <2>3, <1>8
  <1>10. ASSUME NEW n \in DOMAIN registry, NEW k \in KeysOf(registry[n])
         PROVE  Load(registry[n].pool, k)' <= KeyWaitThreshold(registry[n], Capacity(registry[n].pool))
    <2> DEFINE p == registry[n].pool
               X == {u \in 1 .. (N + 1) - 1 : CredAt(b, u).pool = p /\ key[u] = k}
               H == {s \in InPool(registry, Live, p) : grants[s] = k}
               G == {PlaceOf(b, t) : t \in X}
    <2>1. X \in SUBSET Turns(b)
      BY <1>3 DEF Turns
    <2>2. ASSUME NEW s \in InPool(registry, Live, p) PROVE grants'[s] = grants[s]
      <3>1. s \in PlacesOf(All) /\ s[1] \notin Members(b)
        BY <1>3 DEF InPool, PlacesOf
      <3> QED
        BY <3>1, <1>5
    <2>3. ASSUME NEW t \in Turns(b)
          PROVE  grants'[PlaceOf(b, t)] = key[t]
      <3>1. PlaceOf(b, t) \in PlacesOf(Members(b))
        BY <1>2, TurnIs
      <3>2. PlaceOf(b, t) \in PlacesOf(All) /\ PlaceOf(b, t)[1] \in Members(b)
        BY <3>1, <1>3 DEF PlacesOf
      <3>3. (CHOOSE v \in Turns(b) : PlaceOf(b, v) = PlaceOf(b, t)) = t
        BY <1>2, TurnIs
      <3> HIDE DEF b, key
      <3> QED
        BY <3>2, <3>3, <1>5
    <2>4. {s \in InPool(registry, Members(b), p) : grants'[s] = k} = G
      <3>1. ASSUME NEW s \in InPool(registry, Members(b), p), grants'[s] = k PROVE s \in G
        <4>1. s \in PlacesOf(Members(b)) /\ CredOf(registry, s).pool = p
          BY DEF InPool
        <4>2. PICK t \in Turns(b) : PlaceOf(b, t) = s
          BY <4>1, <1>2, TurnIs
        <4>3. CredAt(b, t).pool = p /\ key[t] = k
          BY <4>1, <4>2, <2>3, <3>1 DEF CredAt
        <4>4. t \in 1 .. (N + 1) - 1
          BY <1>3 DEF Turns
        <4> QED
          BY <4>2, <4>3, <4>4
      <3>2. ASSUME NEW t \in X
            PROVE  PlaceOf(b, t) \in InPool(registry, Members(b), p) /\ grants'[PlaceOf(b, t)] = k
        <4>1. t \in Turns(b) /\ CredAt(b, t).pool = p /\ key[t] = k
          BY <2>1
        <4>2. PlaceOf(b, t) \in PlacesOf(Members(b))
          BY <4>1, <1>2, TurnIs
        <4> QED
          BY <4>1, <4>2, <2>3 DEF InPool, CredAt
      <3> HIDE DEF b, key, X
      <3> QED
        BY <3>1, <3>2
    <2>5. {s \in InPool(registry, Live', p) : grants'[s] = k} = H \cup G
      <3> HIDE DEF b, key, G
      <3> QED
        BY <1>7, <2>2, <2>4
    <2>6. H \cap G = {}
      <3> HIDE DEF b, key, G
      <3> QED
        BY <1>7, <2>4
    <2>7. /\ IsFiniteSet(H) /\ Cardinality(H) = Load(p, k)
          /\ IsFiniteSet(G) /\ Cardinality(G) = Taken(b, key, N + 1, p, k)
      <3>1. IsFiniteSet(H)
        BY <1>8, FS_Subset
      <3>2. IsFiniteSet(G) /\ Cardinality(G) = Cardinality(X)
        <4> HIDE DEF X, b
        <4> QED
          BY <1>2, <2>1, TurnsCount
      <3> QED
        BY <3>1, <3>2 DEF Load, Taken
    <2>8. Load(p, k)' = Held(b, key, N + 1, p, k)
      <3>1. Cardinality(H \cup G) = Cardinality(H) + Cardinality(G)
        <4> HIDE DEF H, G
        <4> QED
          BY <2>6, <2>7, DisjointUnion
      <3>2. Load(p, k)' = Cardinality(H \cup G)
        BY <2>5, <1>5 DEF Load
      <3> QED
        BY <3>1, <3>2, <2>7 DEF Held
    <2>9. N \in 0 .. N
      BY <1>3
    <2>10. Held(b, key, N + 1, p, k) <= KeyWaitThreshold(registry[n], Capacity(p))
      <3> HIDE DEF b
      <3> QED
        BY <1>2, <2>9, AllowanceKept
    <2> QED
      BY <2>8, <2>10
  <1>11. ~overrun'
    BY <1>5 DEF GrantsFit
  <1> HIDE DEF b, key
  <1> QED
    BY <1>5, <1>9, <1>10, <1>11 DEF GrantsFit, Pools, Capacity

LEMMA NextStartIs ==
  ASSUME AdmissionTypes, NEW p \in Pools
  PROVE  /\ NextStart(p) \in Nat
         /\ \A x \in All : startedAt[x] # Unset /\ p \in PoolsFor(x) =>
              startedAt[x] + SpacingOf(registry, p) <= NextStart(p)
  <1> DEFINE S == {latch[p]} \cup {t + SpacingOf(registry, p) : t \in StartsOf(p)}
             m == latch[p] + now + SpacingOf(registry, p)
  <1>1. SpacingOf(registry, p) \in Nat /\ latch[p] \in Nat /\ now \in Nat
    BY SpacingIs DEF AdmissionTypes
  <1>2. \A t \in StartsOf(p) : t \in Nat /\ t <= now
    BY DEF StartsOf, AdmissionTypes
  <1>3. S \in SUBSET Nat /\ S # {} /\ m \in Nat /\ \A y \in S : y <= m
    BY <1>1, <1>2
  <1>4. Greatest(S) \in Nat /\ \A y \in S : y <= Greatest(S)
    <2> HIDE DEF S, m
    <2> QED
      BY <1>3, GreatestIs
  <1>5. NextStart(p) = Greatest(S)
    BY DEF NextStart
  <1>6. ASSUME NEW x \in All, startedAt[x] # Unset, p \in PoolsFor(x)
        PROVE  startedAt[x] + SpacingOf(registry, p) \in S
    BY <1>6 DEF StartsOf
  <1> HIDE DEF S
  <1> QED
    BY <1>4, <1>5, <1>6

LEMMA PoolsForIs ==
  ASSUME AdmissionTypes, NEW a \in All
  PROVE  PoolsFor(a) \subseteq Pools
  <1>1. ASSUME NEW s \in PlacesOf({a}) PROVE CredOf(registry, s).pool \in Pools
    <2>1. s \in PlacesOf(All)
      BY DEF PlacesOf
    <2>2. PICK n \in DOMAIN registry : CredOf(registry, s) = registry[n]
      BY <2>1, Registry DEF AdmissionTypes
    <2> QED
      BY <2>2 DEF Pools, PoolsOf
  <1> QED
    BY <1>1 DEF PoolsFor

\* The attempt whose turn it is to start.
LEMMA TurnToStart ==
  ASSUME AdmissionTypes, Start
  PROVE  /\ launching \in Blocks
         /\ Attempts[launching][Least(Turn(launching))] \in All
         /\ phase[Attempts[launching][Least(Turn(launching))]] = "prepared"
  <1>1. launching \in Blocks /\ Turn(launching) # {}
    BY DEF Start, AdmissionTypes
  <1>2. Turn(launching) \subseteq DOMAIN Attempts[launching] /\ DOMAIN Attempts[launching] \subseteq Nat
    BY <1>1, AttemptsOf DEF Turn
  <1>3. Least(Turn(launching)) \in Turn(launching)
    BY <1>1, <1>2, LeastIs
  <1> DEFINE i == Least(Turn(launching))
  <1>4. i \in DOMAIN Attempts[launching] /\ phase[Attempts[launching][i]] = "prepared"
    BY <1>3 DEF Turn
  <1>5. Attempts[launching][i] \in Members(launching)
    BY <1>4 DEF Members
  <1> QED
    BY <1>1, <1>4, <1>5, AttemptsOf

LEMMA TypesStep ==
  ASSUME AdmissionTypes, AdmissionNext
  PROVE  AdmissionTypes'
  <1> USE AdmissionAssumption DEF AdmissionTypes, Pools
  <1>1. CASE Activate
    <2>1. Least(Eligible) \in Blocks
      <3>1. Eligible \in SUBSET Nat /\ Eligible # {} /\ Eligible \subseteq Blocks
        BY <1>1 DEF Activate, Eligible, Candidates, Blocks
      <3> QED
        BY <3>1, LeastIs
    <2>2. UNCHANGED <<registry, now, startedAt, latch>>
      BY <1>1 DEF Activate
    <2>3. launching' \in Blocks \cup {Unset}
      BY <1>1, <2>1 DEF Activate
    <2>4. phase' \in [All -> {"planned", "prepared", "started", "stopped"}]
      BY <1>1 DEF Activate
    <2> QED
      BY <2>2, <2>3, <2>4
  <1>2. CASE Start
    <2> DEFINE a == Attempts[launching][Least(Turn(launching))]
    <2>1. a \in All
      BY <1>2, TurnToStart
    <2>2. /\ phase' = [phase EXCEPT ![a] = "started"]
          /\ startedAt' = [startedAt EXCEPT ![a] = now]
          /\ UNCHANGED <<registry, now, latch, launching>>
      BY <1>2 DEF Start
    <2> HIDE DEF a
    <2>3. \A x \in All : startedAt'[x] # Unset => startedAt'[x] <= now
      BY <2>1, <2>2
    <2> QED
      BY <2>1, <2>2, <2>3
  <1>3. CASE Launched
    BY <1>3 DEF Launched
  <1>4. CASE Tick
    <2>1. now' = now + 1 /\ UNCHANGED <<registry, phase, startedAt, latch, launching>>
      BY <1>4 DEF Tick
    <2>2. \A x \in All : startedAt[x] # Unset => startedAt[x] <= now + 1
      <3>1. \A x \in All : startedAt[x] # Unset => startedAt[x] \in Nat /\ startedAt[x] <= now
        OBVIOUS
      <3> QED
        BY <3>1
    <2> QED
      BY <2>1, <2>2
  <1>5. ASSUME NEW a \in All, Report(a) PROVE AdmissionTypes'
    <2>1. /\ phase' = [phase EXCEPT ![a] = "stopped"]
          /\ UNCHANGED <<registry, now, startedAt, launching>>
      BY <1>5 DEF Report
    <2>2. latch' \in [PoolsOf(registry) -> Nat]
      <3>1. CASE UNCHANGED latch
        BY <3>1
      <3>2. ASSUME NEW p \in PoolsFor(a), latch' = [latch EXCEPT ![p] = Greatest({@, now + Cooldown})]
            PROVE  latch' \in [PoolsOf(registry) -> Nat]
        <4> DEFINE S == {latch[p], now + Cooldown}
        <4>1. p \in PoolsOf(registry)
          BY PoolsForIs
        <4>2. S \in SUBSET Nat /\ S # {} /\ latch[p] + now + Cooldown \in Nat
              /\ \A y \in S : y <= latch[p] + now + Cooldown
          BY <4>1
        <4>3. Greatest(S) \in Nat
          <5> HIDE DEF S
          <5> QED
            BY <4>2, GreatestIs
        <4> QED
          BY <3>2, <4>3
      <3> QED
        BY <3>1, <3>2, <1>5 DEF Report
    <2> QED
      BY <2>1, <2>2
  <1>6. ASSUME NEW a \in All, StopSibling(a) PROVE AdmissionTypes'
    BY <1>6 DEF StopSibling
  <1> QED
    BY <1>1, <1>2, <1>3, <1>4, <1>5, <1>6 DEF AdmissionNext

LEMMA GrantsStep ==
  ASSUME AdmissionTypes, GrantsFit, AdmissionNext
  PROVE  GrantsFit'
  <1>1. CASE Activate
    BY <1>1, ActivateFits
  <1>2. CASE Start
    <2>1. UNCHANGED <<registry, grants, overrun>>
      BY <1>2 DEF Start
    <2>2. Live' \subseteq Live
      <3> DEFINE a == Attempts[launching][Least(Turn(launching))]
      <3>1. a \in All /\ phase[a] = "prepared" /\ phase' = [phase EXCEPT ![a] = "started"]
        BY <1>2, TurnToStart DEF Start
      <3> HIDE DEF a
      <3> QED
        BY <3>1 DEF Live, AdmissionTypes
    <2> QED
      BY <2>1, <2>2, GrantsFitLess
  <1>3. CASE Launched \/ Tick
    <2>1. UNCHANGED <<registry, grants, overrun, phase>>
      BY <1>3 DEF Launched, Tick
    <2>2. Live' \subseteq Live
      BY <2>1 DEF Live
    <2> QED
      BY <2>1, <2>2, GrantsFitLess
  <1>4. ASSUME NEW a \in All, Report(a) \/ StopSibling(a) PROVE GrantsFit'
    <2>1. UNCHANGED <<registry, grants, overrun>> /\ phase' = [phase EXCEPT ![a] = "stopped"]
      BY <1>4 DEF Report, StopSibling
    <2>2. Live' \subseteq Live
      BY <2>1 DEF Live, AdmissionTypes
    <2> QED
      BY <2>1, <2>2, GrantsFitLess
  <1> QED
    BY <1>1, <1>2, <1>3, <1>4 DEF AdmissionNext

LEMMA SpacedStep ==
  ASSUME AdmissionTypes, LaunchesAreSpaced, AdmissionNext
  PROVE  LaunchesAreSpaced'
  <1>1. CASE Start
    <2> DEFINE a == Attempts[launching][Least(Turn(launching))]
    <2>1. a \in All
      BY <1>1, TurnToStart
    <2>2. /\ MayStart(a) /\ startedAt' = [startedAt EXCEPT ![a] = now]
          /\ registry' = registry
      BY <1>1 DEF Start
    <2> HIDE DEF a
    <2>3. \A x : PoolsFor(x)' = PoolsFor(x)
      BY <2>2 DEF PoolsFor
    <2>4. ASSUME NEW x \in All, x # a, startedAt[x] # Unset, NEW p \in PoolsFor(a) \cap PoolsFor(x)
          PROVE  now >= startedAt[x] + SpacingOf(registry, p)
      <3>1. p \in Pools
        BY <2>1, PoolsForIs
      <3>2. startedAt[x] + SpacingOf(registry, p) <= NextStart(p)
        BY <2>4, <3>1, NextStartIs
      <3>3. NextStart(p) <= now
        BY <2>2 DEF MayStart
      <3>4. startedAt[x] + SpacingOf(registry, p) \in Nat /\ now \in Nat /\ NextStart(p) \in Int
        <4>1. startedAt[x] \in Nat /\ now \in Nat /\ SpacingOf(registry, p) \in Nat
          BY <2>4, SpacingIs DEF AdmissionTypes
        <4>2. NextStart(p) \in Nat
          BY <3>1, NextStartIs
        <4> QED
          BY <4>1, <4>2
      <3> QED
        BY <3>2, <3>3, <3>4
    <2>5. ASSUME NEW x \in All, NEW y \in All, x # y, startedAt'[x] # Unset, startedAt'[y] # Unset,
                 NEW p \in PoolsFor(x) \cap PoolsFor(y)
          PROVE  \/ startedAt'[y] >= startedAt'[x] + SpacingOf(registry, p)
                 \/ startedAt'[x] >= startedAt'[y] + SpacingOf(registry, p)
      <3>1. startedAt'[a] = now /\ \A z \in All : z # a => startedAt'[z] = startedAt[z]
        BY <2>1, <2>2 DEF AdmissionTypes
      <3>2. CASE x = a
        BY <2>4, <2>5, <3>1, <3>2
      <3>3. CASE y = a
        BY <2>4, <2>5, <3>1, <3>3
      <3>4. CASE x # a /\ y # a
        BY <2>5, <3>1, <3>4 DEF LaunchesAreSpaced
      <3> QED
        BY <3>2, <3>3, <3>4
    <2> QED
      BY <2>2, <2>3, <2>5 DEF LaunchesAreSpaced
  <1>2. CASE UNCHANGED <<registry, startedAt>>
    <2>1. \A x : PoolsFor(x)' = PoolsFor(x)
      BY <1>2 DEF PoolsFor
    <2> QED
      BY <1>2, <2>1 DEF LaunchesAreSpaced
  <1> QED
    BY <1>1, <1>2 DEF AdmissionNext, Activate, Launched, Tick, Report, StopSibling

\* Whatever the registry, the blocks and the rate limits, the pools and the keys are
\* never overdrawn, an admitted attempt never waits for a key, and two launches of one
\* pool keep its spacing (the dispatch loop of campaign/controller.ts).
THEOREM AdmissionIsExactAlways == AdmissionSpec => []AdmissionIsExact
  <1> DEFINE Inv == AdmissionTypes /\ GrantsFit /\ LaunchesAreSpaced
  <1>1. AdmissionInit => Inv
    BY GrantsFitInit
  <1>2. Inv /\ [AdmissionNext]_admissionVars => Inv'
    <2> SUFFICES ASSUME Inv, [AdmissionNext]_admissionVars PROVE Inv'
      OBVIOUS
    <2>1. CASE AdmissionNext
      BY <2>1, TypesStep, GrantsStep, SpacedStep
    <2>2. CASE UNCHANGED admissionVars
      <3>1. AdmissionTypes'
        BY <2>2 DEF AdmissionTypes, admissionVars, Pools
      <3>2. GrantsFit'
        <4>1. Live' \subseteq Live
          BY <2>2 DEF Live, admissionVars
        <4> QED
          BY <2>2, <4>1, GrantsFitLess DEF admissionVars
      <3>3. LaunchesAreSpaced'
        <4>1. \A x : PoolsFor(x)' = PoolsFor(x)
          BY <2>2 DEF PoolsFor, admissionVars
        <4> QED
          BY <2>2, <4>1 DEF LaunchesAreSpaced, admissionVars
      <3> QED
        BY <3>1, <3>2, <3>3
    <2> QED
      BY <2>1, <2>2
  <1>3. Inv => AdmissionIsExact
    BY DEF AdmissionIsExact
  <1> QED
    BY <1>1, <1>2, <1>3, PTL DEF AdmissionSpec

----
(* The telemetry.  Folds over sequences first: they exist, and agree on what they share. *)

Folds(h, z, F, q, n) ==
  /\ h[0] = z
  /\ \A i \in 1 .. n : h[i] = F[<<h[i - 1], q[i]>>]

LEMMA FoldExists ==
  ASSUME NEW S, NEW L, NEW z \in S, NEW F \in [S \X L -> S], NEW q \in Seq(L)
  PROVE  \E h \in [0 .. Len(q) -> S] : Folds(h, z, F, q, Len(q))
  <1> DEFINE Done(n) == \E h \in [0 .. n -> S] : Folds(h, z, F, q, n)
             A == {n \in Nat : n <= Len(q) => Done(n)}
  <1>0. Len(q) \in Nat /\ \A i \in 1 .. Len(q) : q[i] \in L
    OBVIOUS
  <1>1. 0 \in A
    <2> DEFINE h == [i \in 0 .. 0 |-> z]
    <2>1. h \in [0 .. 0 -> S] /\ Folds(h, z, F, q, 0)
      BY DEF Folds
    <2> QED
      BY <2>1
  <1>2. ASSUME NEW n \in A PROVE n + 1 \in A
    <2> SUFFICES ASSUME n + 1 <= Len(q) PROVE Done(n + 1)
      OBVIOUS
    <2>1. n \in Nat /\ n <= Len(q)
      BY <1>0
    <2>2. PICK h \in [0 .. n -> S] : Folds(h, z, F, q, n)
      BY <2>1
    <2> DEFINE last == F[<<h[n], q[n + 1]>>]
               g == [i \in 0 .. (n + 1) |-> IF i <= n THEN h[i] ELSE last]
    <2>3. h[n] \in S /\ q[n + 1] \in L
      BY <1>0, <2>1
    <2>0. \A i \in 1 .. n : h[i] = F[<<h[i - 1], q[i]>>]
      BY <2>2 DEF Folds
    <2> HIDE DEF A, Done
    <2>4. g \in [0 .. n + 1 -> S]
      <3>1. last \in S
        BY <2>3
      <3>2. \A i \in 0 .. n + 1 : i <= n => i \in 0 .. n
        BY <2>1
      <3> QED
        <4> HIDE DEF last
        <4> QED
          BY <3>1, <3>2
    <2>5. Folds(g, z, F, q, n + 1)
      <3>0. g[n + 1] = last /\ \A i \in 0 .. n : g[i] = h[i]
        <4> HIDE DEF last
        <4> QED
          BY <2>1
      <3> HIDE DEF g
      <3>1. g[0] = z
        BY <2>1, <2>2, <3>0 DEF Folds
      <3>2. ASSUME NEW i \in 1 .. (n + 1) PROVE g[i] = F[<<g[i - 1], q[i]>>]
        <4>1. i - 1 \in 0 .. n /\ g[i - 1] = h[i - 1]
          BY <2>1, <3>0
        <4>2. CASE i <= n
          <5>1. i \in 1 .. n /\ i \in 0 .. n
            BY <2>1, <4>2
          <5> QED
            BY <2>0, <3>0, <4>1, <5>1
        <4>3. CASE i = n + 1
          BY <2>1, <3>0, <4>1, <4>3
        <4> QED
          BY <2>1, <4>2, <4>3
      <3> QED
        BY <3>1, <3>2 DEF Folds
    <2> QED
      BY <2>4, <2>5 DEF Done
  <1>3. A = Nat
    <2> HIDE DEF A, Done
    <2> QED
      BY <1>1, <1>2, Inductive DEF A
  <1> QED
    BY <1>0, <1>3

LEMMA FoldsAgree ==
  ASSUME NEW z, NEW F, NEW m \in Nat, NEW n \in Nat, n <= m, NEW f, NEW g, NEW p, NEW q,
         Folds(f, z, F, p, m), Folds(g, z, F, q, n), \A i \in 1 .. n : p[i] = q[i]
  PROVE  f[n] = g[n]
  <1> DEFINE A == {k \in Nat : k <= n => f[k] = g[k]}
  <1>1. 0 \in A
    BY DEF Folds
  <1>2. ASSUME NEW k \in A PROVE k + 1 \in A
    <2>1. k \in Nat /\ (k <= n => f[k] = g[k])
      OBVIOUS
    <2>2. ASSUME k + 1 <= n PROVE f[k + 1] = g[k + 1]
      <3>1. k + 1 \in 1 .. n /\ k + 1 \in 1 .. m /\ (k + 1) - 1 = k /\ f[k] = g[k]
        BY <2>1, <2>2
      <3>2. f[k + 1] = F[<<f[k], p[k + 1]>>] /\ g[k + 1] = F[<<g[k], q[k + 1]>>]
        BY <3>1 DEF Folds
      <3> QED
        BY <3>1, <3>2
    <2> QED
      BY <2>1, <2>2
  <1>3. A = Nat
    <2> HIDE DEF A
    <2> QED
      BY <1>1, <1>2, Inductive DEF A
  <1> QED
    BY <1>3

----
(* The evaluator's scan of the sidecar, and the samples in it. *)

SidecarLines == [at : Nat, read : {"over", "in", "gap"}]
Scans == [crossing : Nat, opened : Nat \cup {Never}, inside : Nat, windows : SUBSET (Nat \X Nat)]

LEMMA JudgeTypes ==
  ASSUME NEW s \in Scans, NEW line \in SidecarLines
  PROVE  Judge(s, line) \in Scans
  <1>1. /\ s.crossing \in Nat /\ s.opened \in Nat \cup {Never} /\ s.inside \in Nat
        /\ s.windows \in SUBSET (Nat \X Nat)
        /\ s = [crossing |-> s.crossing, opened |-> s.opened, inside |-> s.inside,
                windows |-> s.windows]
        /\ line.at \in Nat
    BY DEF Scans, SidecarLines
  <1>2. CASE line.read = "gap"
    BY <1>2 DEF Judge
  <1>3. CASE line.read = "over" /\ s.opened = Never
    <2>1. [s EXCEPT !.opened = line.at, !.crossing = 0, !.inside = 0] \in Scans
      BY <1>1 DEF Scans
    <2>2. [s EXCEPT !.crossing = @ + 1] \in Scans
      BY <1>1 DEF Scans
    <2> QED
      BY <1>3, <2>1, <2>2 DEF Judge
  <1>4. CASE line.read = "in" /\ s.opened = Never
    <2>1. [s EXCEPT !.crossing = 0] \in Scans
      BY <1>1 DEF Scans
    <2> QED
      BY <1>4, <2>1 DEF Judge
  <1>5. CASE line.read = "over" /\ s.opened # Never
    <2>1. [s EXCEPT !.inside = 0] \in Scans
      BY <1>1 DEF Scans
    <2> QED
      BY <1>5, <2>1 DEF Judge
  <1>6. CASE line.read = "in" /\ s.opened # Never
    <2>1. s.windows \cup {<<s.opened, line.at>>} \in SUBSET (Nat \X Nat)
      BY <1>1, <1>6
    <2>2. Exit(s, line.at) \in Scans
      BY <1>1, <2>1 DEF Exit, Scans
    <2>3. [s EXCEPT !.inside = @ + 1] \in Scans
      BY <1>1 DEF Scans
    <2> QED
      BY <1>6, <2>2, <2>3 DEF Judge
  <1> QED
    BY <1>2, <1>3, <1>4, <1>5, <1>6 DEF SidecarLines

LEMMA ScanStarts == ScanOf(<<>>) = Closed
  <1> DEFINE Solves(h) == h = [i \in 0 .. 0 |-> IF i = 0 THEN Closed ELSE Judge(h[i - 1], <<>>[i])]
             after == CHOOSE h : Solves(h)
  <1>1. Solves([i \in 0 .. 0 |-> Closed])
    OBVIOUS
  <1>2. Solves(after)
    <2> HIDE DEF Solves
    <2> QED
      BY <1>1
  <1>3. after[0] = Closed
    <2> HIDE DEF after
    <2> QED
      BY <1>2
  <1>4. ScanOf(<<>>) = after[0]
    BY DEF ScanOf
  <1> QED
    BY <1>3, <1>4

LEMMA ScanFolds ==
  ASSUME NEW q \in Seq(SidecarLines)
  PROVE  \E h \in [0 .. Len(q) -> Scans] :
           /\ Folds(h, Closed, [c \in Scans \X SidecarLines |-> Judge(c[1], c[2])], q, Len(q))
           /\ ScanOf(q) = h[Len(q)]
  <1> DEFINE F == [c \in Scans \X SidecarLines |-> Judge(c[1], c[2])]
             N == Len(q)
             Solves(h) == h = [i \in 0 .. N |-> IF i = 0 THEN Closed ELSE Judge(h[i - 1], q[i])]
             after == CHOOSE h : Solves(h)
  <1>1. F \in [Scans \X SidecarLines -> Scans] /\ Closed \in Scans
    BY JudgeTypes DEF Closed, Scans
  <1>2. PICK h \in [0 .. N -> Scans] : Folds(h, Closed, F, q, N)
    <2> HIDE DEF F
    <2> QED
      BY <1>1, FoldExists
  <1>3. N \in Nat /\ \A i \in 1 .. N : q[i] \in SidecarLines
    OBVIOUS
  <1>4. \A i \in 1 .. N : h[i - 1] \in Scans /\ h[i] = Judge(h[i - 1], q[i])
    <2>1. ASSUME NEW i \in 1 .. N PROVE h[i - 1] \in Scans /\ h[i] = Judge(h[i - 1], q[i])
      <3>1. i - 1 \in 0 .. N /\ h[i - 1] \in Scans /\ q[i] \in SidecarLines
        BY <1>3
      <3>2. h[i] = F[<<h[i - 1], q[i]>>]
        BY <1>2 DEF Folds
      <3> QED
        BY <3>1, <3>2
    <2> QED
      BY <2>1
  <1>5. Solves(h)
    <2>1. h[0] = Closed
      BY <1>2 DEF Folds
    <2>2. \A i \in 0 .. N : h[i] = IF i = 0 THEN Closed ELSE Judge(h[i - 1], q[i])
      BY <1>3, <1>4, <2>1
    <2> QED
      BY <2>2
  <1>6. Solves(after)
    <2> HIDE DEF Solves
    <2> QED
      BY <1>5
  <1>7. ScanOf(q) = after[N]
    BY DEF ScanOf
  <1> HIDE DEF after
  <1>8. /\ after[0] = Closed
        /\ \A i \in 1 .. N : after[i] = Judge(after[i - 1], q[i])
    BY <1>3, <1>6
  <1> DEFINE A == {i \in Nat : i <= N => after[i] = h[i]}
  <1>9. 0 \in A
    BY <1>2, <1>8 DEF Folds
  <1>10. ASSUME NEW i \in A PROVE i + 1 \in A
    <2>1. i \in Nat /\ (i <= N => after[i] = h[i])
      OBVIOUS
    <2>2. ASSUME i + 1 <= N PROVE after[i + 1] = h[i + 1]
      <3>1. i + 1 \in 1 .. N /\ (i + 1) - 1 = i /\ after[i] = h[i]
        BY <1>3, <2>1, <2>2
      <3> QED
        BY <3>1, <1>4, <1>8
    <2> QED
      BY <2>1, <2>2
  <1>11. A = Nat
    <2> HIDE DEF A
    <2> QED
      BY <1>9, <1>10, Inductive DEF A
  <1>12. ScanOf(q) = h[N]
    BY <1>3, <1>7, <1>11
  <1> QED
    BY <1>2, <1>12

LEMMA ScanSteps ==
  ASSUME NEW q \in Seq(SidecarLines), NEW line \in SidecarLines
  PROVE  /\ ScanOf(q) \in Scans
         /\ ScanOf(Append(q, line)) = Judge(ScanOf(q), line)
  <1> DEFINE F == [c \in Scans \X SidecarLines |-> Judge(c[1], c[2])]
             N == Len(q)
             more == Append(q, line)
  <1>1. N \in Nat /\ more \in Seq(SidecarLines) /\ Len(more) = N + 1 /\ more[N + 1] = line
    OBVIOUS
  <1>2. \A i \in 1 .. N : more[i] = q[i]
    OBVIOUS
  <1> HIDE DEF more
  <1>3. PICK f \in [0 .. N -> Scans] : Folds(f, Closed, F, q, N) /\ ScanOf(q) = f[N]
    BY ScanFolds
  <1>4. PICK g \in [0 .. N + 1 -> Scans] : Folds(g, Closed, F, more, N + 1) /\ ScanOf(more) = g[N + 1]
    BY <1>1, ScanFolds
  <1>5. g[N] = f[N]
    <2> HIDE DEF F, N
    <2> QED
      BY <1>1, <1>2, <1>3, <1>4, FoldsAgree
  <1>6. g[N + 1] = F[<<g[N], line>>]
    <2> HIDE DEF F
    <2>1. N + 1 \in 1 .. N + 1 /\ (N + 1) - 1 = N
      BY <1>1
    <2> QED
      BY <1>1, <1>4, <2>1 DEF Folds
  <1>7. f[N] \in Scans
    BY <1>1, <1>3
  <1>8. F[<<f[N], line>>] = Judge(f[N], line)
    BY <1>7
  <1> HIDE DEF F
  <1> QED
    BY <1>3, <1>4, <1>5, <1>6, <1>7, <1>8 DEF more

SampleLines == [at : Nat, read : {"over", "in"}]
SampleSeqs == Seq(SampleLines)

LEMMA CollectTypes ==
  ASSUME NEW s \in SampleSeqs, NEW line \in SidecarLines
  PROVE  Collect(s, line) \in SampleSeqs
  <1>1. CASE line.read = "gap"
    BY <1>1 DEF Collect
  <1>2. CASE line.read # "gap"
    <2>1. line \in SampleLines
      BY <1>2 DEF SampleLines, SidecarLines
    <2> QED
      BY <1>2, <2>1 DEF Collect, SampleSeqs
  <1> QED
    BY <1>1, <1>2

LEMMA EmptySamples == <<>> \in SampleSeqs
  BY DEF SampleSeqs

LEMMA SamplesStart == SamplesOf(<<>>) = <<>>
  <1> DEFINE Solves(h) == h = [i \in 0 .. 0 |-> IF i = 0 THEN <<>> ELSE Collect(h[i - 1], <<>>[i])]
             after == CHOOSE h : Solves(h)
  <1>1. Solves([i \in 0 .. 0 |-> <<>>])
    OBVIOUS
  <1>2. Solves(after)
    <2> HIDE DEF Solves
    <2> QED
      BY <1>1
  <1>3. after[0] = <<>>
    <2> HIDE DEF after
    <2> QED
      BY <1>2
  <1>4. SamplesOf(<<>>) = after[0]
    BY DEF SamplesOf
  <1> QED
    BY <1>3, <1>4

LEMMA SampleFolds ==
  ASSUME NEW q \in Seq(SidecarLines)
  PROVE  \E h \in [0 .. Len(q) -> SampleSeqs] :
           /\ Folds(h, <<>>, [c \in SampleSeqs \X SidecarLines |-> Collect(c[1], c[2])], q, Len(q))
           /\ SamplesOf(q) = h[Len(q)]
  <1> DEFINE F == [c \in SampleSeqs \X SidecarLines |-> Collect(c[1], c[2])]
             N == Len(q)
             Solves(h) == h = [i \in 0 .. N |-> IF i = 0 THEN <<>> ELSE Collect(h[i - 1], q[i])]
             after == CHOOSE h : Solves(h)
  <1>1. F \in [SampleSeqs \X SidecarLines -> SampleSeqs] /\ <<>> \in SampleSeqs
    BY CollectTypes, EmptySamples
  <1>2. PICK h \in [0 .. N -> SampleSeqs] : Folds(h, <<>>, F, q, N)
    <2> HIDE DEF F
    <2> QED
      BY <1>1, FoldExists
  <1>3. N \in Nat /\ \A i \in 1 .. N : q[i] \in SidecarLines
    OBVIOUS
  <1>4. \A i \in 1 .. N : h[i - 1] \in SampleSeqs /\ h[i] = Collect(h[i - 1], q[i])
    <2>1. ASSUME NEW i \in 1 .. N PROVE h[i - 1] \in SampleSeqs /\ h[i] = Collect(h[i - 1], q[i])
      <3>1. i - 1 \in 0 .. N /\ h[i - 1] \in SampleSeqs /\ q[i] \in SidecarLines
        BY <1>3
      <3>2. h[i] = F[<<h[i - 1], q[i]>>]
        BY <1>2 DEF Folds
      <3> QED
        BY <3>1, <3>2
    <2> QED
      BY <2>1
  <1>5. Solves(h)
    <2>1. h[0] = <<>>
      BY <1>2 DEF Folds
    <2>2. \A i \in 0 .. N : h[i] = IF i = 0 THEN <<>> ELSE Collect(h[i - 1], q[i])
      BY <1>3, <1>4, <2>1
    <2> QED
      BY <2>2
  <1>6. Solves(after)
    <2> HIDE DEF Solves
    <2> QED
      BY <1>5
  <1>7. SamplesOf(q) = after[N]
    BY DEF SamplesOf
  <1> HIDE DEF after
  <1>8. /\ after[0] = <<>>
        /\ \A i \in 1 .. N : after[i] = Collect(after[i - 1], q[i])
    BY <1>3, <1>6
  <1> DEFINE A == {i \in Nat : i <= N => after[i] = h[i]}
  <1>9. 0 \in A
    BY <1>2, <1>8 DEF Folds
  <1>10. ASSUME NEW i \in A PROVE i + 1 \in A
    <2>1. i \in Nat /\ (i <= N => after[i] = h[i])
      OBVIOUS
    <2>2. ASSUME i + 1 <= N PROVE after[i + 1] = h[i + 1]
      <3>1. i + 1 \in 1 .. N /\ (i + 1) - 1 = i /\ after[i] = h[i]
        BY <1>3, <2>1, <2>2
      <3> QED
        BY <3>1, <1>4, <1>8
    <2> QED
      BY <2>1, <2>2
  <1>11. A = Nat
    <2> HIDE DEF A
    <2> QED
      BY <1>9, <1>10, Inductive DEF A
  <1>12. SamplesOf(q) = h[N]
    BY <1>3, <1>7, <1>11
  <1> QED
    BY <1>2, <1>12

LEMMA SampleSteps ==
  ASSUME NEW q \in Seq(SidecarLines), NEW line \in SidecarLines
  PROVE  /\ SamplesOf(q) \in SampleSeqs
         /\ SamplesOf(Append(q, line)) = Collect(SamplesOf(q), line)
  <1> DEFINE F == [c \in SampleSeqs \X SidecarLines |-> Collect(c[1], c[2])]
             N == Len(q)
             more == Append(q, line)
  <1>1. N \in Nat /\ more \in Seq(SidecarLines) /\ Len(more) = N + 1 /\ more[N + 1] = line
    OBVIOUS
  <1>2. \A i \in 1 .. N : more[i] = q[i]
    OBVIOUS
  <1> HIDE DEF more
  <1>3. PICK f \in [0 .. N -> SampleSeqs] : Folds(f, <<>>, F, q, N) /\ SamplesOf(q) = f[N]
    BY SampleFolds
  <1>4. PICK g \in [0 .. N + 1 -> SampleSeqs] : Folds(g, <<>>, F, more, N + 1) /\ SamplesOf(more) = g[N + 1]
    BY <1>1, SampleFolds
  <1>5. g[N] = f[N]
    <2> HIDE DEF F, N
    <2> QED
      BY <1>1, <1>2, <1>3, <1>4, FoldsAgree
  <1>6. g[N + 1] = F[<<g[N], line>>]
    <2> HIDE DEF F
    <2>1. N + 1 \in 1 .. N + 1 /\ (N + 1) - 1 = N
      BY <1>1
    <2> QED
      BY <1>1, <1>4, <2>1 DEF Folds
  <1>7. f[N] \in SampleSeqs
    BY <1>1, <1>3
  <1>8. F[<<f[N], line>>] = Collect(f[N], line)
    BY <1>7
  <1> HIDE DEF F
  <1> QED
    BY <1>3, <1>4, <1>5, <1>6, <1>7, <1>8 DEF more

----
(* The counters of the scan tell what a sustained breach is. *)

\* What the scan's counters say of the samples so far.
Agrees(s, q) ==
  LET n == Len(q) IN
  /\ s.opened = Never =>
       /\ s.crossing < SustainK /\ s.crossing <= n
       /\ \A j \in n - s.crossing + 1 .. n : q[j].read = "over"
       /\ s.crossing = n \/ q[n - s.crossing].read = "in"
       /\ ~Breaching(q)
  /\ s.opened # Never =>
       /\ s.crossing = 0 /\ s.inside < SustainK /\ s.inside < n
       /\ \A j \in n - s.inside + 1 .. n : q[j].read = "in"
       /\ q[n - s.inside].read = "over"
       /\ Breaching(q)

LEMMA EmptyAgrees == Agrees(Closed, <<>>)
  BY ContentionAssumption DEF Agrees, Closed, Breaching

\* Runs that end before a sample do not depend on it.
LEMMA RunsStay ==
  ASSUME NEW q \in Seq(SampleLines), NEW line \in SampleLines
  PROVE  \A i \in 1 .. Len(q), read \in {"over", "in"} :
           RunOf(Append(q, line), read, i) <=> RunOf(q, read, i)
  <1>1. ASSUME NEW i \in 1 .. Len(q), i >= SustainK, NEW j \in i - SustainK + 1 .. i
        PROVE  Append(q, line)[j] = q[j]
    BY <1>1, ContentionAssumption
  <1> QED
    BY <1>1 DEF RunOf

LEMMA SampleAgrees ==
  ASSUME NEW s \in Scans, NEW q \in Seq(SampleLines), NEW line \in SampleLines, Agrees(s, q)
  PROVE  Agrees(Judge(s, line), Append(q, line))
  <1> DEFINE n == Len(q)
             more == Append(q, line)
             next == Judge(s, line)
  <1>1. /\ n \in Nat /\ SustainK \in Nat \ {0} /\ Len(more) = n + 1 /\ more[n + 1] = line
        /\ \A i \in 1 .. n : more[i] = q[i]
        /\ DOMAIN q = 1 .. n /\ DOMAIN more = 1 .. (n + 1)
    BY ContentionAssumption
  <1>2. /\ line.at \in Nat /\ line.at # Never /\ line.read \in {"over", "in"}
        /\ s.crossing \in Nat /\ s.inside \in Nat
        /\ s.opened = Never \/ s.opened \in Nat
    BY ContentionAssumption DEF SampleLines, Scans
  <1>3. \A i \in 1 .. n, read \in {"over", "in"} : RunOf(more, read, i) <=> RunOf(q, read, i)
    BY RunsStay
  <1>4. \A read \in {"over", "in"} :
          RunOf(more, read, n + 1) <=> /\ n + 1 >= SustainK /\ line.read = read
                                       /\ \A j \in n - SustainK + 2 .. n : q[j].read = read
    <2>1. ASSUME NEW read \in {"over", "in"}, n + 1 >= SustainK
          PROVE (\A j \in (n + 1) - SustainK + 1 .. n + 1 : more[j].read = read) <=>
                  line.read = read /\ \A j \in n - SustainK + 2 .. n : q[j].read = read
      <3>1. (n + 1) - SustainK + 1 .. n + 1 = (n - SustainK + 2 .. n) \cup {n + 1}
        BY <1>1, <2>1
      <3>2. \A j \in n - SustainK + 2 .. n : more[j] = q[j]
        BY <1>1, <2>1
      <3> HIDE DEF more, n
      <3> QED
        BY <1>1, <3>1, <3>2
    <2> HIDE DEF more, n
    <2> QED
      BY <1>1, <2>1 DEF RunOf
  <1> HIDE DEF more, n
  \* Whether a breach is on, from one sample to the next.
  <1>5. Breaching(more) <=>
          \/ RunOf(more, "over", n + 1)
          \/ \E i \in 1 .. n :
               /\ RunOf(q, "over", i)
               /\ ~ \E j \in i + SustainK .. n : RunOf(q, "in", j)
               /\ i + SustainK <= n + 1 => ~RunOf(more, "in", n + 1)
    <2>1. ASSUME NEW i \in 1 .. n
          PROVE  (\E j \in i + SustainK .. n + 1 : RunOf(more, "in", j)) <=>
                    \/ \E j \in i + SustainK .. n : RunOf(q, "in", j)
                    \/ i + SustainK <= n + 1 /\ RunOf(more, "in", n + 1)
      <3>1. \A j \in i + SustainK .. n : j \in 1 .. n
        BY <1>1
      <3>2. \A j \in i + SustainK .. n + 1 : j \in i + SustainK .. n \/ (j = n + 1 /\ i + SustainK <= n + 1)
        BY <1>1
      <3>3. i + SustainK <= n + 1 => n + 1 \in i + SustainK .. n + 1
        BY <1>1
      <3>4. \A j \in i + SustainK .. n : j \in i + SustainK .. n + 1
        BY <1>1
      <3> QED
        BY <1>3, <3>1, <3>2, <3>3, <3>4
    <2>2. (n + 1) + SustainK .. n + 1 = {}
      BY <1>1
    <2>3. Breaching(more) <=>
            \E i \in 1 .. (n + 1) : /\ RunOf(more, "over", i)
                                    /\ ~ \E j \in i + SustainK .. n + 1 : RunOf(more, "in", j)
      BY <1>1 DEF Breaching
    <2>4. \A i : i \in 1 .. (n + 1) <=> i \in 1 .. n \/ i = n + 1
      BY <1>1
    <2> QED
      BY <1>3, <2>1, <2>2, <2>3, <2>4
  <1>6. Breaching(q) <=>
          \E i \in 1 .. n : RunOf(q, "over", i) /\ ~ \E j \in i + SustainK .. n : RunOf(q, "in", j)
    BY <1>1 DEF Breaching, n
  <1>7. \A read \in {"over", "in"} : \A i \in 1 .. n :
          RunOf(q, read, i) => i >= SustainK /\ q[i].read = read
    BY <1>1 DEF RunOf
  <1>8. /\ s = [crossing |-> s.crossing, opened |-> s.opened, inside |-> s.inside,
                windows |-> s.windows]
        /\ SustainK > 0
    BY <1>1 DEF Scans
  \* A crossing while no window is open.
  <1>9. CASE s.opened = Never /\ line.read = "over"
    <2>1. /\ s.crossing < SustainK /\ s.crossing <= n
          /\ \A j \in n - s.crossing + 1 .. n : q[j].read = "over"
          /\ s.crossing = n \/ q[n - s.crossing].read = "in"
          /\ ~Breaching(q)
      BY <1>9 DEF Agrees, n
    <2>2. CASE s.crossing + 1 >= SustainK
      <3>1. next.opened = line.at /\ next.crossing = 0 /\ next.inside = 0
        BY <1>8, <1>9, <2>2 DEF Judge
      <3>2. RunOf(more, "over", n + 1)
        <4>1. n + 1 >= SustainK /\ \A j \in n - SustainK + 2 .. n : j \in n - s.crossing + 1 .. n
          BY <1>1, <1>2, <2>1, <2>2
        <4> QED
          BY <1>4, <1>9, <2>1, <4>1
      <3>3. Breaching(more)
        BY <1>5, <3>2
      <3>4. \A j \in (n + 1) - 0 + 1 .. n + 1 : FALSE
        BY <1>1
      <3> QED
        BY <1>1, <1>2, <1>8, <1>9, <3>1, <3>3, <3>4 DEF Agrees, more, next
    <2>3. CASE s.crossing + 1 < SustainK
      <3>1. next.opened = Never /\ next.crossing = s.crossing + 1
        <4>1. ~ (s.crossing + 1 >= SustainK)
          BY <1>1, <1>2, <2>3
        <4> QED
          BY <1>8, <1>9, <2>3, <4>1 DEF Judge
      <3>2. \A j \in (n + 1) - (s.crossing + 1) + 1 .. n + 1 : more[j].read = "over"
        <4>1. \A j \in (n + 1) - (s.crossing + 1) + 1 .. n + 1 :
                j = n + 1 \/ (j \in n - s.crossing + 1 .. n /\ j \in 1 .. n)
          BY <1>1, <1>2, <2>1
        <4> QED
          BY <1>1, <1>9, <2>1, <4>1
      <3>3. s.crossing + 1 = n + 1 \/ more[(n + 1) - (s.crossing + 1)].read = "in"
        <4>1. CASE s.crossing < n
          <5>1. (n + 1) - (s.crossing + 1) = n - s.crossing /\ n - s.crossing \in 1 .. n
            BY <1>1, <1>2, <4>1
          <5> QED
            BY <1>1, <2>1, <4>1, <5>1
        <4> QED
          BY <1>1, <1>2, <2>1, <4>1
      <3>4. ~RunOf(more, "over", n + 1)
        <4> SUFFICES ASSUME RunOf(more, "over", n + 1) PROVE FALSE
          OBVIOUS
        <4>1. n + 1 >= SustainK /\ \A j \in n - SustainK + 2 .. n : q[j].read = "over"
          BY <1>4
        <4>2. s.crossing # n /\ n - s.crossing \in n - SustainK + 2 .. n
          BY <1>1, <1>2, <2>1, <2>3, <4>1
        <4> QED
          BY <2>1, <4>1, <4>2
      <3>5. ~Breaching(more)
        BY <1>5, <1>6, <2>1, <3>4
      <3>6. s.crossing + 1 <= n + 1
        BY <1>1, <1>2, <2>1
      <3> QED
        BY <1>1, <2>3, <3>1, <3>2, <3>3, <3>5, <3>6 DEF Agrees, more, next
    <2> QED
      BY <1>1, <1>2, <2>2, <2>3
  \* A sample in bounds while no window is open.
  <1>10. CASE s.opened = Never /\ line.read = "in"
    <2>1. ~Breaching(q)
      BY <1>10 DEF Agrees
    <2>2. next.opened = Never /\ next.crossing = 0
      BY <1>8, <1>10 DEF Judge
    <2>3. ~RunOf(more, "over", n + 1)
      BY <1>4, <1>10
    <2>4. ~Breaching(more)
      BY <1>5, <1>6, <2>1, <2>3
    <2>5. /\ \A j \in (n + 1) - 0 + 1 .. n + 1 : FALSE
          /\ (n + 1) - 0 = n + 1 /\ 0 <= n + 1
      BY <1>1
    <2> QED
      BY <1>1, <1>8, <1>10, <2>2, <2>4, <2>5 DEF Agrees, more, next
  \* A crossing inside a window.
  <1>11. CASE s.opened # Never /\ line.read = "over"
    <2>1. s.crossing = 0 /\ Breaching(q)
      BY <1>11 DEF Agrees
    <2>2. next.opened = s.opened /\ next.crossing = 0 /\ next.inside = 0
      BY <1>8, <1>11, <2>1 DEF Judge
    <2>3. ~RunOf(more, "in", n + 1)
      BY <1>4, <1>11
    <2>4. Breaching(more)
      BY <1>5, <1>6, <2>1, <2>3
    <2>5. /\ \A j \in (n + 1) - 0 + 1 .. n + 1 : FALSE
          /\ (n + 1) - 0 = n + 1 /\ 0 < n + 1
      BY <1>1
    <2> QED
      BY <1>1, <1>8, <1>11, <2>2, <2>4, <2>5 DEF Agrees, more, next
  \* A sample in bounds inside a window.
  <1>12. CASE s.opened # Never /\ line.read = "in"
    <2>1. /\ s.crossing = 0 /\ s.inside < SustainK /\ s.inside < n
          /\ \A j \in n - s.inside + 1 .. n : q[j].read = "in"
          /\ q[n - s.inside].read = "over"
          /\ Breaching(q)
      BY <1>12 DEF Agrees, n
    <2>2. CASE s.inside + 1 < SustainK
      <3>1. next.opened = s.opened /\ next.crossing = 0 /\ next.inside = s.inside + 1
        <4>1. ~ (s.inside + 1 >= SustainK)
          BY <1>1, <1>2, <2>2
        <4> QED
          BY <1>8, <1>12, <2>1, <2>2, <4>1 DEF Judge
      <3>2. \A j \in (n + 1) - (s.inside + 1) + 1 .. n + 1 : more[j].read = "in"
        <4>1. \A j \in (n + 1) - (s.inside + 1) + 1 .. n + 1 :
                j = n + 1 \/ (j \in n - s.inside + 1 .. n /\ j \in 1 .. n)
          BY <1>1, <1>2, <2>1
        <4> QED
          BY <1>1, <1>12, <2>1, <4>1
      <3>3. n - s.inside \in 1 .. n /\ (n + 1) - (s.inside + 1) = n - s.inside
        BY <1>1, <1>2, <2>1
      <3>4. more[(n + 1) - (s.inside + 1)].read = "over"
        BY <1>1, <2>1, <3>3
      <3>5. ~RunOf(more, "in", n + 1)
        <4>1. n - s.inside \in n - SustainK + 2 .. n
          BY <1>1, <1>2, <2>1, <2>2
        <4> QED
          BY <1>4, <2>1, <4>1
      <3>6. Breaching(more)
        BY <1>5, <1>6, <2>1, <3>5
      <3>7. s.inside + 1 < n + 1
        BY <1>1, <1>2, <2>1
      <3> QED
        BY <1>1, <1>12, <2>2, <3>1, <3>2, <3>4, <3>6, <3>7 DEF Agrees, more, next
    <2>3. CASE s.inside + 1 >= SustainK
      <3>1. next.opened = Never /\ next.crossing = 0
        BY <1>8, <1>12, <2>1, <2>3 DEF Judge, Exit
      <3>2. RunOf(more, "in", n + 1)
        <4>1. n + 1 >= SustainK /\ \A j \in n - SustainK + 2 .. n : j \in n - s.inside + 1 .. n
          BY <1>1, <1>2, <2>1, <2>3
        <4> QED
          BY <1>4, <1>12, <2>1, <4>1
      <3>3. ASSUME NEW i \in 1 .. n, RunOf(q, "over", i) PROVE i + SustainK <= n + 1
        <4>1. q[i].read = "over"
          BY <1>7, <3>3
        <4>2. ~ (i \in n - s.inside + 1 .. n)
          BY <2>1, <4>1
        <4> QED
          BY <1>1, <1>2, <2>1, <2>3, <4>2
      <3>4. ~Breaching(more)
        BY <1>4, <1>5, <1>12, <3>2, <3>3
      <3>5. /\ \A j \in (n + 1) - 0 + 1 .. n + 1 : FALSE
            /\ (n + 1) - 0 = n + 1 /\ 0 <= n + 1
        BY <1>1
      <3> QED
        BY <1>1, <1>8, <1>12, <3>1, <3>4, <3>5 DEF Agrees, more, next
    <2> QED
      BY <1>1, <1>2, <2>2, <2>3
  <1> QED
    BY <1>2, <1>9, <1>10, <1>11, <1>12

----
(* The audit of a past interval, told from the lines alone. *)

LEMMA EarliestIs ==
  ASSUME NEW S \in SUBSET Nat, S # {}
  PROVE  Earliest(S) \in S /\ \A y \in S : Earliest(S) <= y
  BY LeastExists DEF Earliest

LEMMA LatestIs ==
  ASSUME NEW S \in SUBSET Nat, S # {}, NEW m \in Nat, \A y \in S : y <= m
  PROVE  Latest(S) \in S /\ \A y \in S : y <= Latest(S)
  BY GreatestIs DEF Greatest, Latest

TelemetryTypes ==
  /\ clock \in Nat /\ due \in Nat /\ due <= clock + 1
  /\ lines \in Seq(SidecarLines)
  /\ \A i \in DOMAIN lines : lines[i].at < due /\ lines[i].at <= clock
  /\ torn \in BOOLEAN /\ halted \in BOOLEAN /\ breach \in BOOLEAN
  /\ crossed \in Nat /\ within \in Nat /\ open \in Nat \cup {Never}

LEMMA LinesAre ==
  ASSUME TelemetryTypes
  PROVE  /\ DOMAIN lines = 1 .. Len(lines) /\ Len(lines) \in Nat
         /\ \A i \in DOMAIN lines : /\ lines[i] \in SidecarLines /\ lines[i].at \in Nat
                                   /\ lines[i].at < due /\ lines[i].at <= clock
  <1>1. DOMAIN lines = 1 .. Len(lines) /\ Len(lines) \in Nat
    BY DEF TelemetryTypes
  <1>2. \A i \in DOMAIN lines : lines[i] \in SidecarLines
    BY DEF TelemetryTypes
  <1>3. \A l \in SidecarLines : l.at \in Nat
    BY DEF SidecarLines
  <1> QED
    BY <1>1, <1>2, <1>3 DEF TelemetryTypes

LEMMA RealIs ==
  ASSUME TelemetryTypes
  PROVE  /\ Real \in SUBSET Nat
         /\ \A x \in Real : x < due /\ x <= clock
  BY LinesAre DEF Real

LEMMA NewestIs ==
  ASSUME TelemetryTypes
  PROVE  /\ Newest \in Nat /\ Newest <= clock
         /\ \A x \in Real : x <= Newest
  <1>1. Real \in SUBSET Nat /\ (\A x \in Real : x <= clock) /\ clock \in Nat
    BY RealIs DEF TelemetryTypes
  <1>2. {0} \cup Real \in SUBSET Nat /\ \A x \in {0} \cup Real : x <= clock
    BY <1>1
  <1> HIDE DEF Real
  <1> QED
    BY <1>1, <1>2, LatestIs DEF Newest

\* A sample lies after the interval.
Past(from, until) == from <= until /\ \E x \in Real : until < x

\* What makes it invalid, by the scan alone; and unknown, by the lines alone.
Overlapped(s, from, until) ==
  \/ \E w \in s.windows : Overlaps(w, from, until)
  \/ s.opened # Never /\ s.opened <= until
Wide(from, until) ==
  \E a, b \in {0} \cup Real :
    /\ b > a + CoverageN
    /\ \A p \in {0} \cup Real : p <= a \/ b <= p
    /\ a <= until /\ from <= b
BlindAt(found, at, from, until) ==
  \A x \in found : (x < at => x <= until) /\ (at <= x => from <= x)
Blind(from, until) ==
  \E i \in DOMAIN lines : lines[i].read = "gap" /\ BlindAt(Real, lines[i].at, from, until)
Finally(from, until) ==
  IF Overlapped(Scanned, from, until) THEN "invalid"
  ELSE IF Wide(from, until) \/ Blind(from, until) THEN "unknown"
  ELSE "clean"

LEMMA WindowsPast ==
  ASSUME TelemetryTypes, NEW from \in Nat, NEW until \in Nat, Past(from, until)
  PROVE  (\E w \in BreachWindows : Overlaps(w, from, until)) <=> Overlapped(Scanned, from, until)
  <1>1. Newest \in Nat /\ from <= Newest
    <2>1. PICK x \in Real : until < x
      BY DEF Past
    <2>2. x \in Nat /\ x <= Newest /\ Newest \in Nat
      BY NewestIs, RealIs
    <2> QED
      BY <2>1, <2>2 DEF Past
  <1>2. Overlaps(<<Scanned.opened, Newest>>, from, until) <=> Scanned.opened <= until
    BY <1>1 DEF Overlaps
  <1> QED
    BY <1>2 DEF BreachWindows, Overlapped

LEMMA SpacingsPast ==
  ASSUME TelemetryTypes, NEW from \in Nat, NEW until \in Nat, Past(from, until)
  PROVE  (\E w \in Spacings : Overlaps(w, from, until)) <=> Wide(from, until)
  <1>1. PICK x \in Real : until < x
    BY DEF Past
  <1>2. Real \in SUBSET Nat /\ clock \in Nat /\ \A y \in Real : y <= clock
    BY RealIs DEF TelemetryTypes
  <1> DEFINE some == {0} \cup Real
             points == {0, clock} \cup Real
  <1>3. \A w : w \in Spacings <=>
          w \in points \X points /\ w[2] > w[1] + CoverageN /\ \A p \in points : p <= w[1] \/ w[2] <= p
    BY <1>1 DEF Spacings
  <1>4. ASSUME NEW w \in Spacings, Overlaps(w, from, until) PROVE Wide(from, until)
    <2>1. /\ w \in points \X points /\ w[2] > w[1] + CoverageN
          /\ \A p \in points : p <= w[1] \/ w[2] <= p
          /\ from <= w[2] /\ w[1] <= until
      BY <1>3, <1>4 DEF Overlaps
    <2>2. w[1] \in points /\ w[2] \in points /\ points \in SUBSET Nat
      BY <1>2, <2>1
    <2>3. w[1] < x /\ x <= clock /\ x \in Nat /\ w[1] \in Nat
      <3>1. w[1] \in Nat /\ w[1] <= until /\ x \in Nat /\ x <= clock
        BY <1>1, <1>2, <2>1, <2>2
      <3> HIDE DEF points
      <3> QED
        BY <1>1, <1>2, <3>1
    <2>4. w[1] \in some
      BY <1>2, <2>2, <2>3
    <2>5. w[2] <= x
      BY <1>1, <2>1, <2>2, <2>3
    <2>6. w[2] \in some
      BY <1>1, <1>2, <2>2, <2>3, <2>5
    <2> QED
      BY <2>1, <2>4, <2>6 DEF Wide
  <1>5. ASSUME Wide(from, until) PROVE \E w \in Spacings : Overlaps(w, from, until)
    <2>1. PICK a \in some, b \in some :
            /\ b > a + CoverageN /\ \A p \in some : p <= a \/ b <= p
            /\ a <= until /\ from <= b
      BY <1>5 DEF Wide
    <2>2. b <= clock
      BY <1>2
    <2>3. <<a, b>> \in Spacings
      BY <1>3, <2>1, <2>2
    <2> QED
      BY <2>1, <2>3 DEF Overlaps
  <1> QED
    BY <1>4, <1>5

LEMMA BlindPast ==
  ASSUME TelemetryTypes, NEW from \in Nat, NEW until \in Nat, Past(from, until), NEW at \in Nat
  PROVE  Overlaps(BlindAround(at), from, until) <=> BlindAt(Real, at, from, until)
  <1>1. PICK x \in Real : until < x
    BY DEF Past
  <1>2. /\ Real \in SUBSET Nat /\ clock \in Nat /\ \A y \in Real : y <= clock
        /\ from <= until
    BY RealIs DEF TelemetryTypes, Past
  <1> DEFINE before == {0} \cup {y \in Real : y < at}
             after == {clock} \cup {y \in Real : y >= at}
  <1>3. Latest(before) \in before /\ \A y \in before : y <= Latest(before)
    <2>1. before \in SUBSET Nat /\ before # {} /\ \A y \in before : y <= clock
      <3>1. 0 <= clock /\ 0 \in Nat
        BY <1>2
      <3>2. \A y \in before : y = 0 \/ y \in Real
        OBVIOUS
      <3>3. 0 \in before
        OBVIOUS
      <3> HIDE DEF before
      <3> QED
        BY <1>2, <3>1, <3>2, <3>3
    <2> HIDE DEF before
    <2> QED
      BY <1>2, <2>1, LatestIs
  <1>4. Earliest(after) \in after /\ \A y \in after : Earliest(after) <= y
    <2>1. after \in SUBSET Nat /\ after # {}
      BY <1>2
    <2> HIDE DEF after
    <2> QED
      BY <2>1, EarliestIs
  <1>5. Overlaps(BlindAround(at), from, until) <=> Latest(before) <= until /\ from <= Earliest(after)
    BY DEF Overlaps, BlindAround
  <1>6. (Latest(before) <= until) <=> \A y \in Real : y < at => y <= until
    <2>1. Latest(before) \in Nat /\ \A y \in Real : y < at => y <= Latest(before) /\ y \in Nat
      <3>1. \A y \in Real : y \in Nat /\ (y < at => y \in before)
        BY <1>2
      <3>2. \A y \in before : y \in Nat
        BY <1>2
      <3> HIDE DEF before
      <3> QED
        BY <1>3, <3>1, <3>2
    <2>2. Latest(before) = 0 \/ (Latest(before) \in Real /\ Latest(before) < at)
      BY <1>3
    <2> HIDE DEF before
    <2> QED
      BY <2>1, <2>2
  <1>7. (from <= Earliest(after)) <=> \A y \in Real : at <= y => from <= y
    <2>1. from <= clock
      <3>1. x \in Nat /\ x <= clock
        BY <1>1, <1>2
      <3> QED
        BY <1>1, <1>2, <3>1
    <2>2. Earliest(after) \in Nat /\ \A y \in Real : at <= y => Earliest(after) <= y /\ y \in Nat
      BY <1>2, <1>4
    <2>3. Earliest(after) = clock \/ (Earliest(after) \in Real /\ at <= Earliest(after))
      BY <1>4
    <2> HIDE DEF after
    <2> QED
      BY <2>1, <2>2, <2>3
  <1> QED
    BY <1>5, <1>6, <1>7 DEF BlindAt

LEMMA VerdictPast ==
  ASSUME TelemetryTypes, NEW from \in Nat, NEW until \in Nat, Past(from, until)
  PROVE  Verdict(from, until) = Finally(from, until)
  <1>1. \A i \in DOMAIN lines : lines[i].at \in Nat
    BY LinesAre
  <1>2. (\E u \in {BlindAround(lines[i].at) : i \in {j \in DOMAIN lines : lines[j].read = "gap"}} :
           Overlaps(u, from, until)) <=> Blind(from, until)
    BY <1>1, BlindPast DEF Blind
  <1>3. ~Overlaps(<<Newest, clock>>, from, until)
    <2>1. PICK x \in Real : until < x
      BY DEF Past
    <2>2. x \in Nat /\ x <= Newest /\ Newest \in Nat
      BY NewestIs, RealIs
    <2> QED
      BY <2>1, <2>2 DEF Overlaps
  <1>4. (\E u \in Uncovered : Overlaps(u, from, until)) <=> Wide(from, until) \/ Blind(from, until)
    BY <1>2, <1>3, SpacingsPast DEF Uncovered
  <1> QED
    BY <1>4, WindowsPast DEF Verdict, Finally

LEMMA VerdictTold ==
  TelemetryTypes =>
    \A from, until \in Nat : Past(from, until) => Verdict(from, until) = Finally(from, until)
  BY VerdictPast

LEMMA VerdictToldNext ==
  TelemetryTypes' =>
    \A from, until \in Nat :
      Past(from, until)' => Verdict(from, until)' = Finally(from, until)'
  <1>1. (TelemetryTypes =>
           \A from, until \in Nat : Past(from, until) => Verdict(from, until) = Finally(from, until))'
    BY VerdictTold, PTL
  <1> QED
    BY <1>1

\* What the sampler does with the sidecar: nothing, or a line at the instant it is due.
Written ==
  \/ UNCHANGED lines
  \/ /\ clock' = clock /\ clock >= due
     /\ \E line \in SidecarLines : line.at = clock /\ lines' = Append(lines, line)

LEMMA ScannedIs ==
  ASSUME TelemetryTypes
  PROVE  Scanned \in Scans
  <1>1. lines \in Seq(SidecarLines) /\ [at |-> 0, read |-> "gap"] \in SidecarLines
    BY DEF TelemetryTypes, SidecarLines
  <1> QED
    BY <1>1, ScanSteps DEF Scanned

LEMMA RealGrows ==
  ASSUME TelemetryTypes, NEW line \in SidecarLines, lines' = Append(lines, line)
  PROVE  /\ Real' = Real \cup (IF line.read = "gap" THEN {} ELSE {line.at})
         /\ DOMAIN lines' = DOMAIN lines \cup {Len(lines) + 1}
         /\ lines'[Len(lines) + 1] = line
         /\ \A i \in DOMAIN lines : lines'[i] = lines[i]
  <1>1. Len(lines) \in Nat /\ DOMAIN lines = 1 .. Len(lines)
    BY LinesAre
  <1>2. /\ DOMAIN lines' = DOMAIN lines \cup {Len(lines) + 1}
        /\ lines'[Len(lines) + 1] = line
        /\ \A i \in DOMAIN lines : lines'[i] = lines[i]
    <2>1. lines \in Seq(SidecarLines)
      BY DEF TelemetryTypes
    <2>2. DOMAIN lines' = 1 .. (Len(lines) + 1)
      BY <2>1
    <2>3. 1 .. (Len(lines) + 1) = (1 .. Len(lines)) \cup {Len(lines) + 1}
      BY <1>1
    <2> QED
      BY <1>1, <2>1, <2>2, <2>3
  <1>3. Len(lines) + 1 \notin DOMAIN lines
    BY <1>1
  <1> QED
    BY <1>2, <1>3 DEF Real

\* A line after the interval opens no window that overlaps it and closes none that
\* did not.
LEMMA JudgedPast ==
  ASSUME NEW s \in Scans, NEW line \in SidecarLines, NEW from \in Nat, NEW until \in Nat,
         from <= until, until < line.at
  PROVE  Overlapped(Judge(s, line), from, until) <=> Overlapped(s, from, until)
  <1>1. /\ line.at \in Nat /\ line.at # Never /\ line.read \in {"over", "in", "gap"}
        /\ s.crossing \in Nat /\ s.inside \in Nat
        /\ s.opened = Never \/ s.opened \in Nat
        /\ s = [crossing |-> s.crossing, opened |-> s.opened, inside |-> s.inside,
                windows |-> s.windows]
    BY ContentionAssumption DEF SidecarLines, Scans
  <1>2. CASE line.read = "gap"
    BY <1>2 DEF Judge
  <1>3. ASSUME NEW r, r.windows = s.windows, r.opened = s.opened
        PROVE  Overlapped(r, from, until) <=> Overlapped(s, from, until)
    BY <1>3 DEF Overlapped
  <1>4. CASE line.read = "over" /\ s.opened = Never
    <2>1. CASE s.crossing + 1 >= SustainK
      <3>1. Judge(s, line).windows = s.windows /\ Judge(s, line).opened = line.at
        BY <1>1, <1>4, <2>1 DEF Judge
      <3> QED
        BY <1>1, <1>4, <3>1 DEF Overlapped
    <2>2. CASE ~ (s.crossing + 1 >= SustainK)
      <3>1. Judge(s, line).windows = s.windows /\ Judge(s, line).opened = s.opened
        BY <1>1, <1>4, <2>2 DEF Judge
      <3> QED
        BY <1>3, <3>1
    <2> QED
      BY <2>1, <2>2
  <1>5. CASE line.read = "in" /\ s.opened = Never
    <2>1. Judge(s, line).windows = s.windows /\ Judge(s, line).opened = s.opened
      BY <1>1, <1>5 DEF Judge
    <2> QED
      BY <1>3, <2>1
  <1>6. CASE line.read = "over" /\ s.opened # Never
    <2>1. Judge(s, line).windows = s.windows /\ Judge(s, line).opened = s.opened
      BY <1>1, <1>6 DEF Judge
    <2> QED
      BY <1>3, <2>1
  <1>7. CASE line.read = "in" /\ s.opened # Never
    <2>1. CASE s.inside + 1 >= SustainK
      <3>1. /\ Judge(s, line).windows = s.windows \cup {<<s.opened, line.at>>}
            /\ Judge(s, line).opened = Never
        BY <1>1, <1>7, <2>1 DEF Judge, Exit
      <3>2. Overlaps(<<s.opened, line.at>>, from, until) <=> s.opened <= until
        BY <1>1 DEF Overlaps
      <3> QED
        BY <1>7, <3>1, <3>2 DEF Overlapped
    <2>2. CASE ~ (s.inside + 1 >= SustainK)
      <3>1. Judge(s, line).windows = s.windows /\ Judge(s, line).opened = s.opened
        BY <1>1, <1>7, <2>2 DEF Judge
      <3> QED
        BY <1>3, <3>1
    <2> QED
      BY <2>1, <2>2
  <1> QED
    BY <1>1, <1>2, <1>4, <1>5, <1>6, <1>7

LEMMA PastStays ==
  ASSUME TelemetryTypes, TelemetryTypes', Written,
         NEW from \in Nat, NEW until \in Nat, Past(from, until)
  PROVE  Past(from, until)' /\ Finally(from, until)' = Finally(from, until)
  <1>1. CASE UNCHANGED lines
    <2>1. Real' = Real
      BY <1>1 DEF Real
    <2> QED
      BY <1>1, <2>1 DEF Past, Finally, Overlapped, Wide, Blind, BlindAt, Scanned, Overlaps
  <1>2. CASE \E line \in SidecarLines : line.at = clock /\ lines' = Append(lines, line) /\ clock >= due
    <2>1. PICK line \in SidecarLines : line.at = clock /\ lines' = Append(lines, line) /\ clock >= due
      BY <1>2
    <2>2. PICK x \in Real : until < x
      BY DEF Past
    <2>3. /\ Real \in SUBSET Nat /\ clock \in Nat /\ \A y \in Real : y < clock
          /\ from <= until
      <3>1. due \in Nat /\ clock \in Nat /\ clock >= due
        BY <2>1 DEF TelemetryTypes
      <3> QED
        BY <3>1, RealIs DEF Past
    <2>4. /\ Real' = Real \cup (IF line.read = "gap" THEN {} ELSE {clock})
          /\ DOMAIN lines' = DOMAIN lines \cup {Len(lines) + 1}
          /\ lines'[Len(lines) + 1] = line
          /\ \A i \in DOMAIN lines : lines'[i] = lines[i]
      BY <2>1, RealGrows
    <2>5. x \in Nat /\ x < clock /\ until < clock /\ from <= clock
      BY <2>2, <2>3
    <2>6. Past(from, until)'
      BY <2>2, <2>3, <2>4 DEF Past
    <2>7. Overlapped(Scanned, from, until)' <=> Overlapped(Scanned, from, until)
      <3>1. Scanned \in Scans /\ Scanned' = Judge(Scanned, line)
        <4>1. lines \in Seq(SidecarLines)
          BY DEF TelemetryTypes
        <4> QED
          BY <2>1, <4>1, ScanSteps DEF Scanned
      <3>2. Overlapped(Scanned', from, until) <=> Overlapped(Scanned, from, until)
        BY <2>1, <2>3, <2>5, <3>1, JudgedPast
      <3> QED
        BY <3>2 DEF Overlapped, Overlaps
    <2>8. Wide(from, until)' <=> Wide(from, until)
      <3>1. ASSUME Wide(from, until) PROVE Wide(from, until)'
        <4>1. PICK a \in {0} \cup Real, b \in {0} \cup Real :
                /\ b > a + CoverageN /\ \A p \in {0} \cup Real : p <= a \/ b <= p
                /\ a <= until /\ from <= b
          BY <3>1 DEF Wide
        <4>2. b <= clock
          BY <2>3, <4>1
        <4>3. \A p \in {0} \cup Real' : p <= a \/ b <= p
          BY <2>4, <4>1, <4>2
        <4>4. a \in {0} \cup Real' /\ b \in {0} \cup Real'
          BY <2>4, <4>1
        <4> QED
          BY <4>1, <4>3, <4>4 DEF Wide
      <3>2. ASSUME Wide(from, until)' PROVE Wide(from, until)
        <4>1. PICK a \in {0} \cup Real', b \in {0} \cup Real' :
                /\ b > a + CoverageN /\ \A p \in {0} \cup Real' : p <= a \/ b <= p
                /\ a <= until /\ from <= b
          BY <3>2 DEF Wide
        <4>2. a \in Nat /\ b \in Nat
          BY <2>3, <2>4, <4>1
        <4>3. b <= x
          BY <2>2, <2>4, <2>5, <4>1, <4>2
        <4>4. a \in {0} \cup Real /\ b \in {0} \cup Real
          BY <2>4, <2>5, <4>1, <4>2, <4>3
        <4>5. \A p \in {0} \cup Real : p <= a \/ b <= p
          BY <2>4, <4>1
        <4> QED
          BY <4>1, <4>4, <4>5 DEF Wide
      <3> QED
        BY <3>1, <3>2
    <2>9. Blind(from, until)' <=> Blind(from, until)
      <3>1. \A i \in DOMAIN lines : lines[i].at \in Nat /\ lines[i].at < clock
        <4>1. due \in Nat /\ clock \in Nat /\ clock >= due
          BY <2>1 DEF TelemetryTypes
        <4> QED
          BY <4>1, LinesAre
      <3>2. ASSUME NEW at \in Nat, at < clock 
            PROVE  BlindAt(Real', at, from, until) <=> BlindAt(Real, at, from, until)
        BY <2>3, <2>4, <2>5, <3>2 DEF BlindAt
      <3>3. ~BlindAt(Real', clock, from, until)
        BY <2>2, <2>4, <2>5 DEF BlindAt
      <3>4. Blind(from, until)' <=>
              \E i \in DOMAIN lines' :
                lines'[i].read = "gap" /\ BlindAt(Real', lines'[i].at, from, until)
        BY DEF Blind, BlindAt
      <3> QED
        BY <2>1, <2>4, <3>1, <3>2, <3>3, <3>4 DEF Blind
    <2> QED
      BY <2>6, <2>7, <2>8, <2>9 DEF Finally
  <1> QED
    BY <1>1, <1>2 DEF Written

----
(* The breach that is known to all. *)

Tracked ==
  /\ ~halted => ~torn
  /\ Agrees(Scanned, SamplesOf(lines))
  /\ ~halted => /\ breach = (open # Never) /\ open = Scanned.opened
                /\ open = Never => crossed = Scanned.crossing
                /\ open # Never => within = Scanned.inside

LEMMA AgreesOn ==
  ASSUME TelemetryTypes, Agrees(Scanned, SamplesOf(lines)), NEW line \in SidecarLines,
         lines' = Append(lines, line)
  PROVE  /\ Scanned' = Judge(Scanned, line)
         /\ Agrees(Scanned', SamplesOf(lines'))
  <1>1. lines \in Seq(SidecarLines) /\ Scanned \in Scans
    BY ScannedIs DEF TelemetryTypes
  <1>2. Scanned' = Judge(Scanned, line)
    BY <1>1, ScanSteps DEF Scanned
  <1>3. SamplesOf(lines) \in SampleSeqs /\ SamplesOf(lines') = Collect(SamplesOf(lines), line)
    BY <1>1, SampleSteps
  <1>4. CASE line.read = "gap"
    <2>1. Judge(Scanned, line) = Scanned
      BY <1>4 DEF Judge
    <2>2. Collect(SamplesOf(lines), line) = SamplesOf(lines)
      BY <1>4 DEF Collect
    <2> QED
      BY <1>2, <1>3, <2>1, <2>2
  <1>5. CASE line.read # "gap"
    <2>1. line \in SampleLines
      BY <1>5 DEF SampleLines, SidecarLines
    <2>2. Collect(SamplesOf(lines), line) = Append(SamplesOf(lines), line)
      BY <1>5 DEF Collect
    <2>3. SamplesOf(lines) \in Seq(SampleLines)
      BY <1>3 DEF SampleSeqs
    <2> QED
      BY <1>1, <1>2, <1>3, <2>1, <2>2, <2>3, SampleAgrees
  <1> QED
    BY <1>2, <1>4, <1>5

LEMMA BreachKnown ==
  ASSUME Tracked PROVE FlagIsBreach /\ FlagIsWindow
  <1>1. /\ Scanned.opened = Never => ~Breaching(SamplesOf(lines))
        /\ Scanned.opened # Never => Breaching(SamplesOf(lines))
    BY DEF Tracked, Agrees
  <1> QED
    BY <1>1 DEF FlagIsBreach, FlagIsWindow, InBreach, Tracked

\* The sampler's turn: what it writes carries the instant, and the next turn is later.
LEMMA SamplerTurns ==
  ASSUME TelemetryTypes, Due, Rearm, clock' = clock,
         NEW read \in {"over", "in", "gap"}, UNCHANGED lines \/ Write(read)
  PROVE  /\ lines' \in Seq(SidecarLines) /\ due' \in Nat /\ due' <= clock' + 1
         /\ \A i \in DOMAIN lines' : lines'[i].at < due' /\ lines'[i].at <= clock'
         /\ Written
  <1> DEFINE line == [at |-> clock, read |-> read]
  <1>1. /\ clock \in Nat /\ due \in Nat /\ clock >= due /\ due' = clock + 1
        /\ lines \in Seq(SidecarLines)
    BY DEF TelemetryTypes, Due, Rearm
  <1>2. line \in SidecarLines /\ line.at = clock
    BY <1>1 DEF SidecarLines
  <1> HIDE DEF line
  <1>3. CASE UNCHANGED lines
    BY <1>1, <1>3, LinesAre DEF Written
  <1>4. CASE lines' = Append(lines, line)
    <2>1. lines' \in Seq(SidecarLines)
      BY <1>1, <1>2, <1>4
    <2>2. /\ DOMAIN lines' = DOMAIN lines \cup {Len(lines) + 1}
          /\ lines'[Len(lines) + 1] = line
          /\ \A i \in DOMAIN lines : lines'[i] = lines[i]
      BY <1>2, <1>4, RealGrows
    <2>3. \A i \in DOMAIN lines : lines[i].at \in Nat /\ lines[i].at <= clock
      BY LinesAre
    <2>4. \A i \in DOMAIN lines' : lines'[i].at \in Nat /\ lines'[i].at <= clock
      BY <1>1, <1>2, <2>2, <2>3
    <2> QED
      BY <1>1, <1>2, <1>4, <2>1, <2>4 DEF Written
  <1> QED
    BY <1>3, <1>4 DEF Write, line

LEMMA Edges ==
  ASSUME TelemetryTypes, NEW over \in BOOLEAN, Track(over)
  PROVE  crossed' \in Nat /\ within' \in Nat /\ open' \in Nat \cup {Never}
  BY DEF TelemetryTypes, Track, TrackEdges

\* The sampler's counters go with the scan's.
LEMMA EdgesTold ==
  ASSUME TelemetryTypes, Tracked, ~halted, NEW over \in BOOLEAN, Track(over)
  PROVE  LET r == Judge(Scanned, [at |-> clock, read |-> IF over THEN "over" ELSE "in"])
         IN  /\ open' = r.opened
             /\ open' = Never => crossed' = r.crossing
             /\ open' # Never => within' = r.inside
  <1> DEFINE line == [at |-> clock, read |-> IF over THEN "over" ELSE "in"]
             r == Judge(Scanned, line)
             s == Scanned
  <1>1. /\ s.crossing \in Nat /\ s.inside \in Nat
        /\ s = [crossing |-> s.crossing, opened |-> s.opened, inside |-> s.inside,
                windows |-> s.windows]
    BY ScannedIs DEF Scans
  <1>2. /\ open = s.opened /\ (open = Never => crossed = s.crossing)
        /\ (open # Never => within = s.inside)
        /\ s.opened # Never => s.crossing = 0
    BY DEF Tracked, Agrees
  <1>3. clock \in Nat /\ clock # Never
    BY ContentionAssumption DEF TelemetryTypes
  <1>4. line.at = clock /\ (over => line.read = "over") /\ (~over => line.read = "in")
    OBVIOUS
  <1> HIDE DEF line, s
  <1>5. CASE over /\ open = Never
    BY <1>1, <1>2, <1>3, <1>4, <1>5 DEF Judge, Track, TrackEdges, s
  <1>6. CASE ~over /\ open = Never
    BY <1>1, <1>2, <1>3, <1>4, <1>6, ContentionAssumption DEF Judge, Track, TrackEdges, s
  <1>7. CASE over /\ open # Never
    BY <1>1, <1>2, <1>3, <1>4, <1>7 DEF Judge, Track, TrackEdges, s
  <1>8. CASE ~over /\ open # Never
    BY <1>1, <1>2, <1>3, <1>4, <1>8 DEF Judge, Exit, Track, TrackEdges, s
  <1> QED
    BY <1>5, <1>6, <1>7, <1>8 DEF line

Telemetry == TelemetryTypes /\ Tracked

LEMMA TelemetryStarts == ContentionInit => Telemetry
  <1> SUFFICES ASSUME ContentionInit PROVE Telemetry
    OBVIOUS
  <1>1. TelemetryTypes
    <2>1. /\ clock = 0 /\ due = 0 /\ crossed = 0 /\ within = 0 /\ lines = <<>> /\ open = Never
          /\ torn = FALSE /\ halted = FALSE /\ breach = FALSE
      BY DEF ContentionInit
    <2>2. lines \in Seq(SidecarLines) /\ \A i \in DOMAIN lines : FALSE
      BY <2>1
    <2>3. clock \in Nat /\ due \in Nat /\ due <= clock + 1 /\ crossed \in Nat /\ within \in Nat
      BY <2>1
    <2>5. torn \in BOOLEAN /\ halted \in BOOLEAN /\ breach \in BOOLEAN /\ open \in Nat \cup {Never}
      BY <2>1, Zenon
    <2>4. \A i \in DOMAIN lines : lines[i].at < due /\ lines[i].at <= clock
      BY <2>2
    <2> QED
      BY <2>2, <2>3, <2>4, <2>5, Zenon DEF TelemetryTypes
  <1>2. Scanned = Closed /\ SamplesOf(lines) = <<>>
    BY ScanStarts, SamplesStart DEF ContentionInit, Scanned
  <1>3. Tracked
    BY <1>2, EmptyAgrees DEF ContentionInit, Tracked, Closed
  <1> QED
    BY <1>1, <1>3 DEF Telemetry

\* A step of the controller, or time, leaves all that is measured alone.
LEMMA Elsewhere ==
  ASSUME Telemetry, UNCHANGED <<sidecar, sampler, breach, halted>>,
         clock' \in Nat, clock <= clock'
  PROVE  Telemetry' /\ Written
  <1>1. TelemetryTypes'
    <2>1. \A i \in DOMAIN lines : lines[i].at \in Nat /\ lines[i].at <= clock /\ clock \in Nat
      BY LinesAre DEF Telemetry, TelemetryTypes
    <2> QED
      BY <2>1 DEF Telemetry, TelemetryTypes, sidecar, sampler
  <1>2. Scanned' = Scanned /\ SamplesOf(lines') = SamplesOf(lines)
    BY DEF Scanned, sidecar
  <1>3. Tracked'
    BY <1>2 DEF Telemetry, Tracked, sidecar, sampler
  <1> QED
    BY <1>1, <1>3 DEF Telemetry, Written, sidecar

LEMMA TelemetryStep == Telemetry /\ [ContentionNext]_contentionVars => Telemetry' /\ Written
  <1> SUFFICES ASSUME Telemetry, [ContentionNext]_contentionVars PROVE Telemetry' /\ Written
    OBVIOUS
  <1>0. TelemetryTypes /\ Tracked /\ clock \in Nat
    BY DEF Telemetry, TelemetryTypes
  <1>1. CASE Sample
    <2>1. /\ Due /\ Rearm /\ clock' = clock /\ ~halted /\ ~torn /\ torn' = torn /\ halted' = halted
          /\ breach' = (open' # Never)
      BY <1>0, <1>1 DEF Sample, Due, Tracked
    <2>2. PICK over \in BOOLEAN : Track(over) /\ Write(IF over THEN "over" ELSE "in")
      BY <1>1 DEF Sample
    <2> DEFINE read == IF over THEN "over" ELSE "in"
               line == [at |-> clock, read |-> read]
    <2>3. read \in {"over", "in", "gap"} /\ line \in SidecarLines
      BY <1>0 DEF SidecarLines
    <2>4. lines' = Append(lines, line)
      BY <2>1, <2>2 DEF Write
    <2>5. Scanned' = Judge(Scanned, line) /\ Agrees(Scanned', SamplesOf(lines'))
      BY <1>0, <2>3, <2>4, AgreesOn DEF Tracked
    <2>6. /\ lines' \in Seq(SidecarLines) /\ due' \in Nat /\ due' <= clock' + 1
          /\ \A i \in DOMAIN lines' : lines'[i].at < due' /\ lines'[i].at <= clock'
          /\ Written
      BY <1>0, <2>1, <2>2, <2>3, SamplerTurns
    <2>7. crossed' \in Nat /\ within' \in Nat /\ open' \in Nat \cup {Never}
      BY <1>0, <2>2, Edges
    <2>8. TelemetryTypes'
      BY <1>0, <2>1, <2>6, <2>7 DEF TelemetryTypes
    <2>9. /\ open' = Scanned'.opened
          /\ open' = Never => crossed' = Scanned'.crossing
          /\ open' # Never => within' = Scanned'.inside
      BY <1>0, <2>1, <2>2, <2>5, EdgesTold
    <2>10. Tracked'
      BY <2>1, <2>5, <2>9 DEF Tracked
    <2> QED
      BY <2>6, <2>8, <2>10 DEF Telemetry
  <1>2. CASE ProbeFails \/ StorageFails
    <2>1. /\ Due /\ Rearm /\ clock' = clock /\ ~halted /\ ~torn
          /\ UNCHANGED <<crossed, open, within, breach>>
          /\ UNCHANGED lines \/ Write("gap")
          /\ torn' \in BOOLEAN /\ halted' \in BOOLEAN /\ (~halted' => ~torn')
      <3>1. torn \in BOOLEAN /\ halted \in BOOLEAN /\ (~halted => ~torn)
        BY <1>0 DEF Tracked, TelemetryTypes
      <3>2. CASE ProbeFails
        BY <3>1, <3>2 DEF ProbeFails, Due
      <3>3. CASE StorageFails
        BY <3>1, <3>3 DEF StorageFails, Due
      <3> QED
        BY <1>2, <3>2, <3>3
    <2>2. /\ lines' \in Seq(SidecarLines) /\ due' \in Nat /\ due' <= clock' + 1
          /\ \A i \in DOMAIN lines' : lines'[i].at < due' /\ lines'[i].at <= clock'
          /\ Written
      BY <1>0, <2>1, SamplerTurns
    <2>3. TelemetryTypes'
      BY <1>0, <2>1, <2>2 DEF TelemetryTypes
    <2>4. Scanned' = Scanned /\ Agrees(Scanned', SamplesOf(lines'))
      <3>1. CASE UNCHANGED lines
        BY <1>0, <3>1 DEF Scanned, Tracked
      <3>2. CASE Write("gap")
        <4> DEFINE line == [at |-> clock, read |-> "gap"]
        <4>1. line \in SidecarLines /\ lines' = Append(lines, line)
          BY <1>0, <2>1, <3>2 DEF SidecarLines, Write
        <4>2. Judge(Scanned, line) = Scanned
          BY DEF Judge
        <4> HIDE DEF line
        <4> QED
          BY <1>0, <4>1, <4>2, AgreesOn DEF Tracked
      <3> QED
        BY <2>1, <3>1, <3>2
    <2>5. Tracked'
      BY <1>0, <2>1, <2>4 DEF Tracked
    <2> QED
      BY <2>2, <2>3, <2>5 DEF Telemetry
  <1>3. CASE Aborted \/ Select \/ Admit \/ Released \/ Starved \/ Ends \/ Audit
    BY <1>0, <1>3, Elsewhere
    DEF Aborted, Select, Admit, Released, Starved, Ends, Audit
  <1>4. CASE Prepare
    <2>1. clock' \in Nat /\ clock <= clock'
      BY <1>0, <1>4 DEF Prepare
    <2> QED
      BY <1>4, <2>1, Elsewhere DEF Prepare
  <1>5. CASE Elapses
    <2>1. clock' \in Nat /\ clock <= clock'
      BY <1>0, <1>5 DEF Elapses
    <2> QED
      BY <1>5, <2>1, Elsewhere DEF Elapses
  <1>6. CASE UNCHANGED contentionVars
    BY <1>0, <1>6, Elsewhere DEF contentionVars
  <1> QED
    BY <1>1, <1>2, <1>3, <1>4, <1>5, <1>6 DEF ContentionNext

----
(* The block, and its audit once it is past. *)

BlockKept ==
  /\ slot \in Nat
  /\ block \in [from : Nat \cup {Never}, until : Nat \cup {Never}, valid : BOOLEAN,
                invalid : {Never, "invalid", "unknown"}, loud : BOOLEAN]
  /\ block.from # Never => block.from <= clock
  /\ block.until # Never => /\ block.from # Never /\ block.from <= block.until
                            /\ doing \in {"select", "over"}
  /\ slot > 0 /\ doing \in {"prepare", "admit", "wait", "run"} => block.from # Never
  /\ doing \in {"admit", "run"} => slot > 0

LEMMA BlockStarts == ContentionInit => BlockKept
  BY ContentionAssumption DEF ContentionInit, BlockKept, NoBlock

LEMMA BlockStep ==
  Telemetry /\ BlockKept /\ [ContentionNext]_contentionVars
    => BlockKept' /\ (block.until # Never => UNCHANGED <<block.from, block.until>>)
  <1> SUFFICES ASSUME Telemetry, BlockKept, [ContentionNext]_contentionVars
               PROVE  BlockKept' /\ (block.until # Never => UNCHANGED <<block.from, block.until>>)
    OBVIOUS
  <1>0. clock \in Nat /\ BlockSize \in Nat \ {0} /\ Never \notin Nat
    BY ContentionAssumption DEF Telemetry, TelemetryTypes
  <1>1. /\ block.from \in Nat \cup {Never} /\ block.until \in Nat \cup {Never} /\ slot \in Nat
        /\ block = [from |-> block.from, until |-> block.until, valid |-> block.valid,
                    invalid |-> block.invalid, loud |-> block.loud]
        /\ block.valid \in BOOLEAN /\ block.invalid \in {Never, "invalid", "unknown"}
        /\ block.loud \in BOOLEAN
    BY DEF BlockKept
  <1>2. CASE Sample \/ ProbeFails \/ StorageFails \/ UNCHANGED contentionVars
    <2>1. UNCHANGED controller /\ clock' = clock
      BY <1>2 DEF Sample, ProbeFails, StorageFails, contentionVars
    <2> QED
      BY <2>1 DEF BlockKept, controller
  <1>3. CASE Aborted \/ Starved
    <2>1. clock' = clock /\ UNCHANGED <<slot, block>> /\ doing' = "over"
      BY <1>3 DEF Aborted, Starved
    <2> QED
      BY <2>1 DEF BlockKept
  <1>4. CASE Elapses
    <2>1. clock' = clock + 1 /\ UNCHANGED controller
      BY <1>4 DEF Elapses
    <2> QED
      BY <1>0, <1>1, <2>1 DEF BlockKept, controller
  <1>5. CASE Select
    <2>1. clock' = clock /\ slot' = 0 /\ block.from = Never /\ block' = block
          /\ doing' \in {"prepare", "wait"}
      BY <1>5 DEF Select, AdmitThen, ToPrepare
    <2> QED
      BY <1>0, <1>1, <2>1 DEF BlockKept
  <1>6. CASE Prepare
    <2>1. /\ clock' \in Nat /\ clock <= clock' /\ slot' = slot + 1 /\ doing = "prepare" /\ doing' = "admit"
          /\ block' = [block EXCEPT !.from = IF slot = 0 THEN clock ELSE @]
      BY <1>0, <1>6 DEF Prepare
    <2>2. block.until = Never /\ (slot > 0 => block.from # Never)
      BY <2>1 DEF BlockKept
    <2>3. /\ block'.from = (IF slot = 0 THEN clock ELSE block.from) /\ block'.until = Never
          /\ block'.valid = block.valid /\ block'.invalid = block.invalid /\ block'.loud = block.loud
          /\ block' = [from |-> block'.from, until |-> block'.until, valid |-> block'.valid,
                       invalid |-> block'.invalid, loud |-> block'.loud]
      BY <1>1, <2>1, <2>2
    <2>4. block'.from \in Nat /\ block'.from <= clock'
      BY <1>0, <1>1, <2>1, <2>2, <2>3 DEF BlockKept
    <2>5. block' \in [from : Nat \cup {Never}, until : Nat \cup {Never}, valid : BOOLEAN,
                      invalid : {Never, "invalid", "unknown"}, loud : BOOLEAN]
      BY <1>1, <2>3, <2>4
    <2> QED
      BY <1>0, <1>1, <2>1, <2>2, <2>3, <2>4, <2>5 DEF BlockKept
  <1>7. CASE Admit \/ Released
    <2>1. /\ clock' = clock /\ slot' = slot /\ doing \in {"admit", "wait"}
          /\ \/ doing' \in {"select", "prepare"} /\ block' = block
             \/ doing' = "wait" /\ block' = block
             \/ doing' = "run" /\ slot >= BlockSize /\ block' = [block EXCEPT !.loud = breach]
      BY <1>0, <1>1, <1>7 DEF Admit, Released, AdmitThen, ToPrepare, Activated
    <2>2. block.until = Never
      BY <2>1 DEF BlockKept
    <2>3. CASE doing' \in {"select", "prepare", "wait"} /\ block' = block
      BY <1>0, <1>1, <2>1, <2>2, <2>3 DEF BlockKept
    <2>4. CASE doing' = "run" /\ slot >= BlockSize /\ block' = [block EXCEPT !.loud = breach]
      <3>1. breach \in BOOLEAN
        BY DEF Telemetry, TelemetryTypes
      <3>2. /\ block'.from = block.from /\ block'.until = Never
            /\ block' \in [from : Nat \cup {Never}, until : Nat \cup {Never}, valid : BOOLEAN,
                           invalid : {Never, "invalid", "unknown"}, loud : BOOLEAN]
        BY <1>1, <2>2, <2>4, <3>1
      <3>3. slot > 0
        BY <1>0, <1>1, <2>4
      <3> QED
        BY <2>1, <2>2, <2>4, <3>2, <3>3 DEF BlockKept
    <2> QED
      BY <2>1, <2>3, <2>4
  <1>8. CASE Ends
    <2>1. /\ clock' = clock /\ slot' = slot /\ doing = "run" /\ doing' = "select"
          /\ block' = [block EXCEPT !.until = clock]
      BY <1>8 DEF Ends
    <2>2. block.until = Never /\ block.from # Never /\ block.from <= clock
      BY <2>1 DEF BlockKept
    <2>3. /\ block'.from = block.from /\ block'.until = clock
          /\ block' \in [from : Nat \cup {Never}, until : Nat \cup {Never}, valid : BOOLEAN,
                         invalid : {Never, "invalid", "unknown"}, loud : BOOLEAN]
      BY <1>0, <1>1, <2>1
    <2> QED
      BY <1>1, <2>1, <2>2, <2>3 DEF BlockKept
  <1>9. CASE Audit
    <2>1. /\ clock' = clock /\ slot' = slot /\ doing = "select" /\ doing' = doing
          /\ \/ \E v \in {"invalid", "unknown"} : block' = [block EXCEPT !.invalid = v]
             \/ block' = [block EXCEPT !.valid = TRUE]
      BY <1>9 DEF Audit, Verdict
    <2>2. /\ block'.from = block.from /\ block'.until = block.until
          /\ block' \in [from : Nat \cup {Never}, until : Nat \cup {Never}, valid : BOOLEAN,
                         invalid : {Never, "invalid", "unknown"}, loud : BOOLEAN]
      BY <1>1, <2>1
    <2> QED
      BY <2>1, <2>2 DEF BlockKept
  <1> QED
    BY <1>2, <1>3, <1>4, <1>5, <1>6, <1>7, <1>8, <1>9 DEF ContentionNext

LEMMA FinalStepKept ==
  Telemetry /\ BlockKept /\ [ContentionNext]_contentionVars => FinalStep
  <1> SUFFICES ASSUME Telemetry, BlockKept, [ContentionNext]_contentionVars, Settled
               PROVE  Verdict(block.from, block.until)' = Verdict(block.from, block.until)
    BY DEF FinalStep
  <1> DEFINE from == block.from
             until == block.until
  <1>1. from \in Nat /\ until \in Nat /\ from <= until /\ until # Never
    BY ContentionAssumption DEF Settled, BlockKept
  <1>2. Telemetry' /\ Written /\ from' = from /\ until' = until
    BY <1>1, TelemetryStep, BlockStep
  <1>3. Past(from, until)
    BY <1>1 DEF Settled, Past
  <1>4. TelemetryTypes /\ TelemetryTypes'
    BY <1>2 DEF Telemetry
  <1> HIDE DEF from, until
  <1>5. ASSUME NEW f \in Nat, NEW u \in Nat, Past(f, u) PROVE Verdict(f, u)' = Verdict(f, u)
    <2>1. Verdict(f, u) = Finally(f, u)
      BY <1>4, <1>5, VerdictTold
    <2>2. Past(f, u)' /\ Finally(f, u)' = Finally(f, u)
      BY <1>2, <1>4, <1>5, PastStays
    <2>3. Verdict(f, u)' = Finally(f, u)'
      BY <1>4, <2>2, VerdictToldNext
    <2> QED
      BY <2>1, <2>2, <2>3
  <1>6. \A f, u \in Nat : Past(f, u) => Verdict(f, u)' = Verdict(f, u)
    BY <1>5
  <1> QED
    BY <1>1, <1>2, <1>3, <1>6 DEF from, until

\* What halts admission is what a sustained breach is and what invalidates, and the
\* audit of a block is final once a sample lies after it.
THEOREM ContentionIsSoundAlways == ContentionSpec => ContentionIsSound
  <1>1. ContentionInit => Telemetry /\ BlockKept
    BY TelemetryStarts, BlockStarts
  <1>2. Telemetry /\ BlockKept /\ [ContentionNext]_contentionVars => (Telemetry /\ BlockKept)'
    BY TelemetryStep, BlockStep
  <1>3. Telemetry => FlagIsBreach /\ FlagIsWindow
    BY BreachKnown DEF Telemetry
  <1>4. Telemetry /\ BlockKept /\ [ContentionNext]_contentionVars => FinalStep
    BY FinalStepKept
  <1> QED
    BY <1>1, <1>2, <1>3, <1>4, PTL DEF ContentionSpec, ContentionIsSound
====
