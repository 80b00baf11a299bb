---- MODULE PublicationProofs ----
(***************************************************************************)
(* What is published is kept, for any number of processes that decide or   *)
(* publish, outages and damaged results: a decision that was reported      *)
(* durable is the one on record, and a delivery that was shown is the one  *)
(* delivery of its report.  Both arguments rest on the order of three      *)
(* steps: the bytes are whole before a name is linked, a name is never     *)
(* linked over, and nothing is told before the directory is synced.        *)
(*                                                                         *)
(* An attempt is published after its run is over: its verdict was earned,  *)
(* and what it leaves is its last word.                                    *)
(*                                                                         *)
(* The journal under its writers keeps what was acknowledged, commits      *)
(* nothing twice, and takes nothing from a writer that was deposed.  The   *)
(* write transaction is what this rests on: whoever replays, folds or      *)
(* inserts has it, so that nobody is elected and nothing is committed      *)
(* between what a writer decides and what it writes.                       *)
(***************************************************************************)
EXTENDS JournalWriter, DurableMarker, ReportPublication, AttemptPublication, AttemptEvidence,
  SequenceTheorems, TLAPS

(* Decisions: one name in one directory. *)

\* What is durable is what is in sight or nothing; whoever syncs has the body that is in
\* sight; a decision that was reported is durable.
MarkerInv ==
  /\ name \in Files \cup {Nothing} /\ saved \in {Nothing, name}
  /\ name # Nothing => name.whole
  /\ call \in [Deciders -> {"look", "stage", "link", "sync", "done", "refused", "failed"}]
  /\ \A p \in Deciders : call[p] = "link" => p \in synced
  /\ \A p \in Deciders : call[p] = "sync" => name # Nothing /\ name.body = BodyOf[p]
  /\ blessed # {} => name # Nothing /\ saved = name /\ blessed = {name.body}

LEMMA MarkerStep ==
  ASSUME Nothing \notin Files, MarkerInv, [MarkerNext]_markerVars
  PROVE  MarkerInv'
<1> USE DEF MarkerInv, marker, Goes, File, Files
<1>1. CASE UNCHANGED markerVars
  BY <1>1 DEF markerVars
<1>2. ASSUME NEW p \in Deciders, Seek(p) PROVE MarkerInv'
  BY <1>2 DEF Seek, Meets
<1>3. ASSUME NEW p \in Deciders, Stage(p) PROVE MarkerInv'
  BY <1>3 DEF Stage
<1>4. ASSUME NEW p \in Deciders, Claim(p) PROVE MarkerInv'
  <2>1. CASE name = Nothing /\ name' = File(BodyOf[p], p \in synced) /\ Goes(p, "sync")
    <3>1. p \in synced
      BY <1>4 DEF Claim
    <3>2. name' = [body |-> BodyOf[p], whole |-> TRUE]
      BY <2>1, <3>1
    <3>3. name' \in Files /\ name'.whole /\ name'.body = BodyOf[p]
      BY <3>2
    <3> QED
      BY <1>4, <2>1, <3>3 DEF Claim
  <2>2. CASE UNCHANGED name /\ call'[p] # "sync"
    BY <1>4, <2>2 DEF Claim
  <2> QED
    BY <1>4, <2>1, <2>2 DEF Claim
<1>5. ASSUME NEW p \in Deciders, Persist(p) PROVE MarkerInv'
  BY <1>5 DEF Persist
<1>6. ASSUME NEW p \in Deciders, Again(p) PROVE MarkerInv'
  BY <1>6 DEF Again
<1>7. CASE Outage
  BY <1>7 DEF Outage
<1> QED
  BY <1>1, <1>2, <1>3, <1>4, <1>5, <1>6, <1>7 DEF MarkerNext

\* A decision that was reported durable is the one on record from then on, complete, whatever
\* others tried to record, whoever died and however often the power was lost.
THEOREM DecisionIsKeptAlways == MarkerSpec => []DecisionIsKept
<1>1. MarkerInit => MarkerInv
  BY DEF MarkerInit, MarkerInv
<1>2. MarkerInv => DecisionIsKept
  BY DEF MarkerInv, DecisionIsKept
<1>3. MarkerInv /\ [MarkerNext]_markerVars => MarkerInv'
  BY MarkerStep, MarkerAssumption
<1> QED
  BY <1>1, <1>2, <1>3, PTL DEF MarkerSpec

----
(* Reports: a directory each, with the receipt last. *)

\* What has to be there before the receipt, and what a delivery has still to publish.
Required(d) == IF d = Campaign THEN Names \ {Receipt} ELSE {"report.json", "report.md"}
Missing(todo) == {todo[i] : i \in 1 .. Len(todo)}

Running == {"idle", "seal", "file", "link", "sync", "conflict", "failed"}

\* A directory has one report's bytes; what is durable is in sight.
FilesInv ==
  /\ files \in [Directories -> [Names -> Reports \cup Receipts \cup {None}]]
  /\ onDisk \in [Directories -> SUBSET Names]
  /\ \A d \in Directories : \A n \in Names :
       /\ n \in onDisk[d] => files[d][n] # None
       /\ n # Receipt /\ files[d][n] # None => files[d][n] \in Reports /\ Directory(files[d][n]) = d
       /\ n = Receipt /\ files[d][n] # None => files[d][n] \in Receipts

\* A receipt is in sight only when what it is for is durable.
CrownInv ==
  \A d \in Directories : files[d][Receipt] # None => Required(d) \subseteq onDisk[d]

\* What a delivery has behind it is durable, and what it syncs is its own.
DeliveryInv(p) ==
  run[p].at # "idle" =>
    /\ run[p].report \in Reports
    /\ run[p].at \in {"link", "sync", "conflict"} => run[p].todo # <<>>
    /\ run[p].at = "sync" => files[Place(p)][Name(p)] = BytesFor(p)
    /\ Receipt \in Missing(run[p].todo) => run[p].todo = <<Receipt>> /\ run[p].mine \in Receipts
    /\ Required(Place(p)) \ Missing(run[p].todo) \subseteq onDisk[Place(p)]

ReportTypes ==
  /\ prefix \in 0 .. Last /\ evidence \in BOOLEAN /\ faults \in 0 .. MaxFaults
  /\ run \in [Publishers -> [at : Running, report : Reports \cup {None}, todo : Seq(Names),
                             mine : Receipts \cup {None}]]
  /\ told \in [Directories -> SUBSET Receipts]

ReportInv ==
  /\ ReportTypes /\ FilesInv /\ CrownInv
  /\ \A p \in Publishers : DeliveryInv(p)
  /\ DeliveredOnce

----
(* Directories. *)

LEMMA DirectoryType ==
  ASSUME NEW r \in Reports
  PROVE  Directory(r) \in Directories
BY DEF Directory, Directories

LEMMA DirectoryIsOne ==
  ASSUME NEW r \in Reports, NEW q \in Reports, Directory(r) = Directory(q)
  PROVE  r = q
<1>1. CASE Terminal(r) /\ Terminal(q)
  BY <1>1 DEF Terminal, Reports
<1>2. CASE ~Terminal(r) /\ ~Terminal(q)
  BY <1>2 DEF Directory, Snapshot
<1>3. \A s \in Reports : Snapshot(s) # Campaign
  BY DEF Snapshot, Campaign
<1> QED
  BY <1>1, <1>2, <1>3 DEF Directory

LEMMA PlaceType ==
  ASSUME NEW p \in Publishers, DeliveryInv(p), run[p].at # "idle"
  PROVE  Place(p) \in Directories
BY DirectoryType DEF DeliveryInv, Place

LEMMA HeadIsMissing ==
  ASSUME NEW s \in Seq(Names), s # <<>>
  PROVE  /\ Head(s) \in Names /\ Tail(s) \in Seq(Names)
         /\ Missing(s) = {Head(s)} \cup Missing(Tail(s))
<1>1. /\ Head(s) = s[1] /\ Len(s) \in Nat \ {0} /\ Tail(s) \in Seq(Names) /\ Len(Tail(s)) = Len(s) - 1
      /\ \A i \in 1 .. Len(Tail(s)) : Tail(s)[i] = s[i + 1]
  BY HeadTailProperties, EmptySeq, LenProperties
<1>2. \A i \in 1 .. Len(s) : s[i] \in Names
  BY ElementOfSeq
<1>3. ASSUME NEW i \in 1 .. Len(s) PROVE s[i] \in {Head(s)} \cup Missing(Tail(s))
  <2>1. CASE i = 1
    BY <1>1, <2>1
  <2>2. CASE i # 1
    <3>1. i - 1 \in 1 .. Len(Tail(s)) /\ Tail(s)[i - 1] = s[i]
      BY <1>1, <2>2
    <3> QED
      BY <3>1 DEF Missing
  <2> QED
    BY <2>1, <2>2
<1>4. ASSUME NEW i \in 1 .. Len(Tail(s)) PROVE Tail(s)[i] \in Missing(s)
  <2>1. i + 1 \in 1 .. Len(s) /\ Tail(s)[i] = s[i + 1]
    BY <1>1
  <2> QED
    BY <2>1 DEF Missing
<1>5. Head(s) \in Missing(s)
  BY <1>1 DEF Missing
<1> QED
  BY <1>1, <1>2, <1>3, <1>4, <1>5 DEF Missing

LEMMA OnlyReceipt ==
  /\ <<Receipt>> \in Seq(Names) /\ <<Receipt>> # <<>>
  /\ Head(<<Receipt>>) = Receipt /\ Missing(<<Receipt>>) = {Receipt}
<1>1. Len(<<Receipt>>) = 1 /\ <<Receipt>>[1] = Receipt /\ <<Receipt>> \in Seq({Receipt})
  OBVIOUS
<1>2. Receipt \in Names
  BY DEF Receipt, Names
<1>3. Missing(<<Receipt>>) = {Receipt}
  BY <1>1 DEF Missing
<1>4. <<Receipt>> \in Seq(Names)
  BY <1>2
<1> QED
  BY <1>1, <1>3, <1>4

----
(* One publisher's steps. *)

LEMMA BytesType ==
  ASSUME NEW p \in Publishers, ReportTypes, DeliveryInv(p), run[p].at # "idle", run[p].todo # <<>>
  PROVE  /\ Place(p) \in Directories /\ Place(p) = Directory(run[p].report)
         /\ Name(p) \in Names /\ Name(p) \in Missing(run[p].todo)
         /\ Name(p) = Receipt => BytesFor(p) \in Receipts /\ run[p].mine \in Receipts
         /\ Name(p) # Receipt => BytesFor(p) = run[p].report /\ BytesFor(p) \in Reports
<1>1. run[p].todo \in Seq(Names)
  BY DEF ReportTypes
<1>2. Name(p) \in Names /\ Name(p) \in Missing(run[p].todo)
  BY <1>1, HeadIsMissing DEF Name
<1> QED
  BY <1>2, PlaceType DEF DeliveryInv, BytesFor, Place

LEMMA OthersKeep ==
  ASSUME NEW q \in Publishers, ReportTypes, FilesInv, DeliveryInv(q), run'[q] = run[q],
         \A d \in Directories :
           /\ onDisk[d] \subseteq onDisk'[d]
           /\ \A n \in Names : files[d][n] # None => files'[d][n] = files[d][n]
  PROVE  DeliveryInv(q)'
<1>1. CASE run[q].at = "idle"
  BY <1>1 DEF DeliveryInv
<1>2. CASE run[q].at # "idle" /\ run[q].at # "sync"
  BY <1>2, PlaceType DEF DeliveryInv, Place, Name, BytesFor
<1>3. CASE run[q].at = "sync"
  <2>1. run[q].todo # <<>>
    BY <1>3 DEF DeliveryInv
  <2>2. Place(q) \in Directories /\ Name(q) \in Names /\ BytesFor(q) # None
    BY <1>3, <2>1, BytesType, ReportAssumption
  <2>3. files'[Place(q)][Name(q)] = BytesFor(q) /\ onDisk[Place(q)] \subseteq onDisk'[Place(q)]
    BY <1>3, <2>2 DEF DeliveryInv
  <2> QED
    BY <1>3, <2>3 DEF DeliveryInv, Place, Name, BytesFor
<1> QED
  BY <1>1, <1>2, <1>3

\* A step of one publisher that touches no file.
LEMMA QuietStep ==
  ASSUME NEW p \in Publishers, ReportInv, UNCHANGED <<prefix, evidence, shelf, told, faults>>,
         NEW r, run' = [run EXCEPT ![p] = r],
         r \in [at : Running, report : Reports \cup {None}, todo : Seq(Names),
                mine : Receipts \cup {None}],
         DeliveryInv(p)'
  PROVE  ReportInv'
<1>1. ReportTypes'
  BY DEF ReportInv, ReportTypes
<1>2. FilesInv' /\ CrownInv' /\ DeliveredOnce'
  BY DEF ReportInv, shelf, FilesInv, CrownInv, DeliveredOnce
<1>3. ASSUME NEW q \in Publishers, q # p PROVE DeliveryInv(q)'
  <2>1. run'[q] = run[q]
    BY <1>3 DEF ReportInv, ReportTypes
  <2> QED
    BY <2>1, OthersKeep DEF ReportInv, shelf
<1> QED
  BY <1>1, <1>2, <1>3 DEF ReportInv

LEMMA DeriveKeeps ==
  ASSUME NEW p \in Publishers, ReportInv, Derive(p)
  PROVE  ReportInv'
<1> DEFINE r == [at |-> prefix, whole |-> evidence]
           todo == IF Terminal(r) THEN <<"report.json", "report.md", "report-seal.json">>
                   ELSE <<"report.json", "report.md">>
           new == [Idle EXCEPT !.report = r, !.at = IF Terminal(r) THEN "seal" ELSE "file",
                               !.todo = todo]
<1>1. r \in Reports
  BY ReportAssumption DEF Derive, ReportInv, ReportTypes, Reports
<1>2. run' = [run EXCEPT ![p] = new]
  BY DEF Derive
<1>3. todo \in Seq(Names) /\ todo # <<>> /\ Receipt \notin Missing(todo)
  <2>1. CASE Terminal(r)
    <3>1. /\ todo = <<"report.json", "report.md", "report-seal.json">>
          /\ todo \in Seq({"report.json", "report.md", "report-seal.json"})
      BY <2>1
    <3>2. /\ Len(todo) = 3 /\ todo[1] = "report.json"
          /\ todo[2] = "report.md" /\ todo[3] = "report-seal.json"
      BY <3>1
    <3>3. todo \in Seq(Names)
      BY <3>1 DEF Names
    <3>4. todo # <<>>
      BY <3>2
    <3> QED
      BY <3>2, <3>3, <3>4 DEF Missing, Receipt
  <2>2. CASE ~Terminal(r)
    <3>1. /\ todo = <<"report.json", "report.md">>
          /\ todo \in Seq({"report.json", "report.md"})
      BY <2>2
    <3>2. Len(todo) = 2 /\ todo[1] = "report.json" /\ todo[2] = "report.md"
      BY <3>1
    <3>3. todo \in Seq(Names)
      BY <3>1 DEF Names
    <3>4. todo # <<>>
      BY <3>2
    <3> QED
      BY <3>2, <3>3, <3>4 DEF Missing, Receipt
  <2> QED
    BY <2>1, <2>2
<1>4. Required(Directory(r)) \subseteq Missing(todo)
  <2>1. CASE Terminal(r)
    <3>1. /\ todo[1] = "report.json" /\ todo[2] = "report.md"
          /\ todo[3] = "report-seal.json" /\ Len(todo) = 3
      BY <2>1
    <3> QED
      BY <2>1, <3>1 DEF Missing, Required, Directory, Names, Receipt
  <2>2. CASE ~Terminal(r)
    <3>1. todo[1] = "report.json" /\ todo[2] = "report.md" /\ Len(todo) = 2
      BY <2>2
    <3>2. Directory(r) # Campaign
      BY <2>2 DEF Directory, Snapshot, Campaign
    <3> QED
      BY <3>1, <3>2 DEF Missing, Required
  <2> QED
    BY <2>1, <2>2
<1>5. /\ new \in [at : Running, report : Reports \cup {None}, todo : Seq(Names),
                  mine : Receipts \cup {None}]
      /\ new.at \in {"seal", "file"} /\ new.report = r /\ new.todo = todo
  <2> HIDE DEF r, todo
  <2> QED
    BY <1>1, <1>3 DEF Running, Idle
<1>6. run'[p] = new
  BY <1>2 DEF ReportInv, ReportTypes
<1>7. DeliveryInv(p)'
  <2>1. /\ run'[p].at \in {"seal", "file"} /\ run'[p].report = r /\ run'[p].todo = todo
    BY <1>5, <1>6
  <2>2. Place(p)' = Directory(r)
    BY <2>1 DEF Place, Directory, Terminal, Snapshot
  <2> HIDE DEF r, todo, new
  <2> QED
    BY <1>1, <1>3, <1>4, <2>1, <2>2 DEF DeliveryInv
<1> HIDE DEF new
<1> QED
  BY <1>2, <1>5, <1>7, QuietStep DEF Derive

LEMMA MovesKeeps ==
  ASSUME NEW p \in Publishers, ReportInv, UNCHANGED <<prefix, evidence, shelf, told, faults>>,
         NEW to \in Running, Moves(p, to), run[p].at # "idle",
         to \in {"link", "sync", "conflict"} => run[p].todo # <<>>,
         to = "sync" => files[Place(p)][Name(p)] = BytesFor(p)
  PROVE  ReportInv'
<1> DEFINE new == [run[p] EXCEPT !.at = to]
<1>1. run' = [run EXCEPT ![p] = new]
  BY DEF Moves
<1>2. /\ run[p] \in [at : Running, report : Reports \cup {None}, todo : Seq(Names),
                     mine : Receipts \cup {None}]
      /\ DeliveryInv(p)
  BY DEF ReportInv, ReportTypes
<1>3. /\ new.at = to /\ new.report = run[p].report /\ new.todo = run[p].todo /\ new.mine = run[p].mine
      /\ new \in [at : Running, report : Reports \cup {None}, todo : Seq(Names),
                  mine : Receipts \cup {None}]
  BY <1>2
<1>4. run'[p] = new
  BY <1>1 DEF ReportInv, ReportTypes
<1> HIDE DEF new
<1>5. DeliveryInv(p)'
  BY <1>2, <1>3, <1>4 DEF DeliveryInv, Place, Name, BytesFor, shelf
<1> QED
  BY <1>1, <1>3, <1>5, QuietStep

LEMMA SealKeeps ==
  ASSUME NEW p \in Publishers, ReportInv, Seal(p)
  PROVE  ReportInv'
<1>1. \E to \in {"file", "failed"} : Moves(p, to)
  BY DEF Seal
<1> QED
  BY <1>1, MovesKeeps DEF Seal, Running

LEMMA ConfirmKeeps ==
  ASSUME NEW p \in Publishers, ReportInv, Confirm(p), UNCHANGED <<prefix, evidence, shelf, faults>>,
         run[p].at \in {"file", "link"}, run[p].todo # <<>>
  PROVE  ReportInv'
<1>1. CASE files[Place(p)][Name(p)] = BytesFor(p)
  <2>1. Moves(p, "sync")
    BY <1>1 DEF Confirm
  <2> QED
    BY <1>1, <2>1, MovesKeeps DEF Confirm, Running
<1>2. CASE files[Place(p)][Name(p)] # BytesFor(p)
  <2>1. Moves(p, "conflict")
    BY <1>2 DEF Confirm
  <2> QED
    BY <2>1, MovesKeeps DEF Confirm, Running
<1> QED
  BY <1>1, <1>2

LEMMA LookKeeps ==
  ASSUME NEW p \in Publishers, ReportInv, Look(p)
  PROVE  ReportInv'
<1>1. CASE files[Place(p)][Name(p)] # None
  BY <1>1, ConfirmKeeps DEF Look
<1>2. CASE files[Place(p)][Name(p)] = None
  <2>1. Moves(p, "link")
    BY <1>2 DEF Look
  <2> QED
    BY <1>2, <2>1, MovesKeeps DEF Look, Running
<1> QED
  BY <1>1, <1>2

\* A new name: of the report the directory is for, or of a receipt over what is durable.
LEMMA LinkKeeps ==
  ASSUME NEW p \in Publishers, ReportInv, Link(p)
  PROVE  ReportInv'
<1> DEFINE d == Place(p)
           n == Name(p)
           b == BytesFor(p)
<1>1. /\ run[p].at = "link" /\ run[p].todo # <<>>
      /\ UNCHANGED <<prefix, evidence, onDisk, faults>>
      /\ DeliveryInv(p) /\ ReportTypes
  BY DEF Link, ReportInv, DeliveryInv
<1>2. CASE files[d][n] # None
  BY <1>1, <1>2, ConfirmKeeps DEF Link, shelf
<1>3. CASE files[d][n] = None
  <2>1. /\ d \in Directories /\ d = Directory(run[p].report) /\ n \in Names
        /\ n = Receipt => b \in Receipts
        /\ n # Receipt => b = run[p].report /\ b \in Reports
        /\ n \in Missing(run[p].todo)
    BY <1>1, BytesType
  <2>2. files' = [files EXCEPT ![d][n] = b] /\ Moves(p, "sync") /\ UNCHANGED told
    BY <1>3 DEF Link
  <2> HIDE DEF d, n, b
  <2>3. /\ files' \in [Directories -> [Names -> Reports \cup Receipts \cup {None}]]
        /\ \A e \in Directories : \A m \in Names :
             files'[e][m] = IF e = d /\ m = n THEN b ELSE files[e][m]
    BY <2>1, <2>2 DEF ReportInv, FilesInv
  <2>4. \A e \in Directories : \A m \in Names : files[e][m] # None => files'[e][m] = files[e][m]
    BY <1>3, <2>3
  <2>5. FilesInv'
    BY <1>1, <1>3, <2>1, <2>3 DEF ReportInv, FilesInv
  <2>6. CrownInv'
    <3> SUFFICES ASSUME NEW e \in Directories, files'[e][Receipt] # None
                 PROVE  Required(e) \subseteq onDisk[e]
      BY <1>1 DEF CrownInv
    <3>1. CASE files[e][Receipt] # None
      BY <3>1 DEF ReportInv, CrownInv
    <3>2. CASE e = d /\ n = Receipt
      <4>1. run[p].todo = <<Receipt>> /\ Required(d) \ Missing(run[p].todo) \subseteq onDisk[d]
        BY <1>1, <2>1, <3>2 DEF DeliveryInv, d
      <4>2. Receipt \notin Required(d) /\ Required(d) \ {Receipt} \subseteq onDisk[d]
        BY <4>1, OnlyReceipt DEF Required, Receipt
      <4> QED
        BY <3>2, <4>2
    <3> QED
      BY <2>3, <3>1, <3>2 DEF Names, Receipt
  <2>7. ReportTypes' /\ run'[p] = [run[p] EXCEPT !.at = "sync"]
    BY <1>1, <2>2 DEF ReportTypes, Moves, Running
  <2>8. DeliveryInv(p)'
    <3>1. /\ run'[p].at = "sync" /\ run'[p].report = run[p].report /\ run'[p].todo = run[p].todo
          /\ run'[p].mine = run[p].mine
      BY <1>1, <2>7 DEF ReportTypes
    <3>2. Place(p)' = d /\ Name(p)' = n /\ BytesFor(p)' = b
      BY <3>1 DEF Place, Name, BytesFor, d, n, b
    <3>3. files'[d][n] = b
      BY <2>1, <2>3
    <3> QED
      BY <1>1, <3>1, <3>2, <3>3 DEF DeliveryInv, d
  <2>9. ASSUME NEW q \in Publishers, q # p PROVE DeliveryInv(q)'
    <3>1. run'[q] = run[q]
      BY <1>1, <2>2, <2>9 DEF ReportTypes, Moves
    <3> QED
      BY <1>1, <2>4, <3>1, OthersKeep DEF ReportInv
  <2>10. DeliveredOnce'
    <3> SUFFICES ASSUME NEW e \in Directories, told[e] # {}
                 PROVE  told[e] = {files'[e][Receipt]} /\ Receipt \in onDisk[e]
      BY <1>1, <2>2 DEF DeliveredOnce
    <3>1. told[e] = {files[e][Receipt]} /\ Receipt \in onDisk[e] /\ Receipt \in Names
      BY DEF ReportInv, DeliveredOnce, Names, Receipt
    <3>2. files[e][Receipt] # None
      BY <3>1 DEF ReportInv, FilesInv
    <3> QED
      BY <2>4, <3>1, <3>2
  <2> QED
    BY <2>5, <2>6, <2>7, <2>8, <2>9, <2>10 DEF ReportInv
<1> QED
  BY <1>2, <1>3

\* The directory is synced: what is behind grows by one, or the delivery is told.
LEMMA SyncKeeps ==
  ASSUME NEW p \in Publishers, ReportInv, SyncDirectory(p)
  PROVE  ReportInv'
<1> DEFINE d == Place(p)
           n == Name(p)
<1>1. /\ run[p].at = "sync" /\ run[p].todo # <<>> /\ run[p].todo \in Seq(Names)
      /\ UNCHANGED <<prefix, evidence, files, faults>>
      /\ onDisk' = [onDisk EXCEPT ![d] = Linked(d)]
      /\ DeliveryInv(p) /\ ReportTypes /\ FilesInv
  BY DEF SyncDirectory, ReportInv, DeliveryInv, ReportTypes
<1>2. /\ d \in Directories /\ d = Directory(run[p].report) /\ n \in Names
      /\ n = Receipt => BytesFor(p) \in Receipts /\ run[p].mine \in Receipts
      /\ n # Receipt => BytesFor(p) \in Reports
      /\ files[d][n] = BytesFor(p)
  BY <1>1, BytesType DEF DeliveryInv
<1>3. /\ Linked(d) \in SUBSET Names /\ n \in Linked(d) /\ onDisk[d] \subseteq Linked(d)
      /\ \A m \in Linked(d) : files[d][m] # None
  BY <1>1, <1>2, ReportAssumption DEF Linked, FilesInv
<1>4. /\ FilesInv'
      /\ \A e \in Directories : onDisk[e] \subseteq onDisk'[e]
      /\ onDisk'[d] = Linked(d)
  <2> HIDE DEF d
  <2>1. /\ onDisk' \in [Directories -> SUBSET Names]
        /\ \A e \in Directories : onDisk'[e] = IF e = d THEN Linked(d) ELSE onDisk[e]
    BY <1>1, <1>2, <1>3 DEF FilesInv
  <2> QED
    BY <1>1, <1>2, <1>3, <2>1 DEF FilesInv
<1>5. CrownInv'
  BY <1>1, <1>4 DEF ReportInv, CrownInv
<1>6. ASSUME NEW q \in Publishers, q # p, run'[q] = run[q] PROVE DeliveryInv(q)'
  BY <1>1, <1>4, <1>6, OthersKeep DEF ReportInv
<1>7. CASE n = Receipt
  <2>1. run' = [run EXCEPT ![p] = Idle] /\ told' = [told EXCEPT ![d] = @ \cup {run[p].mine}]
    BY <1>7 DEF SyncDirectory, Passes
  <2> HIDE DEF d, n
  <2>2. BytesFor(p) = run[p].mine
    BY <1>7 DEF BytesFor, n
  <2>3. ReportTypes' /\ run'[p].at = "idle" /\ \A q \in Publishers \ {p} : run'[q] = run[q]
    <3>1. Idle \in [at : Running, report : Reports \cup {None}, todo : Seq(Names),
                    mine : Receipts \cup {None}]
      BY DEF Idle, Running
    <3>2. Idle.at = "idle"
      BY DEF Idle
    <3> QED
      BY <1>1, <1>2, <1>7, <2>1, <3>1, <3>2 DEF ReportTypes
  <2>4. DeliveredOnce'
    <3> SUFFICES ASSUME NEW e \in Directories, told'[e] # {}
                 PROVE  told'[e] = {files[e][Receipt]} /\ Receipt \in onDisk'[e]
      BY <1>1 DEF DeliveredOnce
    <3>1. CASE e # d
      BY <1>1, <1>4, <2>1, <3>1 DEF ReportInv, DeliveredOnce, ReportTypes
    <3>2. CASE e = d
      <4>1. told'[d] = told[d] \cup {run[p].mine} /\ files[d][Receipt] = run[p].mine
        BY <1>1, <1>2, <1>7, <2>1, <2>2 DEF ReportTypes
      <4>2. told[d] = {} \/ told[d] = {files[d][Receipt]}
        BY <1>2 DEF ReportInv, DeliveredOnce
      <4> QED
        BY <1>3, <1>4, <1>7, <3>2, <4>1, <4>2
    <3> QED
      BY <3>1, <3>2
  <2> QED
    BY <1>4, <1>5, <1>6, <2>3, <2>4 DEF ReportInv, DeliveryInv
<1>8. CASE n # Receipt
  <2>1. run' = [run EXCEPT ![p].at = "file", ![p].todo = Tail(@)] /\ UNCHANGED told
    BY <1>8 DEF SyncDirectory, Passes
  <2> HIDE DEF d, n
  <2>2. /\ Tail(run[p].todo) \in Seq(Names)
        /\ Missing(run[p].todo) = {n} \cup Missing(Tail(run[p].todo))
    BY <1>1, HeadIsMissing DEF n, Name
  <2>3. /\ ReportTypes' /\ \A q \in Publishers \ {p} : run'[q] = run[q]
        /\ run'[p].at = "file" /\ run'[p].report = run[p].report /\ run'[p].mine = run[p].mine
        /\ run'[p].todo = Tail(run[p].todo)
    BY <1>1, <2>1, <2>2 DEF ReportTypes, Running
  <2>4. Place(p)' = d
    BY <2>3 DEF Place, d
  <2>5. Receipt \notin Missing(run[p].todo)
    <3>1. Head(<<Receipt>>) = Receipt
      OBVIOUS
    <3> QED
      BY <1>1, <1>8, <3>1 DEF DeliveryInv, n, Name
  <2>6. DeliveryInv(p)'
    BY <1>1, <1>3, <1>4, <2>2, <2>3, <2>4, <2>5 DEF DeliveryInv, d
  <2>7. DeliveredOnce'
    BY <1>1, <1>4, <2>1 DEF ReportInv, DeliveredOnce
  <2> QED
    BY <1>4, <1>5, <1>6, <2>3, <2>6, <2>7 DEF ReportInv
<1> QED
  BY <1>7, <1>8

\* The report is behind: a receipt is chosen, the one in sight or a new one.
LEMMA DeliverKeeps ==
  ASSUME NEW p \in Publishers, ReportInv, Deliver(p)
  PROVE  ReportInv'
<1>1. /\ run[p].at = "file" /\ run[p].todo = <<>> /\ DeliveryInv(p) /\ ReportTypes /\ FilesInv
      /\ UNCHANGED <<prefix, evidence, shelf, told, faults>>
  BY DEF Deliver, ReportInv
<1>2. Place(p) \in Directories /\ Receipt \in Names
  BY <1>1, PlaceType DEF Names, Receipt
<1>3. CASE Moves(p, "failed")
  BY <1>1, <1>3, MovesKeeps DEF Running
<1>4. ASSUME NEW receipt \in Receipts, run' = [run EXCEPT ![p].mine = receipt, ![p].todo = <<Receipt>>]
      PROVE  ReportInv'
  <2> DEFINE new == [run[p] EXCEPT !.mine = receipt, !.todo = <<Receipt>>]
  <2>1. run' = [run EXCEPT ![p] = new]
    BY <1>4
  <2>2. run[p] \in [at : Running, report : Reports \cup {None}, todo : Seq(Names),
                    mine : Receipts \cup {None}]
    BY <1>1 DEF ReportTypes
  <2>3. /\ new.at = "file" /\ new.report = run[p].report /\ new.todo = <<Receipt>> /\ new.mine = receipt
        /\ new \in [at : Running, report : Reports \cup {None}, todo : Seq(Names),
                    mine : Receipts \cup {None}]
    BY <1>1, <2>2, OnlyReceipt
  <2>4. run'[p] = new
    BY <1>1, <2>1 DEF ReportTypes
  <2> HIDE DEF new
  <2>5. Required(Place(p)) \subseteq onDisk[Place(p)]
    <3>1. Missing(run[p].todo) = {}
      <4>1. Len(run[p].todo) = 0
        BY <1>1
      <4> QED
        BY <4>1 DEF Missing
    <3> QED
      BY <1>1, <3>1 DEF DeliveryInv
  <2>6. DeliveryInv(p)'
    <3>1. Place(p)' = Place(p)
      BY <2>3, <2>4 DEF Place
    <3> QED
      BY <1>1, <2>3, <2>4, <2>5, <3>1, OnlyReceipt DEF DeliveryInv, shelf
  <2> QED
    BY <1>1, <2>1, <2>3, <2>6, QuietStep
<1>5. files[Place(p)][Receipt] # None => files[Place(p)][Receipt] \in Receipts
  BY <1>1, <1>2 DEF FilesInv
<1>6. Now(p) \in Receipts
  BY <1>1 DEF Now, Receipts, ReportTypes
<1> QED
  BY <1>3, <1>4, <1>5, <1>6 DEF Deliver

LEMMA AdoptKeeps ==
  ASSUME NEW p \in Publishers, ReportInv, Adopt(p)
  PROVE  ReportInv'
<1> DEFINE there == files[Place(p)][Receipt]
<1>1. /\ run[p].at = "conflict" /\ run[p].todo # <<>> /\ DeliveryInv(p) /\ ReportTypes /\ FilesInv
      /\ UNCHANGED <<prefix, evidence, shelf, told, faults>>
  BY DEF Adopt, ReportInv, DeliveryInv
<1>2. Place(p) \in Directories /\ Receipt \in Names
  BY <1>1, PlaceType DEF Names, Receipt
<1>3. CASE Moves(p, "failed")
  BY <1>1, <1>3, MovesKeeps DEF Running
<1>4. CASE there # None /\ run' = [run EXCEPT ![p].mine = there, ![p].at = "file"]
  <2> DEFINE new == [run[p] EXCEPT !.mine = there, !.at = "file"]
  <2>1. run' = [run EXCEPT ![p] = new]
    BY <1>4
  <2>2. run[p] \in [at : Running, report : Reports \cup {None}, todo : Seq(Names),
                    mine : Receipts \cup {None}]
    BY <1>1 DEF ReportTypes
  <2>3. there \in Receipts
    BY <1>1, <1>2, <1>4 DEF FilesInv
  <2>4. /\ new.at = "file" /\ new.report = run[p].report /\ new.todo = run[p].todo /\ new.mine = there
        /\ new \in [at : Running, report : Reports \cup {None}, todo : Seq(Names),
                    mine : Receipts \cup {None}]
    BY <2>2, <2>3 DEF Running
  <2>5. run'[p] = new
    BY <1>1, <2>1 DEF ReportTypes
  <2> HIDE DEF new, there
  <2>6. DeliveryInv(p)'
    <3>1. Place(p)' = Place(p)
      BY <2>4, <2>5 DEF Place
    <3> QED
      BY <1>1, <2>3, <2>4, <2>5, <3>1 DEF DeliveryInv, shelf
  <2> QED
    BY <1>1, <2>1, <2>4, <2>6, QuietStep
<1> QED
  BY <1>3, <1>4 DEF Adopt

LEMMA FailsKeeps ==
  ASSUME NEW p \in Publishers, ReportInv, Fails(p)
  PROVE  ReportInv'
<1>1. /\ Idle \in [at : Running, report : Reports \cup {None}, todo : Seq(Names),
                   mine : Receipts \cup {None}]
      /\ Idle.at = "idle"
  BY DEF Idle, Running
<1>2. run' = [run EXCEPT ![p] = Idle] /\ run'[p] = Idle
  BY DEF Fails, ReportInv, ReportTypes
<1>3. DeliveryInv(p)'
  BY <1>1, <1>2 DEF DeliveryInv
<1> QED
  BY <1>1, <1>2, <1>3, QuietStep DEF Fails

----
(* The status command, the journal and the host. *)

LEMMA StatusKeeps ==
  ASSUME ReportInv, Status
  PROVE  ReportInv'
<1> DEFINE r == [at |-> prefix, whole |-> evidence]
           d == Directory(r)
<1>1. r \in Reports /\ d \in Directories
  <2>1. r \in Reports
    BY ReportAssumption DEF Status, ReportInv, ReportTypes, Reports
  <2> QED
    BY <2>1, DirectoryType
<1>2. /\ files[d][Receipt] # None
      /\ onDisk' = [onDisk EXCEPT ![d] = Linked(d)]
      /\ told' = [told EXCEPT ![d] = @ \cup {files[d][Receipt]}]
      /\ UNCHANGED <<prefix, evidence, files, run, faults>>
      /\ ReportTypes /\ FilesInv /\ CrownInv
  BY DEF Status, ReportInv
<1> HIDE DEF d
<1>3. /\ Linked(d) \in SUBSET Names /\ Receipt \in Linked(d) /\ onDisk[d] \subseteq Linked(d)
      /\ \A m \in Linked(d) : files[d][m] # None
      /\ files[d][Receipt] \in Receipts
  BY <1>1, <1>2 DEF Linked, FilesInv, Names, Receipt
<1>4. /\ onDisk' \in [Directories -> SUBSET Names]
      /\ \A e \in Directories : onDisk'[e] = IF e = d THEN Linked(d) ELSE onDisk[e]
  BY <1>1, <1>2, <1>3 DEF FilesInv
<1>5. FilesInv' /\ \A e \in Directories : onDisk[e] \subseteq onDisk'[e]
  BY <1>2, <1>3, <1>4 DEF FilesInv
<1>6. CrownInv'
  BY <1>2, <1>5 DEF CrownInv
<1>7. ReportTypes'
  BY <1>1, <1>2, <1>3 DEF ReportTypes
<1>8. \A q \in Publishers : DeliveryInv(q)'
  BY <1>2, <1>5, OthersKeep DEF ReportInv
<1>9. DeliveredOnce'
  <2> SUFFICES ASSUME NEW e \in Directories, told'[e] # {}
               PROVE  told'[e] = {files[e][Receipt]} /\ Receipt \in onDisk'[e]
    BY <1>2 DEF DeliveredOnce
  <2>1. CASE e # d
    BY <1>2, <1>4, <2>1 DEF ReportInv, DeliveredOnce, ReportTypes
  <2>2. CASE e = d
    <3>1. told'[d] = told[d] \cup {files[d][Receipt]}
      BY <1>1, <1>2 DEF ReportTypes
    <3>2. told[d] = {} \/ told[d] = {files[d][Receipt]}
      BY <1>1 DEF ReportInv, DeliveredOnce
    <3> QED
      BY <1>3, <1>4, <2>2, <3>1, <3>2
  <2> QED
    BY <2>1, <2>2
<1> QED
  BY <1>5, <1>6, <1>7, <1>8, <1>9 DEF ReportInv

LEMMA WorldKeeps ==
  ASSUME ReportInv, Committed \/ EvidenceFails
  PROVE  ReportInv'
<1>1. UNCHANGED <<shelf, run, told>>
  BY DEF Committed, EvidenceFails
<1>2. ReportTypes'
  <2>1. prefix' \in 0 .. Last /\ faults' \in 0 .. MaxFaults
    BY ReportAssumption DEF Committed, EvidenceFails, ReportInv, ReportTypes
  <2>2. evidence' \in BOOLEAN
    BY Zenon DEF Committed, EvidenceFails, ReportInv, ReportTypes
  <2> QED
    BY <1>1, <2>1, <2>2 DEF ReportInv, ReportTypes
<1>3. FilesInv' /\ CrownInv' /\ DeliveredOnce' /\ \A q \in Publishers : DeliveryInv(q)'
  <2>1. FilesInv' /\ CrownInv' /\ DeliveredOnce'
    BY <1>1 DEF shelf, ReportInv, FilesInv, CrownInv, DeliveredOnce
  <2>2. \A q \in Publishers : DeliveryInv(q)'
    BY <1>1, OthersKeep DEF ReportInv, shelf
  <2> QED
    BY <2>1, <2>2
<1> QED
  BY <1>2, <1>3 DEF ReportInv

\* Nothing that was synced is lost, and every publisher is gone.
LEMMA PowerLossKeeps ==
  ASSUME ReportInv, PowerLoss
  PROVE  ReportInv'
<1>1. PICK d \in Directories : \E left \in SUBSET (Linked(d) \ onDisk[d]) :
        /\ files' = [e \in Directories |->
                      [n \in Names |->
                         IF (IF e = d THEN n \in left \cup onDisk[d] ELSE n \in onDisk[e])
                         THEN files[e][n] ELSE None]]
        /\ onDisk' = [onDisk EXCEPT ![d] = left \cup onDisk[d]]
  BY DEF PowerLoss
<1>2. PICK left \in SUBSET (Linked(d) \ onDisk[d]) :
        /\ files' = [e \in Directories |->
                      [n \in Names |->
                         IF (IF e = d THEN n \in left \cup onDisk[d] ELSE n \in onDisk[e])
                         THEN files[e][n] ELSE None]]
        /\ onDisk' = [onDisk EXCEPT ![d] = left \cup onDisk[d]]
  BY <1>1
<1>3. FilesInv /\ ReportTypes /\ CrownInv /\ DeliveredOnce
  BY DEF ReportInv
<1>4. /\ onDisk' \in [Directories -> SUBSET Names]
      /\ \A e \in Directories : onDisk'[e] = IF e = d THEN left \cup onDisk[d] ELSE onDisk[e]
  BY <1>2, <1>3 DEF FilesInv, Linked
<1>5. \A e \in Directories : \A n \in Names :
        files'[e][n] = IF n \in onDisk'[e] THEN files[e][n] ELSE None
  BY <1>2, <1>4
<1>6. \A e \in Directories : \A n \in onDisk'[e] : files[e][n] # None
  BY <1>3, <1>4 DEF FilesInv, Linked
<1>7. FilesInv'
  <2>1. files' = [e \in Directories |-> [n \in Names |-> files'[e][n]]]
    BY <1>2
  <2>2. \A e \in Directories : \A n \in Names : files[e][n] \in Reports \cup Receipts \cup {None}
    BY <1>3 DEF FilesInv
  <2>3. files' \in [Directories -> [Names -> Reports \cup Receipts \cup {None}]]
    BY <1>5, <2>1, <2>2
  <2> QED
    BY <1>3, <1>4, <1>5, <1>6, <2>3 DEF FilesInv
<1>8. CrownInv'
  BY <1>3, <1>4, <1>5 DEF CrownInv, Names, Receipt
<1>9. /\ Idle \in [at : Running, report : Reports \cup {None}, todo : Seq(Names),
                   mine : Receipts \cup {None}]
      /\ Idle.at = "idle"
  BY DEF Idle, Running
<1>10. /\ run' = [p \in Publishers |-> Idle] /\ UNCHANGED <<prefix, evidence, told>>
       /\ faults' = faults + 1 /\ faults < MaxFaults
  BY DEF PowerLoss
<1>11. ReportTypes' /\ \A q \in Publishers : DeliveryInv(q)'
  BY <1>3, <1>9, <1>10, ReportAssumption DEF ReportTypes, DeliveryInv
<1>12. DeliveredOnce'
  BY <1>3, <1>4, <1>5, <1>10 DEF DeliveredOnce, Names, Receipt
<1> QED
  BY <1>7, <1>8, <1>11, <1>12 DEF ReportInv

----
(* The theorem. *)

LEMMA ReportInitInv == ReportInit => ReportInv
<1> SUFFICES ASSUME ReportInit PROVE ReportInv
  OBVIOUS
<1>1. /\ Idle \in [at : Running, report : Reports \cup {None}, todo : Seq(Names),
                   mine : Receipts \cup {None}]
      /\ Idle.at = "idle"
  BY DEF Idle, Running
<1>2. ReportTypes /\ \A q \in Publishers : DeliveryInv(q)
  BY <1>1, ReportAssumption DEF ReportInit, ReportTypes, DeliveryInv
<1>3. FilesInv /\ CrownInv /\ DeliveredOnce
  BY DEF ReportInit, FilesInv, CrownInv, DeliveredOnce, Names, Receipt
<1> QED
  BY <1>2, <1>3 DEF ReportInv

LEMMA ReportStep == ReportInv /\ [ReportNext]_reportVars => ReportInv'
<1> SUFFICES ASSUME ReportInv, [ReportNext]_reportVars PROVE ReportInv'
  OBVIOUS
<1>1. ASSUME NEW p \in Publishers,
             \/ Derive(p) \/ Seal(p) \/ Look(p) \/ Link(p) \/ SyncDirectory(p)
             \/ Deliver(p) \/ Adopt(p) \/ Fails(p)
      PROVE  ReportInv'
  BY <1>1, DeriveKeeps, SealKeeps, LookKeeps, LinkKeeps, SyncKeeps, DeliverKeeps, AdoptKeeps, FailsKeeps
<1>2. CASE Status \/ Committed \/ EvidenceFails \/ PowerLoss
  BY <1>2, StatusKeeps, WorldKeeps, PowerLossKeeps
<1>3. CASE UNCHANGED reportVars
  <2>1. UNCHANGED <<prefix, evidence, shelf, run, told, faults>>
    BY <1>3 DEF reportVars
  <2>2. ReportTypes' /\ FilesInv' /\ CrownInv' /\ DeliveredOnce'
    BY <2>1 DEF shelf, ReportInv, ReportTypes, FilesInv, CrownInv, DeliveredOnce
  <2>3. \A q \in Publishers : DeliveryInv(q)'
    BY <2>1, OthersKeep DEF ReportInv, shelf
  <2> QED
    BY <2>2, <2>3 DEF ReportInv
<1> QED
  BY <1>1, <1>2, <1>3 DEF ReportNext

LEMMA CrownedReports == ReportInv => ReportsAreKept
<1> SUFFICES ASSUME ReportInv, NEW d \in Directories, files[d][Receipt] # None
             PROVE  \E r \in Reports : {files[d][n] : n \in Required(d)} = {r} /\ Directory(r) = d
  BY DEF ReportsAreKept, ReceiptCrownsReport, ReportInv, Required
<1>1. /\ "report.json" \in Required(d) /\ Required(d) \subseteq Names /\ Receipt \notin Required(d)
      /\ Required(d) \subseteq onDisk[d]
  BY DEF Required, Names, Receipt, ReportInv, CrownInv
<1>2. \A n \in Required(d) : files[d][n] \in Reports /\ Directory(files[d][n]) = d
  BY <1>1 DEF ReportInv, FilesInv
<1>3. \A n \in Required(d) : files[d][n] = files[d]["report.json"]
  BY <1>1, <1>2, DirectoryIsOne
<1> QED
  BY <1>1, <1>2, <1>3

\* However many publishers deliver, die and race with each other and whatever an
\* outage drops, a delivery that was shown stays the one on record, and a
\* receipt stands only on a whole report of one derivation.
THEOREM ReportsAreKeptAlways == ReportSpec => []ReportsAreKept
BY ReportInitInv, ReportStep, CrownedReports, PTL DEF ReportSpec

----
(* Attempts: the run in its container. *)

Driven == {"launch", "gauntlet", "capture", "post", "checking"}
Talk == {"project", "converse", "retain", "conversation-post", "appoint", "assess"}
Working == {"cli", "guards", "provision", "setup", "pre", "prepare"} \cup Driven \cup Talk

\* What the phases that are behind have found.
FactsInv ==
  /\ point \in {"prepare"} \cup Driven \cup Talk => facts.pre = "passed"
  /\ point \in Driven => cmd.mode = "qa"
  /\ point \in Talk => cmd.mode = "conversation"
  /\ point \in {"post", "checking"} => facts.capture \notin Refused(cmd.family)
  /\ point \in {"conversation-post", "appoint", "assess"} =>
       facts.conv = "completed" /\ facts.capture \in Available
  /\ point \in {"appoint", "assess"} => facts.post # Null
  /\ signal = "none" \/ point = "checking" => early = FALSE

\* A judgement was earned, and no stop came before the last look for one.
Sound(v) ==
  v # Null /\ v.final \in {"pass", "fail"} =>
    /\ Earned(v.final) /\ facts.layer \in {"pass", "fail"}
    /\ early = FALSE /\ v.stage = Null

VerdictInv ==
  /\ point \in Working => verdict = Null /\ thrown = Null
  /\ point \in {"economics", "accounting", "write", "prune", "bless", "answer"} =>
       verdict # Null /\ thrown = Null
  /\ point \in {"cleanup", "settle"} => verdict # Null \/ thrown # Null
  /\ Sound(verdict)

Unwritten == Working \cup {"economics", "accounting", "cleanup", "settle", "write"}

DiskInv ==
  /\ point \in Unwritten => disk.verdict = Null /\ disk.manifest = Null
  /\ point \in {"prune", "bless", "answer"} => disk.verdict = verdict
  /\ point \in {"stop-prune", "stop-bless"} => disk.verdict = Indeterminate("stopped")
  /\ point = "answer" /\ cmd.campaign => disk.manifest # Null
  /\ disk.manifest # Null => disk.verdict # Null
  /\ Sound(disk.verdict)

ExitInv ==
  /\ exit # Null => point \in {"finish", "over", "killed"}
  /\ AnswerAgrees

RunInv == RunTypeOK /\ FactsInv /\ VerdictInv /\ DiskInv /\ ExitInv

LEMMA Distinct ==
  /\ Null \notin Verdicts \cup Stages \cup Layers \cup Phases \cup Disks
  /\ Null # "current" /\ Null # "stale" /\ Null # "0" /\ Null # "1" /\ Null # "2" /\ Null # "thrown"
BY AttemptAssumption

LEMMA CommandShape ==
  ASSUME NEW c \in Commands
  PROVE  c \in [mode : {"qa", "conversation"}, family : Families,
                campaign : BOOLEAN, covered : BOOLEAN, trace : BOOLEAN]
BY AttemptAssumption

LEMMA IndeterminateType ==
  ASSUME NEW stage \in Stages \cup {Null}
  PROVE  /\ Indeterminate(stage) \in Verdicts
         /\ Indeterminate(stage).final = "indeterminate" /\ Indeterminate(stage).stage = stage
BY DEF Indeterminate, Verdicts, Finals

LEMMA ComposeType ==
  ASSUME NEW error \in Stages \cup {Null}, NEW f \in Facts
  PROVE  LET v == Compose(error, f)
         IN  /\ v \in Verdicts
             /\ v.final \in {"pass", "fail"} =>
                  /\ error = Null /\ ~Unjudged(f) /\ ~f.drift /\ v.stage = Null
                  /\ v.final = "pass" <=> f.layer = "pass" /\ f.post = "passed"
<1>1. CASE error # Null
  BY <1>1, IndeterminateType DEF Compose
<1>2. CASE error = Null /\ Unjudged(f)
  BY <1>2, IndeterminateType DEF Compose
<1>3. CASE error = Null /\ ~Unjudged(f) /\ f.drift
  BY <1>3, IndeterminateType DEF Compose, Stages
<1>4. CASE error = Null /\ ~Unjudged(f) /\ ~f.drift
  BY <1>4 DEF Compose, Verdicts, Finals
<1> QED
  BY <1>1, <1>2, <1>3, <1>4

LEMMA ErrorIsIndeterminate ==
  ASSUME NEW error \in Stages, NEW f
  PROVE  Compose(error, f) \in Verdicts /\ Compose(error, f).final = "indeterminate"
BY Distinct, IndeterminateType DEF Compose

LEMMA ComposedIsSound ==
  ASSUME facts' \in Facts, NEW error \in Stages \cup {Null},
         verdict' = Compose(error, facts'), early' = FALSE,
         error = Null =>
           /\ facts'.pre = "passed" /\ facts'.post \in {"passed", "failed"}
           /\ cmd'.mode = "qa" => facts'.capture \notin Refused(cmd'.family)
           /\ cmd'.mode = "conversation" =>
                facts'.conv = "completed" /\ facts'.assessed /\ facts'.capture \in Available
  PROVE  Sound(verdict)'
<1> SUFFICES ASSUME verdict'.final \in {"pass", "fail"}
             PROVE  /\ Earned(verdict.final)' /\ facts'.layer \in {"pass", "fail"}
                    /\ verdict'.stage = Null
  BY DEF Sound
<1>1. /\ error = Null /\ ~Unjudged(facts') /\ ~facts'.drift /\ verdict'.stage = Null
      /\ verdict'.final = "pass" <=> facts'.layer = "pass" /\ facts'.post = "passed"
  BY ComposeType
<1>2. facts'.layer \in {"pass", "fail"} /\ (facts'.trace => facts'.capture \in Available)
  BY <1>1 DEF Unjudged
<1> QED
  BY <1>1, <1>2 DEF Earned

LEMMA SwitchesKept ==
  ASSUME Switches, RunNext
  PROVE  Switches'
<1> USE DEF Switches, Goto, Return, Throw, Proceed, Continue, Halt, StoppedError, Employ,
        Conclude, Cancelled, Turn, StopSeen, control, stop, work, outcome
<1>1. CASE Refuse
  BY <1>1 DEF Refuse
<1>2. CASE Begin
  BY <1>2 DEF Begin
<1>3. CASE Guards
  BY <1>3 DEF Guards
<1>4. CASE Provision
  BY <1>4 DEF Provision
<1>5. CASE Setup
  BY <1>5 DEF Setup
<1>6. CASE PreChecks
  BY <1>6 DEF PreChecks, Phases
<1>7. CASE Prepare
  BY <1>7 DEF Prepare
<1>8. CASE Launch
  BY <1>8 DEF Launch
<1>9. CASE GauntletEnds
  BY <1>9 DEF GauntletEnds
<1>10. CASE Capture
  BY <1>10 DEF Capture
<1>33. CASE LastLook
  BY <1>33 DEF LastLook
<1>11. CASE PostChecks
  BY <1>11 DEF PostChecks, Checked, PostStage, Phases
<1>12. CASE Economics
  BY <1>12 DEF Economics
<1>13. CASE Project
  BY <1>13 DEF Project
<1>14. CASE Deadline
  BY <1>14 DEF Deadline
<1>15. CASE ConversationEnds
  BY <1>15 DEF ConversationEnds
<1>16. CASE Retain
  BY <1>16 DEF Retain
<1>17. CASE ConversationPost
  BY <1>17 DEF ConversationPost, Checked, Phases
<1>18. CASE Appoint
  BY <1>18 DEF Appoint
<1>19. CASE AssessmentEnds
  BY <1>19 DEF AssessmentEnds, CheckError
<1>20. CASE Accounting
  BY <1>20 DEF Accounting
<1>21. CASE Cleanup
  BY <1>21 DEF Cleanup
<1>22. CASE Settle
  BY <1>22 DEF Settle
<1>23. CASE WriteVerdict
  BY <1>23 DEF WriteVerdict
<1>24. CASE Unbless
  BY <1>24 DEF Unbless
<1>25. CASE BlessVerdict
  BY <1>25 DEF BlessVerdict, Bless
<1>26. CASE Answer
  BY <1>26 DEF Answer
<1>27. CASE StopVerdict
  BY <1>27 DEF StopVerdict, StopExit, Rewritten
<1>28. CASE BlessStopped
  BY <1>28 DEF BlessStopped, Bless, StopExit
<1>29. CASE Finish
  BY <1>29 DEF Finish
<1>30. CASE Signal
  BY <1>30 DEF Signal, LooksNoMore, Alive
<1>31. CASE OnStop
  BY <1>31 DEF OnStop, Awaits
<1>32. CASE Perish
  BY <1>32 DEF Perish, Alive
<1> QED
  BY <1>1, <1>2, <1>3, <1>4, <1>5, <1>6, <1>7, <1>8, <1>9, <1>10, <1>11, <1>12, <1>13, <1>14,
      <1>15, <1>16, <1>17, <1>18, <1>19, <1>20, <1>21, <1>22, <1>23, <1>24, <1>25, <1>26, <1>27,
      <1>28, <1>29, <1>30, <1>31, <1>32, <1>33 DEF RunNext, RunStep

LEMMA CaptureTypes ==
  ASSUME RunTypes, VerdictInv, Capture
  PROVE  RunTypes'
<1>1. facts' \in Facts
  BY AttemptAssumption DEF Capture, RunTypes, Facts
<1>2. CascadeStage(cmd.family, facts'.capture) \in Stages \cup {Null}
  BY DEF CascadeStage, Stages
<1>3. /\ verdict' \in Verdicts \cup {Null} /\ thrown' \in Stages \cup {Null}
      /\ point' \in {"post", "cleanup"} /\ UNCHANGED <<cmd, exit>>
  <2> DEFINE stage == CascadeStage(cmd.family, facts'.capture)
  <2>1. Indeterminate(stage) \in Verdicts /\ Indeterminate("capture") \in Verdicts
    BY <1>2, IndeterminateType DEF Stages
  <2> HIDE DEF stage
  <2>2. \/ Proceed("post") \/ Return(Indeterminate(stage)) \/ Return(Indeterminate("capture"))
        \/ Throw("unknown")
    BY DEF Capture, stage
  <2> QED
    BY <2>1, <2>2 DEF Return, Throw, Proceed, Goto, outcome, RunTypes, Stages
<1> QED
  BY <1>1, <1>3 DEF Capture, stop, RunTypes

LEMMA PostChecksTypes ==
  ASSUME RunTypes, VerdictInv, PostChecks
  PROVE  RunTypes'
<1>1. facts' \in Facts
  BY DEF PostChecks, Checked, work, RunTypes, Facts
<1>2. PostStage(facts') \in Stages \cup {Null}
  BY DEF PostStage, Stages
<1>3. Compose(PostStage(facts'), facts') \in Verdicts
  BY <1>1, <1>2, ComposeType
<1>4. /\ verdict' \in Verdicts \cup {Null} /\ thrown' \in Stages \cup {Null}
      /\ point' \in {"economics", "cleanup"} /\ UNCHANGED <<cmd, exit>>
  <2>1. \/ Throw("unknown")
        \/ /\ verdict' = Compose(PostStage(facts'), facts') /\ UNCHANGED thrown
           /\ Goto("economics") \/ Goto("cleanup")
    BY DEF PostChecks
  <2> QED
    BY <1>3, <2>1 DEF Throw, Goto, RunTypes, Stages
<1>5. signal' \in {"none", "pending", "recorded"} /\ UNCHANGED <<cause, secret>>
  BY DEF PostChecks, Checked, stop, work, RunTypes
<1> QED
  BY <1>1, <1>4, <1>5 DEF PostChecks, RunTypes

LEMMA RetainTypes ==
  ASSUME RunTypes, VerdictInv, Retain
  PROVE  RunTypes'
<1>1. facts' \in Facts
  BY AttemptAssumption DEF Retain, RunTypes, Facts
<1>2. \A stage \in {"gauntlet", "capture"} : Compose(stage, facts') \in Verdicts
  BY <1>1, ComposeType DEF Stages
<1> QED
  BY <1>1, <1>2, IndeterminateType
  DEF Retain, Turn, Cancelled, Conclude, Proceed, Goto, outcome, RunTypes, Stages

LEMMA ConversationPostTypes ==
  ASSUME RunTypes, VerdictInv, ConversationPost
  PROVE  RunTypes'
<1>1. facts' \in Facts
  BY DEF ConversationPost, Halt, Checked, work, RunTypes, Facts
<1>2. Compose("checks", facts') \in Verdicts
  BY <1>1, ComposeType DEF Stages
<1>3. /\ verdict' \in Verdicts \cup {Null} /\ thrown' \in Stages \cup {Null}
      /\ point' \in {"appoint", "accounting"} /\ UNCHANGED <<cmd, exit>>
  <2>1. Cancelled \/ Proceed("appoint") \/ Conclude("checks")
    BY DEF ConversationPost, Halt
  <2> QED
    BY <1>2, <2>1, IndeterminateType DEF Cancelled, Conclude, Proceed, Goto, outcome, RunTypes, Stages
<1>4. signal' \in {"none", "pending", "recorded"} /\ UNCHANGED <<cause, secret>>
  BY DEF ConversationPost, Halt, Continue, Checked, work, RunTypes
<1> QED
  BY <1>1, <1>3, <1>4 DEF ConversationPost, RunTypes

LEMMA AssessmentEndsTypes ==
  ASSUME RunTypes, VerdictInv, AssessmentEnds
  PROVE  RunTypes'
<1>1. facts' \in Facts
  BY DEF AssessmentEnds, RunTypes, Facts
<1>2. /\ CheckError(facts') \in Stages \cup {Null}
      /\ \A stage \in Stages \cup {Null} : Compose(stage, facts') \in Verdicts
  BY <1>1, ComposeType DEF CheckError, Stages
<1> QED
  BY <1>1, <1>2, IndeterminateType
  DEF AssessmentEnds, Turn, Cancelled, Conclude, Goto, RunTypes, Stages

LEMMA AnswerTypes ==
  ASSUME RunTypes, VerdictInv, Answer
  PROVE  RunTypes'
<1>1. point = "answer" => ExitCode(verdict) \in {"0", "1", "2"}
  BY DEF RunTypes, VerdictInv, ExitCode, Verdicts, Finals
<1> QED
  BY <1>1 DEF Answer, Goto, stop, work, outcome, RunTypes

LEMMA TypesKept ==
  ASSUME RunTypes, VerdictInv, RunNext
  PROVE  RunTypes'
<1> USE Distinct, CommandShape, IndeterminateType, ComposeType DEF RunTypes, Disks, Facts, Layers,
        Stages, Goto, Return, Throw, Proceed, Continue, Halt, StoppedError, Employ, Conclude,
        Cancelled, Turn, StopSeen, control, stop, work, outcome
<1>1. CASE Refuse
  BY <1>1 DEF Refuse
<1>2. CASE Begin
  BY <1>2 DEF Begin
<1>3. CASE Guards
  BY <1>3 DEF Guards
<1>4. CASE Provision
  BY <1>4 DEF Provision
<1>5. CASE Setup
  BY <1>5 DEF Setup
<1>6. CASE PreChecks
  BY <1>6 DEF PreChecks, Phases
<1>7. CASE Prepare
  BY <1>7 DEF Prepare
<1>8. CASE Launch
  BY <1>8 DEF Launch
<1>9. CASE GauntletEnds
  BY <1>9 DEF GauntletEnds
<1>10. CASE Capture
  BY <1>10, CaptureTypes
<1>33. CASE LastLook
  BY <1>33 DEF LastLook
<1>11. CASE PostChecks
  BY <1>11, PostChecksTypes
<1>12. CASE Economics
  BY <1>12 DEF Economics
<1>13. CASE Project
  BY <1>13 DEF Project
<1>14. CASE Deadline
  BY <1>14 DEF Deadline
<1>15. CASE ConversationEnds
  BY <1>15 DEF ConversationEnds
<1>16. CASE Retain
  BY <1>16, RetainTypes
<1>17. CASE ConversationPost
  BY <1>17, ConversationPostTypes
<1>18. CASE Appoint
  BY <1>18 DEF Appoint
<1>19. CASE AssessmentEnds
  BY <1>19, AssessmentEndsTypes
<1>20. CASE Accounting
  BY <1>20 DEF Accounting
<1>21. CASE Cleanup
  BY <1>21 DEF Cleanup
<1>22. CASE Settle
  BY <1>22 DEF Settle
<1>23. CASE WriteVerdict
  BY <1>23 DEF WriteVerdict
<1>24. CASE Unbless
  BY <1>24 DEF Unbless
<1>25. CASE BlessVerdict
  BY <1>25 DEF BlessVerdict, Bless
<1>26. CASE Answer
  BY <1>26, AnswerTypes
<1>27. CASE StopVerdict
  BY <1>27 DEF StopVerdict, StopExit, Rewritten
<1>28. CASE BlessStopped
  BY <1>28 DEF BlessStopped, Bless, StopExit
<1>29. CASE Finish
  BY <1>29 DEF Finish
<1>30. CASE Signal
  BY <1>30 DEF Signal, LooksNoMore, Alive
<1>31. CASE OnStop
  BY <1>31 DEF OnStop, Awaits
<1>32. CASE Perish
  BY <1>32 DEF Perish, Alive
<1> QED
  BY <1>1, <1>2, <1>3, <1>4, <1>5, <1>6, <1>7, <1>8, <1>9, <1>10, <1>11, <1>12, <1>13, <1>14,
      <1>15, <1>16, <1>17, <1>18, <1>19, <1>20, <1>21, <1>22, <1>23, <1>24, <1>25, <1>26, <1>27,
      <1>28, <1>29, <1>30, <1>31, <1>32, <1>33 DEF RunNext, RunStep

LEMMA FactsKept ==
  ASSUME RunTypes, FactsInv, RunNext
  PROVE  FactsInv'
<1> USE Distinct, CommandShape DEF RunTypes, Facts, FactsInv, Driven, Talk, CascadeStage, Stages,
        Goto, Return, Throw, Proceed, Continue, Halt, StoppedError, Employ, Conclude, Cancelled,
        Turn, StopSeen, control, stop, work, outcome
<1>1. CASE Refuse
  BY <1>1 DEF Refuse
<1>2. CASE Begin
  BY <1>2 DEF Begin
<1>3. CASE Guards
  BY <1>3 DEF Guards
<1>4. CASE Provision
  BY <1>4 DEF Provision
<1>5. CASE Setup
  BY <1>5 DEF Setup
<1>6. CASE PreChecks
  BY <1>6 DEF PreChecks, Phases
<1>7. CASE Prepare
  BY <1>7 DEF Prepare
<1>8. CASE Launch
  BY <1>8 DEF Launch
<1>9. CASE GauntletEnds
  BY <1>9 DEF GauntletEnds
<1>10. CASE Capture
  BY <1>10 DEF Capture
<1>33. CASE LastLook
  BY <1>33 DEF LastLook
<1>11. CASE PostChecks
  BY <1>11 DEF PostChecks, Checked, PostStage, Phases
<1>12. CASE Economics
  BY <1>12 DEF Economics
<1>13. CASE Project
  BY <1>13 DEF Project
<1>14. CASE Deadline
  BY <1>14 DEF Deadline
<1>15. CASE ConversationEnds
  BY <1>15 DEF ConversationEnds
<1>16. CASE Retain
  BY <1>16 DEF Retain
<1>17. CASE ConversationPost
  BY <1>17 DEF ConversationPost, Checked, Phases
<1>18. CASE Appoint
  BY <1>18 DEF Appoint
<1>19. CASE AssessmentEnds
  BY <1>19 DEF AssessmentEnds, CheckError
<1>20. CASE Accounting
  BY <1>20 DEF Accounting
<1>21. CASE Cleanup
  BY <1>21 DEF Cleanup
<1>22. CASE Settle
  BY <1>22 DEF Settle
<1>23. CASE WriteVerdict
  BY <1>23 DEF WriteVerdict
<1>24. CASE Unbless
  BY <1>24 DEF Unbless
<1>25. CASE BlessVerdict
  BY <1>25 DEF BlessVerdict, Bless
<1>26. CASE Answer
  BY <1>26 DEF Answer
<1>27. CASE StopVerdict
  BY <1>27 DEF StopVerdict, StopExit, Rewritten
<1>28. CASE BlessStopped
  BY <1>28 DEF BlessStopped, Bless, StopExit
<1>29. CASE Finish
  BY <1>29 DEF Finish
<1>30. CASE Signal
  BY <1>30 DEF Signal, LooksNoMore, Alive
<1>31. CASE OnStop
  BY <1>31 DEF OnStop, Awaits
<1>32. CASE Perish
  BY <1>32 DEF Perish, Alive
<1> QED
  BY <1>1, <1>2, <1>3, <1>4, <1>5, <1>6, <1>7, <1>8, <1>9, <1>10, <1>11, <1>12, <1>13, <1>14,
      <1>15, <1>16, <1>17, <1>18, <1>19, <1>20, <1>21, <1>22, <1>23, <1>24, <1>25, <1>26, <1>27,
      <1>28, <1>29, <1>30, <1>31, <1>32, <1>33 DEF RunNext, RunStep

LEMMA PreChecksVerdict ==
  ASSUME RunTypes, FactsInv, VerdictInv, RunTypes', PreChecks
  PROVE  VerdictInv'
<1>1. CASE Throw("stopped") \/ Throw("unknown") \/ Proceed("prepare")
  BY <1>1, Distinct
  DEF PreChecks, Throw, Proceed, Goto, outcome, VerdictInv, Sound, Working, Driven, Talk, Stages
<1>2. CASE Return(Compose("checks", facts'))
  <2>1. Compose("checks", facts') \in Verdicts /\ Compose("checks", facts').final = "indeterminate"
    BY Distinct, ErrorIsIndeterminate DEF Stages
  <2> QED
    BY <1>2, <2>1, Distinct DEF Return, Goto, VerdictInv, Sound, Working, Driven, Talk
<1>3. CASE facts'.pre = "failed" /\ Return(Compose(Null, facts'))
  <2>1. Unjudged(facts')
    BY <1>3 DEF Unjudged
  <2>2. facts' \in Facts
    BY DEF RunTypes
  <2>3. Compose(Null, facts') \in Verdicts /\ Compose(Null, facts').final = "indeterminate"
    BY <2>1, <2>2, ComposeType, IndeterminateType DEF Compose
  <2> QED
    BY <1>3, <2>3, Distinct DEF Return, Goto, VerdictInv, Sound, Working, Driven, Talk
<1>4. ASSUME NEW pre \in Phases, facts' = [facts EXCEPT !.pre = pre]
      PROVE  facts'.pre = pre
  BY <1>4 DEF RunTypes, Facts
<1> QED
  BY <1>1, <1>2, <1>3, <1>4 DEF PreChecks, Halt, StoppedError, Phases

LEMMA CaptureVerdict ==
  ASSUME RunTypes, FactsInv, VerdictInv, RunTypes', Capture
  PROVE  VerdictInv'
<1> DEFINE stage == CascadeStage(cmd.family, facts'.capture)
<1>1. stage \in Stages \cup {Null}
  BY DEF CascadeStage, Stages
<1>2. \/ stage = Null /\ Proceed("post")
      \/ stage # Null /\ Return(Indeterminate(stage))
      \/ Return(Indeterminate("capture"))
      \/ Throw("unknown")
  BY DEF Capture
<1> HIDE DEF stage
<1>3. \/ verdict' = Null /\ thrown' = Null /\ point' = "post"
      \/ verdict' = Null /\ thrown' # Null /\ point' = "cleanup"
      \/ verdict' # Null /\ verdict'.final = "indeterminate" /\ point' = "cleanup"
  BY <1>1, <1>2, Distinct, IndeterminateType
  DEF Capture, Return, Throw, Proceed, Goto, outcome, VerdictInv, Working, Driven, Stages
<1> QED
  BY <1>3 DEF VerdictInv, Sound, Working, Driven, Talk

LEMMA PostChecksVerdict ==
  ASSUME RunTypes, FactsInv, VerdictInv, RunTypes', PostChecks
  PROVE  VerdictInv'
<1>1. CASE Throw("unknown")
  BY <1>1, Distinct DEF PostChecks, stop, work, Throw, Goto, VerdictInv, Sound, Working, Driven, Talk, Stages
<1>2. CASE Checked /\ verdict' = Compose(PostStage(facts'), facts') /\ UNCHANGED thrown
           /\ (Goto("economics") \/ Goto("cleanup"))
  <2>1. /\ facts' \in Facts /\ PostStage(facts') \in Stages \cup {Null}
        /\ PostStage(facts') = Null => facts'.post \in {"passed", "failed"}
    BY <1>2, Distinct DEF RunTypes, PostStage, Stages, Checked, Phases, Facts
  <2>2. /\ facts'.pre = "passed" /\ facts'.capture \notin Refused(cmd'.family) /\ cmd'.mode = "qa"
        /\ early' = FALSE
    BY <1>2 DEF PostChecks, FactsInv, Driven, RunTypes, Facts, Checked, Goto, stop
  <2>3. verdict' \in Verdicts
    BY <1>2, <2>1, ComposeType
  <2>4. Sound(verdict)'
    BY <1>2, <2>1, <2>2, ComposedIsSound
  <2> QED
    BY <1>2, <2>3, <2>4, Distinct DEF PostChecks, Goto, VerdictInv, Working, Driven, Talk
<1> QED
  BY <1>1, <1>2 DEF PostChecks

LEMMA ProjectVerdict ==
  ASSUME RunTypes, FactsInv, VerdictInv, RunTypes', Project
  PROVE  VerdictInv'
<1>1. CASE Cancelled
  BY <1>1, Distinct, IndeterminateType
  DEF Project, Cancelled, Goto, VerdictInv, Sound, Working, Driven, Talk, Stages
<1>2. CASE Employ("converse")
  BY <1>2, Distinct
  DEF Project, Employ, Proceed, Goto, outcome, VerdictInv, Sound, Working, Driven, Talk
<1>3. ASSUME NEW stage \in {"setup", "gauntlet"}, Conclude(stage) PROVE VerdictInv'
  <2>1. /\ stage \in Stages /\ Compose(stage, facts') \in Verdicts
        /\ Compose(stage, facts').final = "indeterminate"
    BY Distinct, ErrorIsIndeterminate DEF Stages
  <2> QED
    BY <1>3, <2>1, Distinct
    DEF Project, Conclude, Goto, VerdictInv, Sound, Working, Driven, Talk
<1> QED
  BY <1>1, <1>2, <1>3 DEF Project, Halt

LEMMA RetainVerdict ==
  ASSUME RunTypes, FactsInv, VerdictInv, RunTypes', Retain
  PROVE  VerdictInv'
<1>1. CASE Cancelled
  BY <1>1, Distinct, IndeterminateType
  DEF Retain, Cancelled, Goto, VerdictInv, Sound, Working, Driven, Talk, Stages
<1>2. ASSUME NEW stage \in {"capture", "gauntlet"}, Conclude(stage) PROVE VerdictInv'
  <2>1. /\ stage \in Stages /\ Compose(stage, facts') \in Verdicts
        /\ Compose(stage, facts').final = "indeterminate"
    BY Distinct, ErrorIsIndeterminate DEF Stages
  <2> QED
    BY <1>2, <2>1, Distinct DEF Retain, Conclude, Goto, VerdictInv, Sound, Working, Driven, Talk
<1>3. CASE Proceed("conversation-post")
  BY <1>3, Distinct DEF Retain, Proceed, Goto, outcome, VerdictInv, Sound, Working, Driven, Talk
<1> QED
  BY <1>1, <1>2, <1>3 DEF Retain

LEMMA ConversationPostVerdict ==
  ASSUME RunTypes, FactsInv, VerdictInv, RunTypes', ConversationPost
  PROVE  VerdictInv'
<1>1. CASE Cancelled
  BY <1>1, Distinct, IndeterminateType
  DEF ConversationPost, Cancelled, Goto, VerdictInv, Sound, Working, Driven, Talk, Stages
<1>2. CASE Proceed("appoint")
  BY <1>2, Distinct
  DEF ConversationPost, Proceed, Goto, outcome, VerdictInv, Sound, Working, Driven, Talk
<1>3. CASE Conclude("checks")
  <2>1. Compose("checks", facts') \in Verdicts /\ Compose("checks", facts').final = "indeterminate"
    BY Distinct, ErrorIsIndeterminate DEF Stages
  <2> QED
    BY <1>3, <2>1, Distinct
    DEF ConversationPost, Conclude, Goto, VerdictInv, Sound, Working, Driven, Talk
<1> QED
  BY <1>1, <1>2, <1>3 DEF ConversationPost, Halt

LEMMA AssessmentEndsVerdict ==
  ASSUME RunTypes, FactsInv, VerdictInv, RunTypes', AssessmentEnds
  PROVE  VerdictInv'
<1>1. CASE Cancelled
  BY <1>1, Distinct, IndeterminateType
  DEF AssessmentEnds, Cancelled, Goto, VerdictInv, Sound, Working, Driven, Talk, Stages
<1>2. CASE Conclude("gauntlet")
  <2>1. Compose("gauntlet", facts') \in Verdicts /\ Compose("gauntlet", facts').final = "indeterminate"
    BY Distinct, ErrorIsIndeterminate DEF Stages
  <2> QED
    BY <1>2, <2>1, Distinct DEF AssessmentEnds, Conclude, Goto, VerdictInv, Sound, Working, Driven, Talk
<1>3. CASE ~StopSeen /\ facts'.assessed /\ Conclude(CheckError(facts'))
  <2> DEFINE e == CheckError(facts')
  <2>1. facts' \in Facts /\ e \in Stages \cup {Null} /\ (e = Null => facts'.post # "crashed")
    BY Distinct DEF RunTypes, CheckError, Stages
  <2>2. /\ facts'.pre = "passed" /\ facts'.post \in Phases /\ facts'.conv = "completed"
        /\ facts'.capture \in Available /\ cmd'.mode = "conversation"
    BY <1>3 DEF AssessmentEnds, FactsInv, Talk, RunTypes, Facts, Conclude, Goto
  <2>3. early' = FALSE
    BY <1>3 DEF AssessmentEnds, FactsInv, StopSeen
  <2> HIDE DEF e
  <2>4. verdict' = Compose(e, facts') /\ UNCHANGED thrown /\ point' = "accounting"
    BY <1>3 DEF Conclude, Goto, e
  <2>5. verdict' \in Verdicts
    BY <2>1, <2>4, ComposeType
  <2>6. Sound(verdict)'
    BY <1>3, <2>1, <2>2, <2>3, <2>4, ComposedIsSound DEF Phases
  <2> QED
    BY <2>4, <2>5, <2>6, Distinct DEF AssessmentEnds, VerdictInv, Working, Driven, Talk
<1> QED
  BY <1>1, <1>2, <1>3 DEF AssessmentEnds

LEMMA SignalVerdict ==
  ASSUME RunTypes, FactsInv, VerdictInv, RunTypes', Signal
  PROVE  VerdictInv'
<1>1. ASSUME LooksNoMore PROVE early' = FALSE
  BY <1>1 DEF Signal
<1>2. \A v : v # Null /\ v.final \in {"pass", "fail"} /\ Sound(v) => LooksNoMore
  BY Distinct DEF Sound, Earned, LooksNoMore, RunTypes, Facts, Layers, Phases
<1> HIDE DEF LooksNoMore
<1> QED
  BY <1>1, <1>2 DEF Signal, VerdictInv, Working, Driven, Talk, control, work, outcome, Sound, Earned

LEMMA VerdictKept ==
  ASSUME RunTypes, FactsInv, VerdictInv, RunTypes', RunNext
  PROVE  VerdictInv'
<1> USE Distinct, CommandShape, IndeterminateType, ComposeType DEF RunTypes, Disks, Facts,
        FactsInv, VerdictInv, Sound, Earned, Working, Driven, Talk, Stages, Goto, Return, Throw,
        Proceed, Continue, Halt, StoppedError, Employ, Conclude, Cancelled, Turn, StopSeen,
        control, stop, work, outcome
<1>1. CASE Refuse
  BY <1>1 DEF Refuse
<1>2. CASE Begin
  BY <1>2 DEF Begin
<1>3. CASE Guards
  BY <1>3 DEF Guards
<1>4. CASE Provision
  BY <1>4 DEF Provision
<1>5. CASE Setup
  BY <1>5 DEF Setup
<1>6. CASE PreChecks
  BY <1>6, PreChecksVerdict
<1>7. CASE Prepare
  BY <1>7 DEF Prepare
<1>8. CASE Launch
  BY <1>8 DEF Launch
<1>9. CASE GauntletEnds
  BY <1>9 DEF GauntletEnds
<1>10. CASE Capture
  BY <1>10, CaptureVerdict
<1>33. CASE LastLook
  BY <1>33 DEF LastLook
<1>11. CASE PostChecks
  BY <1>11, PostChecksVerdict
<1>12. CASE Economics
  BY <1>12 DEF Economics
<1>13. CASE Project
  BY <1>13, ProjectVerdict
<1>14. CASE Deadline
  BY <1>14 DEF Deadline
<1>15. CASE ConversationEnds
  BY <1>15 DEF ConversationEnds
<1>16. CASE Retain
  BY <1>16, RetainVerdict
<1>17. CASE ConversationPost
  BY <1>17, ConversationPostVerdict
<1>18. CASE Appoint
  BY <1>18 DEF Appoint
<1>19. CASE AssessmentEnds
  BY <1>19, AssessmentEndsVerdict
<1>20. CASE Accounting
  BY <1>20 DEF Accounting
<1>21. CASE Cleanup
  BY <1>21 DEF Cleanup
<1>22. CASE Settle
  BY <1>22 DEF Settle
<1>23. CASE WriteVerdict
  BY <1>23 DEF WriteVerdict
<1>24. CASE Unbless
  BY <1>24 DEF Unbless
<1>25. CASE BlessVerdict
  BY <1>25 DEF BlessVerdict, Bless
<1>26. CASE Answer
  BY <1>26 DEF Answer
<1>27. CASE StopVerdict
  BY <1>27 DEF StopVerdict, StopExit, Rewritten
<1>28. CASE BlessStopped
  BY <1>28 DEF BlessStopped, Bless, StopExit
<1>29. CASE Finish
  BY <1>29 DEF Finish
<1>30. CASE Signal
  BY <1>30, SignalVerdict
<1>31. CASE OnStop
  BY <1>31 DEF OnStop, Awaits
<1>32. CASE Perish
  BY <1>32 DEF Perish, Alive
<1> QED
  BY <1>1, <1>2, <1>3, <1>4, <1>5, <1>6, <1>7, <1>8, <1>9, <1>10, <1>11, <1>12, <1>13, <1>14,
      <1>15, <1>16, <1>17, <1>18, <1>19, <1>20, <1>21, <1>22, <1>23, <1>24, <1>25, <1>26, <1>27,
      <1>28, <1>29, <1>30, <1>31, <1>32, <1>33 DEF RunNext, RunStep

LEMMA SignalDisk ==
  ASSUME RunTypes, FactsInv, VerdictInv, DiskInv, Signal
  PROVE  DiskInv'
<1>1. ASSUME LooksNoMore PROVE early' = FALSE
  BY <1>1 DEF Signal
<1>2. \A v : v # Null /\ v.final \in {"pass", "fail"} /\ Sound(v) => LooksNoMore
  BY Distinct DEF Sound, Earned, LooksNoMore, RunTypes, Facts, Layers, Phases
<1> HIDE DEF LooksNoMore
<1> QED
  BY <1>1, <1>2
  DEF Signal, DiskInv, Unwritten, Working, Driven, Talk, control, work, outcome, Sound, Earned

LEMMA DiskKept ==
  ASSUME RunTypes, FactsInv, VerdictInv, DiskInv, RunNext
  PROVE  DiskInv'
<1> USE Distinct, CommandShape, IndeterminateType DEF RunTypes, Disks, VerdictInv, DiskInv, Sound,
        Earned, Unwritten, Working, Driven, Talk, Stages, Goto, Return, Throw, Proceed, Continue,
        Halt, StoppedError, Employ, Conclude, Cancelled, Turn, StopSeen, control, stop, work,
        outcome
<1>1. CASE Refuse
  BY <1>1 DEF Refuse
<1>2. CASE Begin
  BY <1>2 DEF Begin
<1>3. CASE Guards
  BY <1>3 DEF Guards
<1>4. CASE Provision
  BY <1>4 DEF Provision
<1>5. CASE Setup
  BY <1>5 DEF Setup
<1>6. CASE PreChecks
  BY <1>6 DEF PreChecks, Phases
<1>7. CASE Prepare
  BY <1>7 DEF Prepare
<1>8. CASE Launch
  BY <1>8 DEF Launch
<1>9. CASE GauntletEnds
  BY <1>9 DEF GauntletEnds
<1>10. CASE Capture
  BY <1>10 DEF Capture
<1>33. CASE LastLook
  BY <1>33 DEF LastLook
<1>11. CASE PostChecks
  BY <1>11 DEF PostChecks, Checked, PostStage, Phases
<1>12. CASE Economics
  BY <1>12 DEF Economics
<1>13. CASE Project
  BY <1>13 DEF Project
<1>14. CASE Deadline
  BY <1>14 DEF Deadline
<1>15. CASE ConversationEnds
  BY <1>15 DEF ConversationEnds
<1>16. CASE Retain
  BY <1>16 DEF Retain
<1>17. CASE ConversationPost
  BY <1>17 DEF ConversationPost, Checked, Phases
<1>18. CASE Appoint
  BY <1>18 DEF Appoint
<1>19. CASE AssessmentEnds
  BY <1>19 DEF AssessmentEnds, CheckError
<1>20. CASE Accounting
  BY <1>20 DEF Accounting
<1>21. CASE Cleanup
  BY <1>21 DEF Cleanup
<1>22. CASE Settle
  BY <1>22 DEF Settle
<1>23. CASE WriteVerdict
  BY <1>23 DEF WriteVerdict
<1>24. CASE Unbless
  BY <1>24 DEF Unbless
<1>25. CASE BlessVerdict
  BY <1>25 DEF BlessVerdict, Bless
<1>26. CASE Answer
  BY <1>26 DEF Answer
<1>27. CASE StopVerdict
  BY <1>27 DEF StopVerdict, StopExit, Rewritten
<1>28. CASE BlessStopped
  BY <1>28 DEF BlessStopped, Bless, StopExit
<1>29. CASE Finish
  BY <1>29 DEF Finish
<1>30. CASE Signal
  BY <1>30, SignalDisk
<1>31. CASE OnStop
  BY <1>31 DEF OnStop, Awaits
<1>32. CASE Perish
  BY <1>32 DEF Perish, Alive
<1> QED
  BY <1>1, <1>2, <1>3, <1>4, <1>5, <1>6, <1>7, <1>8, <1>9, <1>10, <1>11, <1>12, <1>13, <1>14,
      <1>15, <1>16, <1>17, <1>18, <1>19, <1>20, <1>21, <1>22, <1>23, <1>24, <1>25, <1>26, <1>27,
      <1>28, <1>29, <1>30, <1>31, <1>32, <1>33 DEF RunNext, RunStep

LEMMA ExitKept ==
  ASSUME RunTypes, VerdictInv, DiskInv, ExitInv, RunNext
  PROVE  ExitInv'
<1> USE Distinct, CommandShape, IndeterminateType DEF RunTypes, Disks, DiskInv, ExitInv,
        VerdictInv, AnswerAgrees, Stages, ExitCode, Verdicts, Finals, Goto, Return, Throw,
        Proceed, Continue, Halt, StoppedError, Employ, Conclude, Cancelled, Turn, StopSeen,
        control, stop, work, outcome
<1>1. CASE Refuse
  BY <1>1 DEF Refuse
<1>2. CASE Begin
  BY <1>2 DEF Begin
<1>3. CASE Guards
  BY <1>3 DEF Guards
<1>4. CASE Provision
  BY <1>4 DEF Provision
<1>5. CASE Setup
  BY <1>5 DEF Setup
<1>6. CASE PreChecks
  BY <1>6 DEF PreChecks, Phases
<1>7. CASE Prepare
  BY <1>7 DEF Prepare
<1>8. CASE Launch
  BY <1>8 DEF Launch
<1>9. CASE GauntletEnds
  BY <1>9 DEF GauntletEnds
<1>10. CASE Capture
  BY <1>10 DEF Capture
<1>33. CASE LastLook
  BY <1>33 DEF LastLook
<1>11. CASE PostChecks
  BY <1>11 DEF PostChecks, Checked, PostStage, Phases
<1>12. CASE Economics
  BY <1>12 DEF Economics
<1>13. CASE Project
  BY <1>13 DEF Project
<1>14. CASE Deadline
  BY <1>14 DEF Deadline
<1>15. CASE ConversationEnds
  BY <1>15 DEF ConversationEnds
<1>16. CASE Retain
  BY <1>16 DEF Retain
<1>17. CASE ConversationPost
  BY <1>17 DEF ConversationPost, Checked, Phases
<1>18. CASE Appoint
  BY <1>18 DEF Appoint
<1>19. CASE AssessmentEnds
  BY <1>19 DEF AssessmentEnds, CheckError
<1>20. CASE Accounting
  BY <1>20 DEF Accounting
<1>21. CASE Cleanup
  BY <1>21 DEF Cleanup
<1>22. CASE Settle
  BY <1>22 DEF Settle
<1>23. CASE WriteVerdict
  BY <1>23 DEF WriteVerdict
<1>24. CASE Unbless
  BY <1>24 DEF Unbless
<1>25. CASE BlessVerdict
  BY <1>25 DEF BlessVerdict, Bless
<1>26. CASE Answer
  BY <1>26 DEF Answer
<1>27. CASE StopVerdict
  BY <1>27 DEF StopVerdict, StopExit, Rewritten
<1>28. CASE BlessStopped
  BY <1>28 DEF BlessStopped, Bless, StopExit
<1>29. CASE Finish
  BY <1>29 DEF Finish
<1>30. CASE Signal
  BY <1>30 DEF Signal, LooksNoMore, Alive
<1>31. CASE OnStop
  BY <1>31 DEF OnStop, Awaits
<1>32. CASE Perish
  BY <1>32 DEF Perish, Alive
<1> QED
  BY <1>1, <1>2, <1>3, <1>4, <1>5, <1>6, <1>7, <1>8, <1>9, <1>10, <1>11, <1>12, <1>13, <1>14,
      <1>15, <1>16, <1>17, <1>18, <1>19, <1>20, <1>21, <1>22, <1>23, <1>24, <1>25, <1>26, <1>27,
      <1>28, <1>29, <1>30, <1>31, <1>32, <1>33 DEF RunNext, RunStep


\* Nothing of the run changes once its process is over or gone.
LEMMA DeadIsDone ==
  ASSUME RunNext
  PROVE  Alive
<1> USE DEF Alive
<1>1. CASE \/ Refuse \/ Begin \/ Guards \/ Provision \/ Setup \/ PreChecks \/ Prepare
           \/ Launch \/ GauntletEnds \/ Capture \/ LastLook \/ PostChecks \/ Economics
  BY <1>1
  DEF Refuse, Begin, Guards, Provision, Setup, PreChecks, Prepare, Launch, GauntletEnds, Capture,
              LastLook, PostChecks, Economics
<1>2. CASE \/ Project \/ Deadline \/ ConversationEnds \/ Retain \/ ConversationPost
           \/ Appoint \/ AssessmentEnds \/ Accounting
  BY <1>2
  DEF Project, Deadline, ConversationEnds, Retain, ConversationPost, Appoint, AssessmentEnds,
      Accounting
<1>3. CASE \/ Cleanup \/ Settle \/ WriteVerdict \/ Unbless \/ BlessVerdict \/ Answer
           \/ StopVerdict \/ BlessStopped \/ Finish
  BY <1>3
  DEF Cleanup, Settle, WriteVerdict, Unbless, BlessVerdict, Answer, StopVerdict, BlessStopped,
      Finish
<1>4. CASE Signal \/ OnStop \/ Perish
  BY <1>4 DEF Signal, OnStop, Awaits, Perish
<1> QED
  BY <1>1, <1>2, <1>3, <1>4 DEF RunNext, RunStep

----
(* The controller, outside. *)

\* What was published is what a dead run left behind its manifest, and what was
\* observed is what was published.
HostInv ==
  /\ host \in {"follows", "dead", "synced", "refused", "observed", "interrupted"}
  /\ journal \in [outcome : Finals, evidence : BOOLEAN] \cup {Null}
  /\ host # "follows" => ~Alive
  /\ results # Null => /\ host \in {"synced", "observed", "interrupted"}
                       /\ results = disk /\ results.manifest = "current"
  /\ host = "synced" => results # Null
  /\ journal # Null => /\ journal.outcome \in {"pass", "fail"} =>
                            results # Null /\ journal.evidence /\ journal.outcome = results.verdict.final

LEMMA AttemptInitInv == AttemptInit => RunInv /\ HostInv
<1> SUFFICES ASSUME AttemptInit PROVE RunInv /\ HostInv
  OBVIOUS
<1>1. RunInit
  BY DEF AttemptInit
<1>2. cmd.trace \in BOOLEAN /\ cmd.mode \in {"qa", "conversation"}
  BY <1>1, CommandShape DEF RunInit
<1>3. facts \in Facts
  BY <1>1, <1>2 DEF RunInit, Unknown, Facts, Captures, Phases, Layers
<1>4. RunTypes
  BY <1>1, <1>3 DEF RunInit, RunTypes, Disks
<1>5. Switches
  BY <1>1 DEF RunInit, Switches
<1>6. FactsInv /\ VerdictInv /\ DiskInv /\ ExitInv
  BY <1>1, Distinct
  DEF RunInit, FactsInv, VerdictInv, DiskInv, ExitInv, AnswerAgrees, Sound, Working, Driven, Talk
<1> QED
  BY <1>4, <1>5, <1>6 DEF RunInv, RunTypeOK, AttemptInit, HostInv

LEMMA RunKeeps ==
  ASSUME RunInv, RunNext
  PROVE  RunInv'
BY TypesKept, SwitchesKept, FactsKept, VerdictKept, DiskKept, ExitKept DEF RunInv, RunTypeOK

LEMMA LeftoverKeeps ==
  ASSUME RunInv, Leftover
  PROVE  RunInv'
<1>1. /\ disk.manifest = "current" /\ disk' = [disk EXCEPT !.manifest = "stale"]
      /\ UNCHANGED <<cmd, point, exit, signal, cause, secret, facts, thrown, verdict, lock, early>>
      /\ disk \in Disks
  BY DEF Leftover, control, stop, work, outcome, RunInv, RunTypeOK, RunTypes
<1>2. disk'.verdict = disk.verdict /\ disk'.manifest = "stale" /\ disk' \in Disks
  BY <1>1 DEF Disks
<1>3. RunTypes' /\ FactsInv' /\ VerdictInv'
  BY <1>1, <1>2 DEF RunInv, RunTypeOK, RunTypes, FactsInv, VerdictInv, Sound, Earned
<1>4. DiskInv' /\ ExitInv'
  BY <1>1, <1>2, Distinct DEF RunInv, DiskInv, ExitInv, AnswerAgrees, Sound, Earned
<1>5. Switches'
  BY DEF Leftover, stop, work, RunInv, RunTypeOK, Switches
<1> QED
  BY <1>3, <1>4, <1>5 DEF RunInv, RunTypeOK

LEMMA AttemptStep == RunInv /\ HostInv /\ [AttemptNext]_attemptVars => RunInv' /\ HostInv'
<1> SUFFICES ASSUME RunInv, HostInv, [AttemptNext]_attemptVars PROVE RunInv' /\ HostInv'
  OBVIOUS
<1>1. CASE InContainer
  <2>1. Alive /\ RunInv'
    BY <1>1, DeadIsDone, RunKeeps DEF InContainer
  <2>2. UNCHANGED <<host, results, journal>> /\ host = "follows" /\ results = Null
    BY <1>1, <2>1 DEF InContainer, publication, HostInv
  <2> QED
    BY <2>1, <2>2 DEF HostInv
<1>2. CASE Leftover
  <2>1. UNCHANGED <<host, results, journal>> /\ host = "follows" /\ results = Null
    BY <1>2 DEF Leftover, publication, HostInv
  <2> QED
    BY <1>2, <2>1, LeftoverKeeps DEF HostInv
<1>3. CASE UNCHANGED runVars /\ HostInv'
  <2>1. UNCHANGED <<cmd, point, exit, signal, cause, secret, facts, thrown, verdict, lock, early, disk>>
    BY <1>3 DEF runVars, control, stop, work, outcome
  <2>2. RunTypes' /\ FactsInv' /\ VerdictInv'
    BY <2>1 DEF RunInv, RunTypeOK, RunTypes, FactsInv, VerdictInv, Sound, Earned
  <2>3. DiskInv' /\ ExitInv'
    BY <2>1 DEF RunInv, DiskInv, ExitInv, AnswerAgrees, Sound, Earned
  <2>4. Switches'
    BY <1>3 DEF runVars, stop, work, RunInv, RunTypeOK, Switches
  <2> QED
    BY <1>3, <2>2, <2>3, <2>4 DEF RunInv, RunTypeOK
<1>4. UNCHANGED runVars => UNCHANGED <<point, disk>>
  BY DEF runVars, control
<1>5. CASE Inspect
  BY <1>3, <1>4, <1>5 DEF Inspect, ContainerStopped, HostInv, Alive
<1>6. CASE Publish
  <2>1. disk # Null
    BY AttemptAssumption DEF RunInv, RunTypeOK, RunTypes
  <2> QED
    BY <1>3, <1>4, <1>6, <2>1 DEF Publish, Blessed, HostInv, Alive
<1>7. CASE Observe
  <2>1. host = "synced" => results.verdict.final \in Finals
    BY Distinct DEF HostInv, RunInv, RunTypeOK, RunTypes, Disks, DiskInv, Verdicts
  <2>2. UNCHANGED <<point, disk, results>> /\ host' \in {"observed", "interrupted"}
    BY <1>4, <1>7 DEF Observe
  <2>3. CASE UNCHANGED journal
    BY <1>3, <1>7, <2>2, <2>3 DEF Observe, Observable, HostInv, Alive
  <2>4. CASE host = "synced" /\ journal' = [outcome |-> results.verdict.final, evidence |-> TRUE]
    <3>1. /\ journal' \in [outcome : Finals, evidence : BOOLEAN]
          /\ journal'.evidence /\ journal'.outcome = results.verdict.final
      BY <2>1, <2>4
    <3> QED
      BY <1>3, <1>7, <2>2, <2>4, <3>1 DEF Observe, HostInv, Alive
  <2>5. CASE journal' = [outcome |-> "indeterminate", evidence |-> FALSE]
    <3>1. journal' \in [outcome : Finals, evidence : BOOLEAN] /\ journal'.outcome = "indeterminate"
      BY <2>5 DEF Finals
    <3> QED
      BY <1>3, <1>7, <2>2, <3>1 DEF Observe, Observable, HostInv, Alive
  <2> QED
    BY <1>7, <2>3, <2>4, <2>5 DEF Observe
<1>8. CASE ControllerDies
  BY <1>3, <1>4, <1>8 DEF ControllerDies, HostInv, Alive
<1>9. CASE UNCHANGED attemptVars
  BY <1>3, <1>4, <1>9 DEF attemptVars, publication, HostInv, Alive
<1> QED
  BY <1>1, <1>2, <1>5, <1>6, <1>7, <1>8, <1>9 DEF AttemptNext

LEMMA TruthFollows == RunInv /\ HostInv => AttemptIsTrue
<1> SUFFICES ASSUME RunInv, HostInv PROVE AttemptIsTrue
  OBVIOUS
<1>1. PublishedIsLast
  BY DEF HostInv, PublishedIsLast
<1>2. ASSUME journal # Null, journal.outcome \in {"pass", "fail"}
      PROVE  Earned(journal.outcome) /\ ~early /\ results # Null /\ journal.evidence
  <2>1. /\ results # Null /\ journal.evidence /\ journal.outcome = disk.verdict.final
        /\ disk.manifest = "current"
    BY <1>2 DEF HostInv
  <2>2. disk.verdict # Null /\ Sound(disk.verdict)
    BY <2>1, Distinct DEF RunInv, DiskInv
  <2> QED
    BY <1>2, <2>1, <2>2 DEF Sound
<1> QED
  BY <1>1, <1>2 DEF AttemptIsTrue, ObservedIsEarned

LEMMA AnswersFollow == RunInv => StopsAreAnswered
<1> SUFFICES ASSUME RunInv PROVE StopsAreAnswered
  OBVIOUS
<1>1. disk.verdict \in Verdicts \cup {Null} /\ exit \in {Null, "0", "1", "2", "thrown"}
  BY DEF RunInv, RunTypeOK, RunTypes, Disks
<1>2. early => disk.verdict = Null \/ disk.verdict.final = "indeterminate"
  BY <1>1 DEF RunInv, DiskInv, Sound, Verdicts, Finals
<1>3. early => exit \notin {"0", "1"}
  BY <1>1, <1>2 DEF RunInv, ExitInv, AnswerAgrees, ExitCode
<1> QED
  BY <1>2, <1>3 DEF RunInv, ExitInv, StopsAreAnswered, StopsAreHeard

LEMMA AttemptTyped == RunInv /\ HostInv => AttemptTypeOK
BY DEF RunInv, RunTypeOK, RunTypes, HostInv, AttemptTypeOK

\* Every value keeps its type, of the run and of what the controller keeps of it.
THEOREM AttemptTypesKept == AttemptSpec => []AttemptTypeOK
BY AttemptInitInv, AttemptStep, AttemptTyped, PTL DEF AttemptSpec

\* What is published of an attempt is the last word of a run that is over, and an
\* outcome in the journal was earned in the container, for every command, capture,
\* stop, kill and leftover (AttemptRun under attempt-publish.ts).
THEOREM AttemptIsTrueAlways == AttemptSpec => []AttemptIsTrue
BY AttemptInitInv, AttemptStep, TruthFollows, PTL DEF AttemptSpec

\* A stop that came before the last look for one is heard, and the exit code, the verdict and
\* the manifest tell one story, whatever the run went through.
THEOREM StopsAreAnsweredAlways == AttemptSpec => []StopsAreAnswered
BY AttemptInitInv, AttemptStep, AnswersFollow, PTL DEF AttemptSpec

----
(* What a report believes of an attempt. *)

\* What was read is what was published, and what was measured is of what was read.
EvidenceInv ==
  /\ bundle \in Bundles /\ required \in Requirements
  /\ reading # Unsaid => reading = EvidenceOf(bundle)
  /\ measured # Unsaid => reading # Unsaid /\ measured = Measure(reading, required)

LEMMA EvidenceStep ==
  ASSUME EvidenceInv, [EvidenceNext]_evidenceVars
  PROVE  EvidenceInv'
<1> USE DEF EvidenceInv
<1>1. CASE UNCHANGED evidenceVars
  BY <1>1 DEF evidenceVars
<1>2. CASE Read
  BY <1>2 DEF Read
<1>3. CASE Assess
  BY <1>3 DEF Assess
<1> QED
  BY <1>1, <1>2, <1>3 DEF EvidenceNext

\* What parses is whole, what is whole or malformed is authentic, and nothing else is.
LEMMA PartsOfBundle ==
  ASSUME NEW b \in Bundles, NEW k \in Kinds
  PROVE  /\ Parses(b, k) <=> b.files[k] = "good"
         /\ Parses(b, k) => k \in Artifacts(b)
         /\ (k \in Artifacts(b)) <=> Authentic(b, k)
         /\ Authentic(b, k) => b.files[k] # "damaged"
         /\ (Authentic(b, k) /\ b.files[k] # "malformed") => b.files[k] = "good"
BY DEF Parses, Authentic, Artifacts

\* Of an attempt without a publication nothing is believed.
LEMMA NothingMeasured ==
  ASSUME NEW r \in Requirements
  PROVE  /\ Measure(MissingEvidence, r).interaction.verdict = Unsaid
         /\ \A o \in Measure(MissingEvidence, r).checks : o.verdict = Unsaid
         /\ \A o \in Measure(MissingEvidence, r).criteria : o.verdict = Unsaid
BY EvidenceAssumption
   DEF Measure, MissingEvidence, Visible, CheckOf, CheckSettled, CriterionOf, CriterionSettled

\* The fields of what is read of a publication.
LEMMA FieldsOfEvidence ==
  ASSUME NEW b, Published(b), NEW e, e = EvidenceOf(b)
  PROVE  /\ e.valid = TRUE /\ e.rows = GraderRows(b) /\ e.checks = ChecksOf(b)
         /\ e.executed = (Says(b, "error") = "null") /\ e.report = Accepted(b)
         /\ e.conversation = IF Parses(b, "conversation") THEN b.says.conversation ELSE Unsaid
         /\ e.subject = SubjectCost(b) /\ e.subjectExact = SubjectExact(b)
         /\ e.grader = Says(b, "grader") /\ e.graderExact = GraderExact(b)
         /\ e.gaps = Gaps(b) /\ e.artifacts = Artifacts(b)
BY DEF EvidenceOf

----
(* No verdict rests on nothing. *)

\* A proof is as good as it has to be.
Backs(b, k) ==
  /\ Authentic(b, k) /\ b.files[k] # "damaged"
  /\ k \notin {"checks", "visible", "output", "stream", "captures"} => b.files[k] = "good"

\* What stands for a class of evidence is as good as it has to be.
LEMMA ClassesAreBacked ==
  ASSUME NEW b \in Bundles, Published(b), NEW e, e = EvidenceOf(b),
         NEW class, NEW k \in ClassOf(e, class)
  PROVE  Backs(b, k)
<1>1. /\ e.checks = ChecksOf(b) /\ e.gaps = Gaps(b) /\ e.artifacts = Artifacts(b)
  BY FieldsOfEvidence
<1>2. CASE class = "visible_delivery"
  <2>1. k \in {"visible", "stream", "captures"} /\ k \in Artifacts(b)
    BY <1>1, <1>2 DEF ClassOf, Visible
  <2> QED
    BY <2>1, PartsOfBundle DEF Backs, Kinds
<1>3. CASE class = "check_dispositions"
  <2>1. e.checks # Unsaid /\ k \in Artifacts(b)
        /\ (k = "checks" \/ (k = "verdict" /\ "checks" \notin Artifacts(b)))
    BY <1>1, <1>3 DEF ClassOf
  <2>2. CASE k = "checks"
    BY <2>1, <2>2, PartsOfBundle DEF Backs, Kinds
  <2>3. CASE k = "verdict" /\ "checks" \notin Artifacts(b)
    <3>1. ~Parses(b, "checks")
      BY <2>3, PartsOfBundle DEF Kinds
    <3>2. Parses(b, "verdict")
      BY <1>1, <2>1, <3>1 DEF ChecksOf, Says
    <3> QED
      BY <2>3, <3>2, PartsOfBundle DEF Backs, Kinds
  <2> QED
    BY <2>1, <2>2, <2>3
<1>4. CASE class = "normalized_trace"
  <2>1. k = "trajectory" /\ k \in Artifacts(b) /\ "trajectory" \notin Gaps(b)
    BY <1>1, <1>4 DEF ClassOf
  <2>2. b.files["trajectory"] # "malformed"
    BY <2>1 DEF Gaps
  <2> QED
    BY <2>1, <2>2, PartsOfBundle DEF Backs, Kinds
<1>5. CASE class = "output"
  <2>1. k = "output" /\ k \in Artifacts(b)
    BY <1>1, <1>5 DEF ClassOf
  <2> QED
    BY <2>1, PartsOfBundle DEF Backs, Kinds
<1> QED
  BY <1>2, <1>3, <1>4, <1>5 DEF ClassOf

\* Something stands for the checks wherever there are any.
LEMMA ChecksAreCited ==
  ASSUME NEW b \in Bundles, Published(b), NEW e, e = EvidenceOf(b), e.checks # Unsaid
  PROVE  ClassOf(e, "check_dispositions") # {}
<1>1. e.checks = ChecksOf(b) /\ e.artifacts = Artifacts(b)
  BY FieldsOfEvidence
<1>2. CASE "checks" \in Artifacts(b)
  BY <1>1, <1>2 DEF ClassOf
<1>3. CASE "checks" \notin Artifacts(b)
  <2>1. ~Parses(b, "checks")
    BY <1>3, PartsOfBundle DEF Kinds
  <2>2. Parses(b, "verdict")
    BY <1>1, <2>1 DEF ChecksOf, Says
  <2>3. "verdict" \in Artifacts(b)
    BY <2>2, PartsOfBundle DEF Kinds
  <2> QED
    BY <1>1, <1>3, <2>3 DEF ClassOf
<1> QED
  BY <1>2, <1>3

LEMMA InteractionIsBacked ==
  ASSUME NEW b \in Bundles, Published(b), NEW r, NEW o,
         o = Measure(EvidenceOf(b), r).interaction, o.verdict # Unsaid
  PROVE  o.evidence # {} /\ \A k \in o.evidence : Backs(b, k)
<1> DEFINE e == EvidenceOf(b)
<1>1. /\ e.conversation = IF Parses(b, "conversation") THEN b.says.conversation ELSE Unsaid
      /\ e.artifacts = Artifacts(b)
  BY FieldsOfEvidence
<1>2. /\ Visible(e) # {} /\ o.evidence = Visible(e) \cup ({"conversation"} \cap e.artifacts)
  BY DEF Measure
<1> HIDE DEF e
<1>3. e.conversation = "completed" /\ Visible(e) \subseteq {"visible"} \cap Artifacts(b)
  BY <1>1, <1>2 DEF Visible
<1>4. Parses(b, "conversation")
  BY <1>1, <1>3, EvidenceAssumption
<1>5. ASSUME NEW k \in o.evidence PROVE Backs(b, k)
  <2>1. k \in {"visible", "conversation"} /\ k \in Artifacts(b)
    BY <1>1, <1>2, <1>3, <1>5
  <2> QED
    BY <1>4, <2>1, PartsOfBundle DEF Backs, Kinds
<1> QED
  BY <1>2, <1>5

LEMMA ChecksAreBacked ==
  ASSUME NEW b \in Bundles, Published(b), NEW r \in Requirements, NEW c \in r.checks,
         NEW o, o = CheckOf(EvidenceOf(b), c), o.verdict # Unsaid
  PROVE  o.evidence # {} /\ \A k \in o.evidence : Backs(b, k)
<1> DEFINE e == EvidenceOf(b)
<1>1. CheckSettled(e, c) /\ o.evidence = ClassOf(e, "check_dispositions")
  BY DEF CheckOf
<1>2. e.checks # Unsaid
  BY <1>1 DEF CheckSettled
<1> HIDE DEF e
<1> QED
  BY <1>1, <1>2, ChecksAreCited, ClassesAreBacked DEF e

LEMMA CriteriaAreBacked ==
  ASSUME NEW b \in Bundles, Published(b), NEW r \in Requirements, NEW c \in r.criteria,
         NEW o, o = CriterionOf(EvidenceOf(b), r, c), o.verdict # Unsaid
  PROVE  o.evidence # {} /\ \A k \in o.evidence : Backs(b, k)
<1> DEFINE e == EvidenceOf(b)
           own == IF e.report THEN {"result"} ELSE {"verdict"} \cap e.artifacts
<1>1. /\ CriterionSettled(e, r, c)
      /\ o.evidence = own \cup UNION {ClassOf(e, class) : class \in c.classes}
  BY DEF CriterionOf
<1>2. e.rows # Unsaid
  BY <1>1 DEF CriterionSettled
<1>3. e.rows = GraderRows(b) /\ e.report = Accepted(b) /\ e.artifacts = Artifacts(b)
  BY FieldsOfEvidence
<1> HIDE DEF e
<1>4. own # {} /\ \A k \in own : Backs(b, k)
  <2>1. CASE Accepted(b)
    <3>1. Parses(b, "result")
      BY <2>1 DEF Accepted
    <3> QED
      BY <1>3, <2>1, <3>1, PartsOfBundle DEF Backs, Kinds
  <2>2. CASE ~Accepted(b)
    <3>1. Parses(b, "verdict")
      BY <1>2, <1>3, <2>2 DEF GraderRows, Says
    <3> QED
      BY <1>3, <2>2, <3>1, PartsOfBundle DEF Backs, Kinds
  <2> QED
    BY <2>1, <2>2
<1> HIDE DEF own
<1>5. ASSUME NEW class \in c.classes, NEW k \in ClassOf(e, class) PROVE Backs(b, k)
  BY <1>5, ClassesAreBacked DEF e
<1> QED
  BY <1>1, <1>4, <1>5

LEMMA VerdictsBacked ==
  ASSUME EvidenceInv
  PROVE  VerdictsAreBacked
<1> SUFFICES ASSUME measured # Unsaid, NEW o \in Obligations, o.verdict # Unsaid
             PROVE  o.evidence # {} /\ \A k \in o.evidence : Backs(bundle, k)
  BY DEF VerdictsAreBacked, Backs
<1>1. /\ bundle \in Bundles /\ required \in Requirements
      /\ measured = Measure(EvidenceOf(bundle), required)
  BY DEF EvidenceInv
<1>2. CASE ~Published(bundle)
  <2>1. measured = Measure(MissingEvidence, required)
    BY <1>1, <1>2 DEF EvidenceOf
  <2> QED
    BY <1>1, <2>1, NothingMeasured DEF Obligations
<1>3. CASE Published(bundle)
  <2>1. CASE o = measured.interaction
    BY <1>1, <1>3, <2>1, InteractionIsBacked
  <2>2. CASE o \in measured.checks
    <3>1. PICK c \in required.checks : o = CheckOf(EvidenceOf(bundle), c)
      BY <1>1, <2>2 DEF Measure
    <3> QED
      BY <1>1, <1>3, <3>1, ChecksAreBacked
  <2>3. CASE o \in measured.criteria
    <3>1. PICK c \in required.criteria : o = CriterionOf(EvidenceOf(bundle), required, c)
      BY <1>1, <2>3 DEF Measure
    <3> QED
      BY <1>1, <1>3, <3>1, CriteriaAreBacked
  <2> QED
    BY <2>1, <2>2, <2>3 DEF Obligations
<1> QED
  BY <1>2, <1>3

----
(* Damage only loses. *)

\* The kinds that no other takes the place of.
Sole == Kinds \ {"roles", "completion", "result", "checks"}

\* What is hurt has the checks and rows that it had, or none.
LEMMA HurtIsLess ==
  ASSUME NEW b \in Bundles, Published(b), NEW k \in Sole,
         NEW h, h = [b EXCEPT !.files[k] = "damaged"]
  PROVE  /\ Published(h)
         /\ ChecksOf(h) \in {ChecksOf(b), Unsaid}
         /\ GraderRows(h) \in {GraderRows(b), Unsaid}
<1>1. /\ h.says = b.says /\ h.manifest = b.manifest
      /\ h.files[k] = "damaged" /\ \A l \in Kinds \ {k} : h.files[l] = b.files[l]
  BY EvidenceAssumption DEF Sole
<1>2. /\ ~Parses(h, k) /\ \A l \in Kinds \ {k} : Parses(h, l) <=> Parses(b, l)
  BY <1>1 DEF Parses, Authentic
<1>3. k \notin {"roles", "completion", "result", "checks"}
  BY DEF Sole
<1>4. Accepted(h) <=> Accepted(b)
  BY <1>1, <1>2, <1>3 DEF Accepted, Kinds
<1>5. Parses(h, "checks") <=> Parses(b, "checks")
  BY <1>2, <1>3 DEF Kinds
<1>6. \A field : Says(h, field) \in {Says(b, field), Unsaid}
  BY <1>1, <1>2 DEF Says, Kinds
<1>7. Published(h)
  BY <1>1, <1>2 DEF Published, Kinds
<1> QED
  BY <1>1, <1>4, <1>5, <1>6, <1>7 DEF ChecksOf, GraderRows

LEMMA DamageLoses ==
  ASSUME EvidenceInv
  PROVE  DamageOnlyLoses
<1> SUFFICES ASSUME measured # Unsaid, reading.valid, NEW k \in Sole
             PROVE  LET hurt == EvidenceOf([bundle EXCEPT !.files[k] = "damaged"])
                        less == Measure(hurt, required) IN
                    \A o \in {less.interaction} \cup less.checks \cup less.criteria :
                      o.verdict # Unsaid =>
                        \E p \in Obligations : p.id = o.id /\ p.verdict \in {o.verdict, Unsaid}
  BY DEF DamageOnlyLoses, Sole
<1> DEFINE h == [bundle EXCEPT !.files[k] = "damaged"]
           hurt == EvidenceOf(h)
           less == Measure(hurt, required)
<1>1. /\ bundle \in Bundles /\ reading = EvidenceOf(bundle)
      /\ measured = Measure(reading, required)
  BY DEF EvidenceInv
<1>2. Published(bundle)
  BY <1>1 DEF EvidenceOf, MissingEvidence
<1>3. /\ Published(h) /\ ChecksOf(h) \in {ChecksOf(bundle), Unsaid}
      /\ GraderRows(h) \in {GraderRows(bundle), Unsaid}
  BY <1>1, <1>2, HurtIsLess
<1> HIDE DEF h
<1>4. hurt.checks \in {reading.checks, Unsaid} /\ hurt.rows \in {reading.rows, Unsaid}
  <2>1. hurt.checks = ChecksOf(h) /\ hurt.rows = GraderRows(h)
    BY <1>3, FieldsOfEvidence
  <2>2. reading.checks = ChecksOf(bundle) /\ reading.rows = GraderRows(bundle)
    BY <1>1, <1>2, FieldsOfEvidence
  <2> QED
    BY <1>3, <2>1, <2>2
<1> HIDE DEF hurt
<1> SUFFICES ASSUME NEW o \in {less.interaction} \cup less.checks \cup less.criteria,
                    o.verdict # Unsaid
             PROVE  \E p \in Obligations : p.id = o.id /\ p.verdict \in {o.verdict, Unsaid}
  BY DEF h, hurt
<1>5. CASE o = less.interaction
  <2>1. o.id = "interaction" /\ o.verdict = "pass"
    BY <1>5 DEF Measure
  <2>2. measured.interaction.id = "interaction"
        /\ measured.interaction.verdict \in {"pass", Unsaid}
    BY <1>1 DEF Measure
  <2> QED
    BY <2>1, <2>2 DEF Obligations
<1>6. CASE o \in less.checks
  <2>1. PICK c \in required.checks : o = CheckOf(hurt, c)
    BY <1>6 DEF Measure
  <2>2. CheckSettled(hurt, c)
    BY <2>1 DEF CheckOf
  <2>3. hurt.checks = reading.checks
    BY <1>4, <2>2 DEF CheckSettled
  <2>4. CheckOf(reading, c) \in Obligations
    BY <1>1 DEF Obligations, Measure
  <2>5. /\ CheckOf(reading, c).id = o.id
        /\ CheckOf(reading, c).verdict \in {o.verdict, Unsaid}
    BY <2>1, <2>2, <2>3 DEF CheckOf
  <2> QED
    BY <2>4, <2>5
<1>7. CASE o \in less.criteria
  <2>1. PICK c \in required.criteria : o = CriterionOf(hurt, required, c)
    BY <1>7 DEF Measure
  <2>2. CriterionSettled(hurt, required, c)
    BY <2>1 DEF CriterionOf
  <2>3. hurt.rows = reading.rows
    BY <1>4, <2>2 DEF CriterionSettled
  <2>4. CriterionOf(reading, required, c) \in Obligations
    BY <1>1 DEF Obligations, Measure
  <2>5. /\ CriterionOf(reading, required, c).id = o.id
        /\ CriterionOf(reading, required, c).verdict \in {o.verdict, Unsaid}
    BY <2>1, <2>2, <2>3 DEF CriterionOf
  <2> QED
    BY <2>4, <2>5
<1> QED
  BY <1>5, <1>6, <1>7

----
(* No fault is a failure. *)

LEMMA FaultsNotFailures ==
  ASSUME EvidenceInv
  PROVE  FaultsAreNotFailures
<1> SUFFICES ASSUME measured # Unsaid
             PROVE  FaultsAreNotFailures
  BY DEF FaultsAreNotFailures
<1>1. /\ bundle \in Bundles /\ reading = EvidenceOf(bundle)
      /\ measured = Measure(reading, required)
  BY DEF EvidenceInv
<1>2. ASSUME NEW o \in measured.checks, o.verdict = "fail"
      PROVE  reading.checks[o.id].status = "completed" \/ reading.executed
  <2>1. PICK c \in required.checks : o = CheckOf(reading, c)
    BY <1>1, <1>2 DEF Measure
  <2>2. /\ CheckSettled(reading, c) /\ o.id = c.id /\ ~reading.checks[c.id].passed
    BY <1>2, <2>1, EvidenceAssumption DEF CheckOf
  <2> QED
    BY <2>2 DEF CheckSettled
<1>3. CASE ~Published(bundle)
  <2>1. reading = MissingEvidence
    BY <1>1, <1>3 DEF EvidenceOf
  <2>2. ~reading.valid /\ ~reading.graderExact
    BY <2>1 DEF MissingEvidence
  <2> QED
    BY <1>2, <2>2 DEF FaultsAreNotFailures
<1>4. CASE Published(bundle)
  <2>1. /\ reading.subject = SubjectCost(bundle)
        /\ reading.subjectExact = SubjectExact(bundle)
        /\ reading.grader = Says(bundle, "grader")
        /\ reading.graderExact = GraderExact(bundle)
        /\ reading.gaps = Gaps(bundle)
    BY <1>1, <1>4, FieldsOfEvidence
  <2>2. reading.graderExact => bundle.says.priced /\ bundle.says.requestsComplete
    BY <2>1 DEF GraderExact
  <2>3. reading.subject = Unsaid \/ ~reading.subjectExact => "subject_cost" \in reading.gaps
    BY <2>1 DEF Gaps
  <2>4. reading.grader = Unsaid \/ ~reading.graderExact => "grader_cost" \in reading.gaps
    BY <2>1 DEF Gaps
  <2> QED
    BY <1>2, <2>2, <2>3, <2>4 DEF FaultsAreNotFailures
<1> QED
  BY <1>3, <1>4

\* EvidenceIsHonest, whatever was published, whatever of it was lost, damaged or
\* malformed, and whatever the scenario asks for: a settled verdict cites at least one
\* artifact, all of them authentic; the damage of one artifact turns no verdict into
\* another; and a fault of the run or of a check is never the subject's failure
\* (report-evidence.ts, readAttemptEvidence and measureAttempt).
THEOREM EvidenceIsHonestAlways == EvidenceSpec => []EvidenceIsHonest
<1>1. EvidenceInit => EvidenceInv
  BY DEF EvidenceInit, EvidenceInv
<1>2. EvidenceInv /\ [EvidenceNext]_evidenceVars => EvidenceInv'
  BY EvidenceStep
<1>3. EvidenceInv => EvidenceIsHonest
  BY VerdictsBacked, DamageLoses, FaultsNotFailures DEF EvidenceIsHonest
<1> QED
  BY <1>1, <1>2, <1>3, PTL DEF EvidenceSpec

----
(* The journal, for any number of writers, elections and transitions. *)

InTransaction == {"replayed", "begun", "folded"}
Elected == {"ready", "begun", "folded"}

Row == [transition : Transitions, by : Nat]

\* The type of the variables, without the bound on the elections.
WriterType ==
  /\ rows \in Seq(Row)
  /\ generation \in Nat
  /\ pc \in [Writers -> {"out", "leased", "replayed", "ready", "begun", "folded", "poisoned"}]
  /\ mine \in [Writers -> Nat]
  /\ cache \in [Writers -> Seq(Transitions)]
  /\ wants \in [Writers -> Transitions \cup {Nil}]

TransactionIsHeld == \A w \in Writers : pc[w] \in InTransaction => begun = w
ReplayIsTruth == \A w \in Writers : pc[w] = "replayed" => cache[w] = Body(rows)
WantsOne == \A w \in Writers : pc[w] \in {"begun", "folded"} => wants[w] \in Transitions
FoldedIsNew == \A w \in Writers : pc[w] = "folded" => generation = mine[w] /\ ~Repeated(w)

\* Elections number the writers.
NumbersAreOwn ==
  /\ \A w \in Writers : pc[w] \in Elected => mine[w] <= generation
  /\ \A v, w \in Writers : pc[v] \in Elected /\ pc[w] \in Elected /\ mine[v] = mine[w] => v = w

WriterInv ==
  /\ WriterType
  /\ TransactionIsHeld /\ ReplayIsTruth /\ WantsOne /\ FoldedIsNew /\ NumbersAreOwn
  /\ CacheIsTruth

USE DEF InTransaction, Elected

LEMMA BodyType ==
  ASSUME NEW r \in Seq(Row)
  PROVE  /\ Body(r) \in Seq(Transitions) /\ Len(Body(r)) = Len(r)
         /\ \A i \in 1 .. Len(r) : Body(r)[i] = r[i].transition
<1>1. Len(r) \in Nat /\ \A i \in 1 .. Len(r) : r[i] \in Row
  BY LenProperties, ElementOfSeq
<1>2. /\ Body(r) \in [1 .. Len(r) -> Transitions]
      /\ \A i \in 1 .. Len(r) : Body(r)[i] = r[i].transition
  BY <1>1 DEF Body, Row
<1>3. Body(r) \in Seq(Transitions)
  BY <1>1, <1>2, SeqDef
<1> QED
  BY <1>1, <1>2, <1>3, LenProperties

LEMMA BodyAppend ==
  ASSUME NEW r \in Seq(Row), NEW e \in Row
  PROVE  /\ Append(r, e) \in Seq(Row) /\ Len(Append(r, e)) = Len(r) + 1
         /\ Append(r, e)[Len(r) + 1] = e /\ \A i \in 1 .. Len(r) : Append(r, e)[i] = r[i]
         /\ Body(Append(r, e)) = Append(Body(r), e.transition)
<1> DEFINE longer == Append(r, e)
           copied == Append(Body(r), e.transition)
<1>1. /\ longer \in Seq(Row) /\ Len(longer) = Len(r) + 1 /\ Len(r) \in Nat
      /\ longer[Len(r) + 1] = e /\ \A i \in 1 .. Len(r) : longer[i] = r[i]
  BY AppendProperties, LenProperties
<1>2. /\ copied \in Seq(Transitions) /\ Len(copied) = Len(r) + 1
      /\ copied[Len(r) + 1] = e.transition
      /\ \A i \in 1 .. Len(r) : copied[i] = r[i].transition
  <2>1. e.transition \in Transitions
    BY DEF Row
  <2> QED
    BY <2>1, BodyType, AppendProperties
<1>3. /\ Body(longer) \in Seq(Transitions) /\ Len(Body(longer)) = Len(r) + 1
      /\ \A i \in 1 .. Len(r) + 1 : Body(longer)[i] = longer[i].transition
  BY <1>1, BodyType
<1> HIDE DEF longer, copied
<1>4. ASSUME NEW i \in 1 .. Len(r) + 1 PROVE Body(longer)[i] = copied[i]
  <2>1. CASE i = Len(r) + 1
    BY <2>1, <1>1, <1>2, <1>3
  <2>2. CASE i # Len(r) + 1
    <3>1. i \in 1 .. Len(r)
      BY <2>2, <1>1
    <3> QED
      BY <3>1, <1>1, <1>2, <1>3
  <2> QED
    BY <2>1, <2>2
<1>5. Body(longer) = copied
  BY <1>2, <1>3, <1>4, SeqEqual
<1> QED
  BY <1>1, <1>5 DEF longer, copied

USE DEF Row

\* Whoever is in a transaction is the only one.
LEMMA OneTransaction ==
  ASSUME Nil \notin Writers, TransactionIsHeld,
         NEW v \in Writers, NEW w \in Writers, pc[v] \in InTransaction,
         pc[w] \in InTransaction \/ CanBegin
  PROVE  v = w
BY DEF TransactionIsHeld, CanBegin

\* A writer that forgets knows nothing.
LEMMA Forgotten ==
  ASSUME WriterType, NEW w \in Writers, Forget(w)
  PROVE  /\ mine' \in [Writers -> Nat] /\ cache' \in [Writers -> Seq(Transitions)]
         /\ wants' \in [Writers -> Transitions \cup {Nil}]
         /\ \A v \in Writers \ {w} :
              mine'[v] = mine[v] /\ cache'[v] = cache[v] /\ wants'[v] = wants[v]
<1>1. <<>> \in Seq(Transitions)
  BY EmptySeq
<1> QED
  BY <1>1 DEF Forget, WriterType

\* A step that elects nobody leaves the numbers their owners.
LEMMA NumbersKept ==
  ASSUME WriterType, NumbersAreOwn, generation' \in {generation, generation + 1},
         \A v \in Writers : pc'[v] \in Elected => pc[v] \in Elected /\ mine'[v] = mine[v]
  PROVE  NumbersAreOwn'
<1>1. ASSUME NEW v \in Writers, pc'[v] \in Elected PROVE mine'[v] <= generation'
  <2>1. mine[v] <= generation /\ mine'[v] = mine[v] /\ mine[v] \in Nat /\ generation \in Nat
    BY <1>1 DEF NumbersAreOwn, WriterType
  <2> QED
    BY <2>1
<1>2. ASSUME NEW u \in Writers, NEW v \in Writers, pc'[u] \in Elected, pc'[v] \in Elected,
             mine'[u] = mine'[v]
      PROVE  u = v
  BY <1>2 DEF NumbersAreOwn
<1> QED
  BY <1>1, <1>2 DEF NumbersAreOwn

\* A step that leaves the rows and the generation alone, and of every other writer
\* what it knows, keeps what the others rely on.
LEMMA LoneStep ==
  ASSUME WriterInv, NEW w \in Writers,
         UNCHANGED <<rows, generation>>,
         pc' \in [Writers -> {"out", "leased", "replayed", "ready", "begun", "folded", "poisoned"}],
         mine' \in [Writers -> Nat], cache' \in [Writers -> Seq(Transitions)],
         wants' \in [Writers -> Transitions \cup {Nil}],
         \A v \in Writers \ {w} : /\ pc'[v] = pc[v] /\ mine'[v] = mine[v]
                                  /\ cache'[v] = cache[v] /\ wants'[v] = wants[v]
                                  /\ pc[v] \in InTransaction => begun' = begun,
         \* what w itself has to keep
         pc'[w] \in InTransaction => begun' = w,
         pc'[w] = "replayed" => cache'[w] = Body(rows),
         pc'[w] \in {"begun", "folded"} => wants'[w] \in Transitions,
         pc'[w] = "folded" => generation = mine'[w] /\ ~Holds(cache'[w], wants'[w]),
         pc'[w] \in Elected => pc[w] \in Elected /\ mine'[w] = mine[w] /\ cache'[w] = cache[w]
  PROVE  WriterInv'
<1>1. WriterType'
  BY DEF WriterInv, WriterType
<1>2. TransactionIsHeld' /\ WantsOne'
  BY DEF WriterInv, TransactionIsHeld, WantsOne
<1>3. Body(rows)' = Body(rows)
  BY DEF Body
<1>4. ReplayIsTruth'
  BY <1>3 DEF WriterInv, ReplayIsTruth
<1>5. FoldedIsNew'
  BY DEF WriterInv, FoldedIsNew, Repeated
<1>6. NumbersAreOwn'
  BY NumbersKept DEF WriterInv
<1>7. CacheIsTruth'
  BY <1>3 DEF WriterInv, CacheIsTruth
<1> QED
  BY <1>1, <1>2, <1>4, <1>5, <1>6, <1>7 DEF WriterInv

\* The steps that write nothing and elect nobody.
LEMMA QuietKeeps ==
  ASSUME Nil \notin Writers, WriterInv, NEW w \in Writers,
         \/ AcquireLease(w) \/ BeginElection(w) \/ Fold(w) \/ Leave(w) \/ Dies(w)
         \/ \E t \in Transitions : BeginCommit(w, t)
  PROVE  WriterInv'
<1> USE DEF WriterInv
<1>1. CASE AcquireLease(w)
  <2> QED
    BY <1>1, LoneStep DEF AcquireLease, Step, WriterType
<1>2. CASE BeginElection(w)
  <2>1. CASE CanBegin /\ begun' = w /\ Step(w, "replayed") /\ cache' = [cache EXCEPT ![w] = Body(rows)]
    <3>1. \A v \in Writers \ {w} : pc[v] \notin InTransaction
      BY <2>1, <1>2, OneTransaction DEF CanBegin, TransactionIsHeld
    <3>2. Body(rows) \in Seq(Transitions)
      BY BodyType DEF WriterType
    <3> QED
      BY <1>2, <2>1, <3>1, <3>2, LoneStep DEF BeginElection, Step, WriterType
  <2>2. CASE ~CanBegin /\ Step(w, "out") /\ UNCHANGED <<begun, cache>>
    BY <1>2, <2>2, LoneStep DEF BeginElection, Step, WriterType
  <2> QED
    BY <1>2, <2>1, <2>2 DEF BeginElection
<1>3. CASE Fold(w)
  <2>1. \A v \in Writers \ {w} : pc[v] \notin InTransaction
    BY <1>3, OneTransaction DEF Fold
  <2>2. begun = w /\ wants[w] \in Transitions
    BY <1>3 DEF Fold, TransactionIsHeld, WantsOne
  <2>3. CASE Current(w) /\ ~Repeated(w) /\ Step(w, "folded") /\ UNCHANGED <<begun, mine, cache, wants, acked>>
    BY <1>3, <2>1, <2>2, <2>3, LoneStep DEF Fold, Step, WriterType, Current, Repeated
  <2>4. CASE Step(w, "ready") /\ wants' = [wants EXCEPT ![w] = Nil] /\ UNCHANGED <<mine, cache>>
    BY <1>3, <2>1, <2>4, LoneStep DEF Fold, Step, WriterType
  <2>5. CASE Step(w, "poisoned") /\ Forget(w)
    BY <1>3, <2>1, <2>5, Forgotten, LoneStep DEF Fold, Step, WriterType
  <2> QED
    BY <1>3, <2>3, <2>4, <2>5 DEF Fold
<1>4. CASE Leave(w)
  BY <1>4, Forgotten, LoneStep DEF Leave, Step, WriterType
<1>5. CASE Dies(w)
  <2>1. \A v \in Writers \ {w} : pc[v] \in InTransaction => begun' = begun
    BY <1>5 DEF Dies, Rollback, TransactionIsHeld
  <2>2. Forget(w) /\ pc' = [pc EXCEPT ![w] = "out"] /\ UNCHANGED <<rows, generation>>
    BY <1>5 DEF Dies, Step
  <2>3. /\ pc' \in [Writers -> {"out", "leased", "replayed", "ready", "begun", "folded", "poisoned"}]
        /\ pc'[w] = "out" /\ \A v \in Writers \ {w} : pc'[v] = pc[v]
    BY <2>2 DEF WriterType
  <2>4. /\ mine' \in [Writers -> Nat] /\ cache' \in [Writers -> Seq(Transitions)]
        /\ wants' \in [Writers -> Transitions \cup {Nil}]
        /\ \A v \in Writers \ {w} :
             mine'[v] = mine[v] /\ cache'[v] = cache[v] /\ wants'[v] = wants[v]
    BY <2>2, Forgotten
  <2> QED
    BY <2>1, <2>2, <2>3, <2>4, LoneStep
<1>6. ASSUME NEW t \in Transitions, BeginCommit(w, t) PROVE WriterInv'
  <2>1. CASE CanBegin /\ begun' = w /\ Step(w, "begun") /\ wants' = [wants EXCEPT ![w] = t]
             /\ UNCHANGED <<mine, cache>>
    <3>1. \A v \in Writers \ {w} : pc[v] \notin InTransaction
      BY <2>1, OneTransaction DEF CanBegin, TransactionIsHeld
    <3> QED
      BY <1>6, <2>1, <3>1, LoneStep DEF BeginCommit, Step, WriterType
  <2>2. CASE ~CanBegin /\ Step(w, "poisoned") /\ Forget(w) /\ UNCHANGED begun
    BY <1>6, <2>2, Forgotten, LoneStep DEF BeginCommit, Step, WriterType
  <2> QED
    BY <1>6, <2>1, <2>2 DEF BeginCommit
<1> QED
  BY <1>1, <1>2, <1>3, <1>4, <1>5, <1>6

\* An election numbers its writer above every other, with nobody in a transaction
\* but itself.
LEMMA ElectionKeeps ==
  ASSUME Nil \notin Writers, WriterInv, NEW w \in Writers, CommitElection(w)
  PROVE  WriterInv'
<1> USE DEF WriterInv
<1>1. /\ \A v \in Writers \ {w} : pc[v] \notin InTransaction
      /\ cache[w] = Body(rows) /\ Body(rows)' = Body(rows) /\ rows' = rows
  BY OneTransaction DEF CommitElection, ReplayIsTruth, Body
<1>2. \A v \in Writers : pc[v] \in Elected => mine[v] <= generation /\ mine[v] \in Nat
  BY DEF NumbersAreOwn, WriterType
<1>3. CASE /\ mine' = [mine EXCEPT ![w] = generation + 1] /\ generation' = generation + 1
           /\ Step(w, "ready") /\ UNCHANGED <<cache, wants>>
  <2>1. /\ pc'[w] = "ready" /\ mine'[w] = generation'
        /\ \A v \in Writers \ {w} : pc'[v] = pc[v] /\ mine'[v] = mine[v]
    BY <1>3 DEF Step, WriterType
  <2>2. generation \in Nat /\ generation' = generation + 1
    BY <1>3 DEF WriterType
  <2>3. WriterType'
    BY <1>1, <1>3, <2>2 DEF WriterType, Step
  <2>4. TransactionIsHeld' /\ ReplayIsTruth' /\ WantsOne' /\ FoldedIsNew'
    BY <1>1, <2>1 DEF TransactionIsHeld, ReplayIsTruth, WantsOne, FoldedIsNew
  <2>5. ASSUME NEW v \in Writers \ {w}, pc'[v] \in Elected
        PROVE  mine'[v] \in Nat /\ mine'[v] < generation' /\ pc[v] \in Elected
    BY <1>2, <2>1, <2>2, <2>5
  <2>6. NumbersAreOwn'
    <3>1. ASSUME NEW v \in Writers, pc'[v] \in Elected PROVE mine'[v] <= generation'
      BY <2>1, <2>2, <2>5, <3>1
    <3>2. ASSUME NEW u \in Writers, NEW v \in Writers, pc'[u] \in Elected, pc'[v] \in Elected,
                 mine'[u] = mine'[v]
          PROVE  u = v
      <4>1. CASE u # w /\ v # w
        BY <2>1, <3>2, <4>1 DEF NumbersAreOwn
      <4>2. CASE u = w \/ v = w
        BY <2>1, <2>2, <2>5, <3>2, <4>2
      <4> QED
        BY <4>1, <4>2
    <3> QED
      BY <3>1, <3>2 DEF NumbersAreOwn
  <2>7. CacheIsTruth'
    <3>1. ASSUME NEW v \in Writers, pc'[v] \in Elected, generation' = mine'[v]
          PROVE  cache'[v] = Body(rows)
      BY <1>1, <1>3, <2>2, <2>5, <3>1
    <3> QED
      BY <1>1, <3>1 DEF CacheIsTruth
  <2> QED
    BY <2>3, <2>4, <2>6, <2>7
<1>4. CASE Step(w, "out") /\ Forget(w) /\ generation' \in {generation, generation + 1}
  <2>1. /\ pc'[w] = "out" /\ \A v \in Writers \ {w} : pc'[v] = pc[v]
        /\ pc' \in [Writers -> {"out", "leased", "replayed", "ready", "begun", "folded", "poisoned"}]
    BY <1>4 DEF Step, WriterType
  <2>2. /\ mine' \in [Writers -> Nat] /\ cache' \in [Writers -> Seq(Transitions)]
        /\ wants' \in [Writers -> Transitions \cup {Nil}]
        /\ \A v \in Writers \ {w} :
             mine'[v] = mine[v] /\ cache'[v] = cache[v] /\ wants'[v] = wants[v]
    BY <1>4, Forgotten
  <2>3. generation \in Nat /\ generation' \in Nat /\ generation <= generation'
    BY <1>4 DEF WriterType
  <2>4. WriterType'
    BY <1>1, <2>1, <2>2, <2>3 DEF WriterType
  <2>5. TransactionIsHeld' /\ ReplayIsTruth' /\ WantsOne' /\ FoldedIsNew'
    BY <1>1, <2>1 DEF TransactionIsHeld, ReplayIsTruth, WantsOne, FoldedIsNew
  <2>6. NumbersAreOwn'
    <3>1. \A v \in Writers : pc'[v] \in Elected => pc[v] \in Elected /\ mine'[v] = mine[v]
      BY <2>1, <2>2
    <3> QED
      BY <1>4, <3>1, NumbersKept
  <2>7. CacheIsTruth'
    <3>1. ASSUME NEW v \in Writers, pc'[v] \in Elected, generation' = mine'[v]
          PROVE  cache'[v] = Body(rows')
      <4>1. v # w
        BY <2>1, <3>1
      <4>2. pc[v] \in Elected /\ mine'[v] = mine[v] /\ cache'[v] = cache[v]
        BY <2>1, <2>2, <3>1, <4>1
      <4>3. generation = mine[v]
        BY <1>2, <1>4, <2>3, <3>1, <4>2
      <4> QED
        BY <1>1, <4>2, <4>3 DEF CacheIsTruth
    <3>2. Body(rows)' = Body(rows')
      BY DEF Body
    <3> QED
      BY <3>1, <3>2 DEF CacheIsTruth
  <2> QED
    BY <2>4, <2>5, <2>6, <2>7
<1> QED
  BY <1>3, <1>4 DEF CommitElection

\* What a commit inserts, its writer folded onto everything committed, and that is
\* no transition the journal has.
LEMMA CommitIsNew ==
  ASSUME WriterInv, NEW w \in Writers, pc[w] = "folded"
  PROVE  /\ begun = w /\ generation = mine[w] /\ cache[w] = Body(rows) /\ wants[w] \in Transitions
         /\ [transition |-> wants[w], by |-> mine[w]] \in Row
         /\ Inserted(w) \in Seq(Row) /\ Body(Inserted(w)) = Append(Body(rows), wants[w])
         /\ \A i \in 1 .. Len(rows) : rows[i].transition # wants[w]
<1> DEFINE row == [transition |-> wants[w], by |-> mine[w]]
<1>1. /\ begun = w /\ generation = mine[w] /\ ~Repeated(w) /\ wants[w] \in Transitions /\ rows \in Seq(Row)
      /\ mine[w] \in Nat
  BY DEF WriterInv, TransactionIsHeld, FoldedIsNew, WantsOne, WriterType
<1>2. cache[w] = Body(rows)
  BY <1>1 DEF WriterInv, CacheIsTruth
<1>3. row \in Row /\ row.transition = wants[w] /\ Inserted(w) = Append(rows, row)
  BY <1>1 DEF Inserted
<1> HIDE DEF row
<1>4. Inserted(w) \in Seq(Row) /\ Body(Inserted(w)) = Append(Body(rows), wants[w])
  <2>1. Append(rows, row) \in Seq(Row) /\ Body(Append(rows, row)) = Append(Body(rows), row.transition)
    BY <1>1, <1>3, BodyAppend
  <2> QED
    BY <1>3, <2>1
<1>5. \A i \in 1 .. Len(rows) : rows[i].transition # wants[w]
  BY <1>1, <1>2, BodyType DEF Repeated, Holds
<1> QED
  BY <1>1, <1>2, <1>3, <1>4, <1>5 DEF row

LEMMA CommitKeeps ==
  ASSUME Nil \notin Writers, WriterInv, NEW w \in Writers, Commit(w)
  PROVE  WriterInv'
<1> USE DEF WriterInv
<1>1. /\ \A v \in Writers \ {w} : pc[v] \notin InTransaction
      /\ pc[w] = "folded"
  BY OneTransaction DEF Commit
<1>2. /\ begun = w /\ generation = mine[w] /\ cache[w] = Body(rows) /\ wants[w] \in Transitions
      /\ Inserted(w) \in Seq(Row) /\ Body(Inserted(w)) = Append(Body(rows), wants[w])
  BY <1>1, CommitIsNew
<1>3. ASSUME NEW v \in Writers \ {w}, pc[v] \in Elected PROVE generation # mine[v]
  BY <1>1, <1>2, <1>3 DEF NumbersAreOwn
<1>4. rows \in Seq(Row)
  BY DEF WriterType
<1>5. CASE Poison(w) /\ rows' \in {rows, Inserted(w)}
  <2>1. /\ pc'[w] = "poisoned" /\ \A v \in Writers \ {w} : pc'[v] = pc[v]
        /\ pc' \in [Writers -> {"out", "leased", "replayed", "ready", "begun", "folded", "poisoned"}]
    BY <1>5 DEF Poison, Step, WriterType
  <2>2. /\ mine' \in [Writers -> Nat] /\ cache' \in [Writers -> Seq(Transitions)]
        /\ wants' \in [Writers -> Transitions \cup {Nil}]
        /\ \A v \in Writers \ {w} :
             mine'[v] = mine[v] /\ cache'[v] = cache[v] /\ wants'[v] = wants[v]
    BY <1>5, Forgotten DEF Poison
  <2>3. rows' \in Seq(Row) /\ generation' = generation
    BY <1>2, <1>4, <1>5 DEF Commit
  <2>4. WriterType'
    BY <2>1, <2>2, <2>3 DEF WriterType
  <2>5. TransactionIsHeld' /\ ReplayIsTruth' /\ WantsOne' /\ FoldedIsNew'
    BY <1>1, <2>1 DEF TransactionIsHeld, ReplayIsTruth, WantsOne, FoldedIsNew
  <2>6. NumbersAreOwn'
    <3>1. \A v \in Writers : pc'[v] \in Elected => pc[v] \in Elected /\ mine'[v] = mine[v]
      BY <2>1, <2>2
    <3> QED
      BY <2>3, <3>1, NumbersKept
  <2>7. CacheIsTruth'
    <3>1. ASSUME NEW v \in Writers, pc'[v] \in Elected PROVE generation' # mine'[v]
      BY <1>3, <2>1, <2>2, <2>3, <3>1
    <3> QED
      BY <3>1 DEF CacheIsTruth
  <2> QED
    BY <2>4, <2>5, <2>6, <2>7
<1>6. CASE /\ rows' = Inserted(w) /\ Step(w, "ready")
           /\ cache' = [cache EXCEPT ![w] = Append(@, wants[w])]
           /\ wants' = [wants EXCEPT ![w] = Nil] /\ UNCHANGED <<mine, generation>>
  <2>1. /\ pc'[w] = "ready" /\ \A v \in Writers \ {w} : pc'[v] = pc[v]
        /\ pc' \in [Writers -> {"out", "leased", "replayed", "ready", "begun", "folded", "poisoned"}]
    BY <1>6 DEF Step, WriterType
  <2>2. rows' \in Seq(Row) /\ cache'[w] = Body(rows')
    BY <1>2, <1>6 DEF WriterType
  <2>3. cache' \in [Writers -> Seq(Transitions)]
    <3>1. cache[w] \in Seq(Transitions) /\ Append(cache[w], wants[w]) \in Seq(Transitions)
      BY <1>2, AppendProperties DEF WriterType
    <3> QED
      BY <1>6, <3>1 DEF WriterType
  <2>4. WriterType'
    BY <1>6, <2>1, <2>2, <2>3 DEF WriterType
  <2>5. TransactionIsHeld' /\ ReplayIsTruth' /\ WantsOne' /\ FoldedIsNew'
    BY <1>1, <2>1 DEF TransactionIsHeld, ReplayIsTruth, WantsOne, FoldedIsNew
  <2>6. NumbersAreOwn'
    <3>1. \A v \in Writers : pc'[v] \in Elected => pc[v] \in Elected /\ mine'[v] = mine[v]
      BY <1>1, <1>6, <2>1
    <3> QED
      BY <1>6, <3>1, NumbersKept
  <2>7. CacheIsTruth'
    <3>1. ASSUME NEW v \in Writers, pc'[v] \in Elected, generation' = mine'[v]
          PROVE  cache'[v] = Body(rows')
      BY <1>3, <1>6, <2>1, <2>2, <3>1
    <3>2. Body(rows)' = Body(rows')
      BY DEF Body
    <3> QED
      BY <3>1, <3>2 DEF CacheIsTruth
  <2> QED
    BY <2>4, <2>5, <2>6, <2>7
<1> QED
  BY <1>5, <1>6 DEF Commit

LEMMA WriterStep ==
  ASSUME Nil \notin Writers, WriterInv, [WriterNext]_writerVars
  PROVE  WriterInv'
<1>1. CASE UNCHANGED <<rows, generation, begun, writer>>
  <2>1. /\ UNCHANGED <<rows, generation, begun>>
        /\ pc' = pc /\ mine' = mine /\ cache' = cache /\ wants' = wants
    BY <1>1 DEF writer
  <2>2. Body(rows)' = Body(rows)
    BY <2>1 DEF Body
  <2>3. WriterType' /\ TransactionIsHeld' /\ ReplayIsTruth' /\ WantsOne'
    BY <2>1, <2>2 DEF WriterInv, WriterType, TransactionIsHeld, ReplayIsTruth, WantsOne
  <2>4. FoldedIsNew' /\ NumbersAreOwn' /\ CacheIsTruth'
    BY <2>1, <2>2 DEF WriterInv, FoldedIsNew, Repeated, NumbersAreOwn, CacheIsTruth
  <2> QED
    BY <2>3, <2>4 DEF WriterInv
<1>2. ASSUME NEW w \in Writers,
             \/ AcquireLease(w) \/ BeginElection(w) \/ CommitElection(w)
             \/ \E t \in Transitions : BeginCommit(w, t)
             \/ Fold(w) \/ Commit(w) \/ Leave(w) \/ Dies(w)
      PROVE  WriterInv'
  BY <1>2, QuietKeeps, ElectionKeeps, CommitKeeps
<1> QED
  BY <1>1, <1>2 DEF WriterNext, Severed, writerVars, store

LEMMA WriterInitially == WriterInit => WriterInv
<1> SUFFICES ASSUME WriterInit PROVE WriterInv
  OBVIOUS
<1>1. <<>> \in Seq(Row) /\ <<>> \in Seq(Transitions)
  BY EmptySeq
<1> QED
  BY <1>1 DEF WriterInit, WriterInv, WriterType, TransactionIsHeld, ReplayIsTruth, WantsOne,
              FoldedIsNew, NumbersAreOwn, CacheIsTruth

\* What was acknowledged is in the rows.
AckedInv ==
  /\ WriterInv
  /\ \A a \in acked : a.sequence \in 1 .. Len(rows)
  /\ AckedIsCommitted

LEMMA AckedStep ==
  ASSUME Nil \notin Writers, AckedInv, [WriterNext]_writerVars
  PROVE  AckedInv'
<1>1. WriterInv'
  BY WriterStep DEF AckedInv
<1>2. rows \in Seq(Row) /\ Len(rows) \in Nat
  BY LenProperties DEF AckedInv, WriterInv, WriterType
<1>3. CASE UNCHANGED <<rows, acked>>
  BY <1>1, <1>3 DEF AckedInv, AckedIsCommitted
<1>4. ASSUME NEW w \in Writers, Fold(w), acked' # acked PROVE AckedInv'
  <2>1. /\ pc[w] = "begun" /\ rows' = rows /\ generation = mine[w]
        /\ acked' = acked \cup {[sequence |-> i, transition |-> wants[w]] :
             i \in {j \in 1 .. Len(cache[w]) : cache[w][j] = wants[w]}}
    BY <1>4 DEF Fold, Current
  <2>2. cache[w] = Body(rows)
    BY <2>1 DEF AckedInv, WriterInv, CacheIsTruth
  <2>3. /\ Len(cache[w]) = Len(rows)
        /\ \A i \in 1 .. Len(rows) : cache[w][i] = rows[i].transition
    BY <1>2, <2>2, BodyType
  <2>4. ASSUME NEW a \in acked'
        PROVE  a.sequence \in 1 .. Len(rows) /\ rows[a.sequence].transition = a.transition
    BY <2>1, <2>3 DEF AckedInv, AckedIsCommitted
  <2> QED
    BY <1>1, <1>2, <2>1, <2>4 DEF AckedInv, AckedIsCommitted
<1>5. ASSUME NEW w \in Writers, Commit(w), rows' # rows PROVE AckedInv'
  <2> DEFINE row == [transition |-> wants[w], by |-> mine[w]]
  <2>1. /\ row \in Row
        /\ \A i \in 1 .. Len(rows) : rows[i].transition # wants[w]
    BY <1>5, CommitIsNew DEF AckedInv, Commit
  <2>2. /\ rows' = Append(rows, row)
        /\ \/ acked' = acked
           \/ acked' = acked \cup {[sequence |-> Len(rows'), transition |-> wants[w]]}
    BY <1>5 DEF Commit, Inserted
  <2>3. row.transition = wants[w]
    OBVIOUS
  <2> HIDE DEF row
  <2>4. /\ Len(rows') = Len(rows) + 1 /\ rows'[Len(rows) + 1] = row
        /\ \A i \in 1 .. Len(rows) : rows'[i] = rows[i]
    BY <1>2, <2>1, <2>2, BodyAppend
  <2>5. ASSUME NEW a \in acked'
        PROVE  a.sequence \in 1 .. Len(rows') /\ rows'[a.sequence].transition = a.transition
    <3>1. CASE a \in acked
      BY <1>2, <2>4, <3>1 DEF AckedInv, AckedIsCommitted
    <3>2. CASE a = [sequence |-> Len(rows'), transition |-> wants[w]]
      BY <1>2, <2>3, <2>4, <3>2
    <3> QED
      BY <2>2, <3>1, <3>2
  <2>6. ASSUME NEW i \in 1 .. Len(rows'), NEW j \in 1 .. Len(rows'),
               rows'[i].transition = rows'[j].transition
        PROVE  i = j
    <3>1. CASE i = Len(rows) + 1 \/ j = Len(rows) + 1
      <4>1. \A k \in 1 .. Len(rows) : rows'[k].transition # row.transition
        BY <2>1, <2>3, <2>4
      <4>2. \A k \in 1 .. Len(rows') : k = Len(rows) + 1 \/ k \in 1 .. Len(rows)
        BY <1>2, <2>4
      <4>3. rows'[Len(rows) + 1].transition = row.transition
        BY <2>4
      <4> QED
        BY <2>6, <3>1, <4>1, <4>2, <4>3
    <3>2. CASE i # Len(rows) + 1 /\ j # Len(rows) + 1
      <4>1. i \in 1 .. Len(rows) /\ j \in 1 .. Len(rows)
        BY <1>2, <2>4, <3>2
      <4> QED
        BY <2>4, <2>6, <4>1 DEF AckedInv, AckedIsCommitted
    <3> QED
      BY <3>1, <3>2
  <2>7. \A a \in acked' : a.sequence <= Len(rows')
    BY <1>2, <2>4, <2>5
  <2> QED
    BY <1>1, <2>5, <2>6, <2>7 DEF AckedInv, AckedIsCommitted
<1>6. ASSUME NEW w \in Writers, Commit(w), rows' = rows PROVE UNCHANGED <<rows, acked>>
  <2>1. CASE rows' = Inserted(w)
    <3>1. [transition |-> wants[w], by |-> mine[w]] \in Row
      BY <1>6, CommitIsNew DEF AckedInv, Commit
    <3>2. Len(Inserted(w)) = Len(rows) + 1
      BY <1>2, <3>1, BodyAppend DEF Inserted
    <3> QED
      BY <1>2, <1>6, <2>1, <3>2
  <2> QED
    BY <1>6, <2>1 DEF Commit
<1>7. UNCHANGED <<rows, acked>> \/ \E w \in Writers : Fold(w) \/ Commit(w)
  BY DEF WriterNext, writerVars, store, AcquireLease, BeginElection, CommitElection, BeginCommit, Leave,
         Dies, Severed
<1>8. ASSUME NEW w \in Writers, Fold(w) PROVE AckedInv'
  BY <1>3, <1>4, <1>8 DEF Fold
<1>9. ASSUME NEW w \in Writers, Commit(w) PROVE AckedInv'
  BY <1>3, <1>5, <1>6, <1>9
<1> QED
  BY <1>3, <1>7, <1>8, <1>9

\* What is inserted bears the generation of the day.
LEMMA SilentAlways ==
  ASSUME Nil \notin Writers, AckedInv, [WriterNext]_writerVars
  PROVE  [SilentStep]_writerVars
<1> SUFFICES ASSUME rows' # rows PROVE rows'[Len(rows')].by = generation
  BY DEF SilentStep
<1>1. PICK w \in Writers : Commit(w)
  BY DEF WriterNext, writerVars, store, AcquireLease, BeginElection, CommitElection, BeginCommit, Fold,
         Leave, Dies, Severed
<1> DEFINE row == [transition |-> wants[w], by |-> mine[w]]
<1>2. row \in Row /\ row.by = generation /\ rows \in Seq(Row)
  BY <1>1, CommitIsNew DEF AckedInv, WriterInv, WriterType, Commit
<1>3. rows' = Append(rows, row)
  BY <1>1 DEF Commit, Inserted
<1> HIDE DEF row
<1>4. Len(rows') = Len(rows) + 1 /\ rows'[Len(rows) + 1] = row
  BY <1>2, <1>3, BodyAppend
<1> QED
  BY <1>2, <1>4

\* JournalIsTrue (execution-journal.ts): with every interleaving of any number of
\* writers, each of which may be stopped, deposed or die between two steps, and with
\* COMMITs that take effect and report an error, what a caller was told is committed
\* is in the journal where it was told, no transition is there twice, the writer that
\* may still write decides on all that is committed, and one that a later election
\* deposed writes no more.
THEOREM JournalIsTrueAlways ==
  ASSUME Nil \notin Writers
  PROVE  WriterSpec => JournalIsTrue
<1>1. WriterInit => AckedInv
  BY WriterInitially DEF WriterInit, AckedInv, AckedIsCommitted
<1>2. AckedInv /\ [WriterNext]_writerVars => AckedInv'
  BY AckedStep
<1>3. AckedInv => AckedIsCommitted /\ CacheIsTruth
  BY DEF AckedInv, WriterInv
<1>4. AckedInv /\ [WriterNext]_writerVars => [SilentStep]_writerVars
  BY SilentAlways
<1> QED
  BY <1>1, <1>2, <1>3, <1>4, PTL DEF WriterSpec, JournalIsTrue
====
