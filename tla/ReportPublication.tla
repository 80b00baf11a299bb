---- MODULE ReportPublication ----
(***************************************************************************)
(* The report of an experiment and the receipt of its delivery:            *)
(* deliverComparisonReport of src/campaign/report-delivery.ts over         *)
(* sealReport (seal.ts) and publishAt, publishReportFile                   *)
(* (report-publication.ts); readReportDelivery for the status.             *)
(*                                                                         *)
(* A delivery goes file by file: what exists must be the same bytes, what  *)
(* does not is linked in whole, and in either case the directory is synced *)
(* before the next.  The publishers (the controller when its session ends, *)
(* any operator's report command) race with each other, die between two    *)
(* calls, and the host may lose power.  The journal advances and the       *)
(* results' evidence may stop authenticating under them.  No two readings  *)
(* of the clock that could meet in one receipt are the same: of two        *)
(* publishers, or before and after an outage.                              *)
(*                                                                         *)
(* A report is what it is derived from: the committed prefix and whether   *)
(* the evidence authenticates.  Left out: its contents, and the staging of *)
(* a file before its link (DurableMarker).                                 *)
(***************************************************************************)
EXTENDS Naturals, Sequences, FiniteSets

CONSTANTS
  Publishers,
  Last,         \* the prefix at which the termination is verified
  Completed,    \* whether the execution ended as completed
  MaxFaults,    \* bound: power losses and damaged results
  None

VARIABLES
  prefix,       \* the committed prefix; 0: the session is active
  evidence,     \* whether every bound artifact still authenticates
  files,        \* per directory: name -> bytes, as processes see it
  onDisk,       \* per directory: the names a power loss would spare
  run,          \* per publisher: where its delivery is
  told,         \* history, per directory: the deliveries shown to somebody
  faults

shelf == <<files, onDisk>>
reportVars == <<prefix, evidence, shelf, run, told, faults>>

Reports == [at : 1..Last, whole : BOOLEAN]

\* The receipts that the clock and the publishers can make.
Receipts == [by : Publishers, after : 0..MaxFaults]

ASSUME ReportAssumption ==
  /\ Last \in Nat /\ MaxFaults \in Nat /\ Completed \in BOOLEAN
  /\ None \notin Reports \cup Receipts

Names == {"report.json", "report.md", "report-seal.json", "report-delivery.json"}
Receipt == "report-delivery.json"

\* Complete analysis needs evidence; the termination, the last prefix.
Terminal(r) == Completed /\ r.at = Last /\ r.whole

\* The snapshots are named for the prefix and the digest.
Snapshot(r) == <<"report-snapshots", r>>
Campaign == <<"campaign">>
Directory(r) == IF Terminal(r) THEN Campaign ELSE Snapshot(r)
Directories == {Campaign} \cup {Snapshot(r) : r \in Reports}

Idle == [at |-> "idle", report |-> None, todo |-> <<>>, mine |-> None]

ReportInit ==
  /\ prefix = 0 /\ evidence = TRUE
  /\ files = [d \in Directories |-> [n \in Names |-> None]]
  /\ onDisk = [d \in Directories |-> {}]
  /\ run = [p \in Publishers |-> Idle]
  /\ told = [d \in Directories |-> {}]
  /\ faults = 0

Now(p) == [by |-> p, after |-> faults]

Place(p) == Directory(run[p].report)
Name(p) == Head(run[p].todo)
Linked(d) == {n \in Names : files[d][n] # None}
Moves(p, to) == run' = [run EXCEPT ![p].at = to]

\* readComparisonReport: one committed prefix of a session that is over, and
\* the evidence as it is now.
Derive(p) ==
  /\ run[p].at = "idle"
  /\ prefix > 0
  /\ LET r == [at |-> prefix, whole |-> evidence]
     IN  run' = [run EXCEPT ![p] =
           [Idle EXCEPT !.report = r, !.at = IF Terminal(r) THEN "seal" ELSE "file",
                        !.todo = IF Terminal(r)
                                 THEN <<"report.json", "report.md", "report-seal.json">>
                                 ELSE <<"report.json", "report.md">>]]
  /\ UNCHANGED <<prefix, evidence, shelf, told, faults>>

\* A seal is of the exact final prefix, derived again to the same bytes.
Seal(p) ==
  /\ run[p].at = "seal"
  /\ Moves(p, IF run[p].report = [at |-> prefix, whole |-> evidence] THEN "file" ELSE "failed")
  /\ UNCHANGED <<prefix, evidence, shelf, told, faults>>

BytesFor(p) == IF Name(p) = Receipt THEN run[p].mine ELSE run[p].report

\* A file is published: on to the next, or the delivery is returned.
Passes(p) ==
  IF Name(p) = Receipt
  THEN /\ run' = [run EXCEPT ![p] = Idle]
       /\ told' = [told EXCEPT ![Place(p)] = @ \cup {run[p].mine}]
  ELSE /\ run' = [run EXCEPT ![p].at = "file", ![p].todo = Tail(@)]
       /\ UNCHANGED told

\* Mutant of Confirm: the same bytes in sight are taken as published.
ConfirmBySight(p) ==
  IF files[Place(p)][Name(p)] # BytesFor(p) THEN Moves(p, "conflict") /\ UNCHANGED told
  ELSE Passes(p)

\* The same bytes, once the directory is synced; any others are a conflict.
Confirm(p) ==
  /\ Moves(p, IF files[Place(p)][Name(p)] = BytesFor(p) THEN "sync" ELSE "conflict")
  /\ UNCHANGED told

\* publishReportFile.  A file in sight stays, so it is compared at once.
Look(p) ==
  /\ run[p].at = "file" /\ run[p].todo # <<>>
  /\ IF files[Place(p)][Name(p)] # None THEN Confirm(p)
     ELSE Moves(p, "link") /\ UNCHANGED told
  /\ UNCHANGED <<prefix, evidence, shelf, faults>>

Link(p) ==
  /\ run[p].at = "link"
  /\ IF files[Place(p)][Name(p)] # None
     THEN Confirm(p) /\ UNCHANGED files
     ELSE /\ files' = [files EXCEPT ![Place(p)][Name(p)] = BytesFor(p)]
          /\ Moves(p, "sync") /\ UNCHANGED told
  /\ UNCHANGED <<prefix, evidence, onDisk, faults>>

SyncDirectory(p) ==
  /\ run[p].at = "sync"
  /\ onDisk' = [onDisk EXCEPT ![Place(p)] = Linked(Place(p))]
  /\ Passes(p)
  /\ UNCHANGED <<prefix, evidence, files, faults>>

\* The report is out: a receipt that is there is the one, otherwise the clock
\* is read for a new one, of the prefix the report has.
Deliver(p) ==
  /\ run[p].at = "file" /\ run[p].todo = <<>>
  /\ LET there == files[Place(p)][Receipt]
         Publishes(receipt) == run' = [run EXCEPT ![p].mine = receipt, ![p].todo = <<Receipt>>]
     IN  \/ there # None /\ Publishes(there)
         \/ there = None /\ prefix = run[p].report.at /\ Publishes(Now(p))
         \/ there = None /\ prefix # run[p].report.at /\ Moves(p, "failed")
  /\ UNCHANGED <<prefix, evidence, shelf, told, faults>>

\* Another publisher's receipt won; of any other file it is an error.
Adopt(p) ==
  /\ run[p].at = "conflict"
  /\ IF Name(p) = Receipt /\ files[Place(p)][Receipt] # None
     THEN run' = [run EXCEPT ![p].mine = files[Place(p)][Receipt], ![p].at = "file"]
     ELSE Moves(p, "failed")
  /\ UNCHANGED <<prefix, evidence, shelf, told, faults>>

\* An error of any call, or the end of the process.
Fails(p) ==
  /\ run[p].at # "idle"
  /\ run' = [run EXCEPT ![p] = Idle]
  /\ UNCHANGED <<prefix, evidence, shelf, told, faults>>

----
(* The status command, the journal and the host. *)

\* readReportDelivery: a receipt in sight is shown once its directory is
\* synced; a sync that fails shows none.
Status ==
  /\ prefix > 0
  /\ LET d == Directory([at |-> prefix, whole |-> evidence])
     IN  /\ files[d][Receipt] # None
         /\ onDisk' = [onDisk EXCEPT ![d] = Linked(d)]
         /\ told' = [told EXCEPT ![d] = @ \cup {files[d][Receipt]}]
  /\ UNCHANGED <<prefix, evidence, files, run, faults>>

\* The session is over, ended, terminated.
Committed ==
  /\ prefix < Last
  /\ prefix' = prefix + 1
  /\ UNCHANGED <<evidence, shelf, run, told, faults>>

\* An artifact of the results is damaged or gone.
EvidenceFails ==
  /\ evidence /\ evidence' = FALSE
  /\ faults < MaxFaults /\ faults' = faults + 1
  /\ UNCHANGED <<prefix, shelf, run, told>>

\* Any entry that was not synced may survive or not.
PowerLoss ==
  /\ faults < MaxFaults
  /\ faults' = faults + 1
  /\ \E d \in Directories :
       \E left \in SUBSET (Linked(d) \ onDisk[d]) :
         LET kept == left \cup onDisk[d]
         IN  /\ files' = [e \in Directories |->
                           [n \in Names |->
                              IF (IF e = d THEN n \in kept ELSE n \in onDisk[e])
                              THEN files[e][n] ELSE None]]
             /\ onDisk' = [onDisk EXCEPT ![d] = kept]
  /\ run' = [p \in Publishers |-> Idle]
  /\ UNCHANGED <<prefix, evidence, told>>

ReportNext ==
  \/ \E p \in Publishers :
       Derive(p) \/ Seal(p) \/ Look(p) \/ Link(p) \/ SyncDirectory(p)
       \/ Deliver(p) \/ Adopt(p) \/ Fails(p)
  \/ Status \/ Committed \/ EvidenceFails \/ PowerLoss

ReportSpec == ReportInit /\ [][ReportNext]_reportVars

----
(* Properties. *)

\* Whoever asks, and whatever was lost in between, one report has one
\* delivery, and the one that was shown is the one on record.
DeliveredOnce ==
  \A d \in Directories :
    told[d] # {} => told[d] = {files[d][Receipt]} /\ Receipt \in onDisk[d]

\* A receipt stands only beside the whole report it is for, all of one
\* derivation, and a seal only on the report of the last prefix.
ReceiptCrownsReport ==
  \A d \in Directories :
    LET bytes == {files[d][n] : n \in IF d = Campaign THEN Names \ {Receipt}
                                      ELSE {"report.json", "report.md"}}
    IN  files[d][Receipt] # None => \E r \in Reports : bytes = {r} /\ Directory(r) = d

ReportsAreKept == DeliveredOnce /\ ReceiptCrownsReport
====
