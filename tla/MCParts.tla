---- MODULE MCParts ----
(***************************************************************************)
(* The parts of the system that are checked by themselves, side by side.   *)
(* A behaviour is one part's, chosen at the start.                         *)
(***************************************************************************)
EXTENDS JournalWriter, DurableMarker, ReportPublication, ApplianceJob, Contention,
  AttemptEvidence, TLC

CONSTANTS nobody, w1, w2, p1, p2, p3, j1, j2

VARIABLE part

owned == <<writerVars, markerVars, reportVars, jobVars, contentionVars, evidenceVars>>
all == <<part, owned>>

----
(* The instances. *)

\* Two that decide one thing and one that decides another.
Bodies == p1 :> "a" @@ p2 :> "a" @@ p3 :> "b"

\* Two publishers, a report before the termination and one after it.
Publishing == Permutations({p1, p2})

\* A job beside one of its kind or of another, and a mishap; one that is cancelled,
\* beside one of its kind or another, or with a mishap.
Asking(a, b, cancelled, n) ==
  [command |-> j1 :> a @@ j2 :> b, cancelled |-> cancelled, mishaps |-> n]
Asked ==
  {Asking("run", "run", {}, 1), Asking("run", "run-all", {}, 1), Asking("run-all", "run-all", {}, 1),
   Asking("run", "run", {j1}, 0), Asking("run", "prepare", {j1}, 1),
   Asking("run-all", "prepare", {j1}, 0)}

\* One artifact that is lost, under everything that the others may say, or two.
Graded(verdict) == [bound |-> TRUE, verdict |-> verdict]
Said ==
  [stranger |-> FALSE, final |-> "pass", gauntlet |-> Graded("pass"), error |-> "null",
   checks |-> [c1 |-> [status |-> "completed", passed |-> TRUE],
               c2 |-> [status |-> "completed", passed |-> FALSE]],
   subject |-> 1, grader |-> 1, priced |-> TRUE, requestsComplete |-> TRUE, usage |-> 1,
   usagePriced |-> TRUE, bound |-> TRUE, consistent |-> TRUE, rows |-> Graded("fail"),
   captured |-> TRUE, conversation |-> "completed"]
Sayings ==
  {Said, [Said EXCEPT !.stranger = TRUE], [Said EXCEPT !.final = Unsaid],
   [Said EXCEPT !.gauntlet = Unsaid], [Said EXCEPT !.gauntlet.bound = FALSE],
   [Said EXCEPT !.error = "capture"],
   [Said EXCEPT !.error = "other", !.checks.c2.status = "unclassified"],
   [Said EXCEPT !.checks.c1.status = "errored"], [Said EXCEPT !.checks.c2.status = "absent"],
   [Said EXCEPT !.checks.c2.status = "unclassified"],
   [Said EXCEPT !.subject = Unsaid], [Said EXCEPT !.subject = Unsaid, !.usagePriced = FALSE],
   [Said EXCEPT !.subject = Unsaid, !.usage = Unsaid], [Said EXCEPT !.grader = Unsaid],
   [Said EXCEPT !.priced = FALSE], [Said EXCEPT !.requestsComplete = FALSE],
   [Said EXCEPT !.bound = FALSE], [Said EXCEPT !.consistent = FALSE],
   [Said EXCEPT !.captured = FALSE], [Said EXCEPT !.conversation = "stopped"]}

Intact == [k \in Kinds |-> "good"]
Lost == {"absent", "damaged", "malformed"}
Single == [Intact EXCEPT !["roles"] = "absent", !["conversation"] = "absent"]
Losing(kept, k, f) == [kept EXCEPT ![k] = f]
Pairwise ==
  {Losing(Losing(Intact, k, f), l, g) : k \in Kinds, l \in Kinds, f \in Lost, g \in Lost}
Bundled ==
  [files : {Intact, Single} \cup {Losing(w, k, f) : w \in {Intact, Single}, k \in Kinds, f \in Lost},
   says : Sayings, manifest : {TRUE}]
  \cup [files : Pairwise, manifest : {TRUE},
        says : {Said, [Said EXCEPT !.conversation = "stopped", !.error = "other"]}]
  \cup {[files |-> Intact, says |-> Said, manifest |-> FALSE]}

Required ==
  {[mode |-> m,
    checks |-> {[id |-> "c1", process |-> FALSE], [id |-> "c2", process |-> TRUE]},
    criteria |-> {[id |-> "k1", classes |-> {"visible_delivery"}, refs |-> {}],
                  [id |-> "k2", classes |-> {"check_dispositions", "normalized_trace", "output"},
                   refs |-> {"c1"}]}] : m \in {"qa", "conversation"}}

----
(* The behaviours. *)

PartsInit ==
  /\ WriterInit /\ MarkerInit /\ ReportInit /\ JobInit /\ ContentionInit
  /\ part \in {"journal", "marker", "report", "job", "audit", "evidence"}
  /\ part # "job" => job[j1].command = "run" /\ job[j2].command = "run" /\ mishaps = 0
  /\ \/ part = "evidence" /\ EvidenceInit
     \/ part # "evidence" /\ bundle = Unsaid /\ required = Unsaid
        /\ reading = Unsaid /\ measured = Unsaid

PartsNext ==
  \/ /\ part = "journal" /\ WriterNext
     /\ UNCHANGED <<part, markerVars, reportVars, jobVars, contentionVars, evidenceVars>>
  \/ /\ part = "marker" /\ MarkerNext
     /\ UNCHANGED <<part, writerVars, reportVars, jobVars, contentionVars, evidenceVars>>
  \/ /\ part = "report" /\ ReportNext
     /\ UNCHANGED <<part, writerVars, markerVars, jobVars, contentionVars, evidenceVars>>
  \/ /\ part = "job" /\ JobNext
     /\ UNCHANGED <<part, writerVars, markerVars, reportVars, contentionVars, evidenceVars>>
  \/ /\ part = "audit" /\ ContentionNext
     /\ UNCHANGED <<part, writerVars, markerVars, reportVars, jobVars, evidenceVars>>
  \/ /\ part = "evidence" /\ EvidenceNext
     /\ UNCHANGED <<part, writerVars, markerVars, reportVars, jobVars, contentionVars>>

PartsSpec == PartsInit /\ [][PartsNext]_all
====
