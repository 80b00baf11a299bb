---- MODULE AttemptEvidence ----
(***************************************************************************)
(* What a report may believe of one attempt: readAttemptEvidence and       *)
(* measureAttempt of campaign/report-evidence.ts, over the artifacts that  *)
(* the journal names and the manifest binds.                               *)
(*                                                                         *)
(* An artifact is absent, good, damaged (its reference or its bytes are    *)
(* not what the manifest says) or malformed (authentic, and does not       *)
(* parse).  What a good one says is a record of the few things that count. *)
(***************************************************************************)
EXTENDS FiniteSets

CONSTANTS
  Bundles,       \* what was published, and what its parts say
  Requirements,  \* of the scenario: mode, criteria, checks
  Unsaid

VARIABLES
  bundle, required, reading, measured

Kinds == {"verdict", "checks", "trajectory", "conversation", "visible", "roles",
          "completion", "result", "stream", "captures", "usage", "output"}

\* What may have become of an artifact.
Conditions == {"good", "absent", "damaged", "malformed"}

ASSUME EvidenceAssumption ==
  /\ \A b \in Bundles : b = [files |-> b.files, says |-> b.says, manifest |-> b.manifest]
                       /\ b.files \in [Kinds -> Conditions]
  /\ Unsaid \notin {"pass", "fail", "unclear", "completed", "null", "capture"}

evidenceVars == <<bundle, required, reading, measured>>

\* Mutant of Authentic: the manifest is not held against what is on disk.
AuthenticIfThere(b, k) == b.files[k] # "absent"

\* readPublishedArtifactBytes, under the one reference that matches.
Authentic(b, k) == b.files[k] \in {"good", "malformed"}
Parses(b, k) == Authentic(b, k) /\ b.files[k] = "good"
Artifacts(b) == {k \in Kinds : Authentic(b, k)}

----
(* readAttemptEvidence. *)

\* The manifest, and the verdict if there is one, are of this attempt.
Published(b) == b.manifest /\ ~ (Parses(b, "verdict") /\ b.says.stranger)

Says(b, field) == IF Parses(b, "verdict") THEN b.says[field] ELSE Unsaid

\* Checks of their own file go before those of the verdict.
ChecksOf(b) ==
  IF Parses(b, "checks") THEN b.says.checks ELSE Says(b, "checks")

\* The assessment that the run accepted: completed, bound by its digest, and
\* agreeing with its own rows.
Accepted(b) ==
  /\ Parses(b, "roles") /\ Parses(b, "completion") /\ Parses(b, "result")
  /\ b.says.bound /\ b.says.consistent

\* The rows of the grader: an accepted assessment replaces the verdict's.
GraderRows(b) == IF Accepted(b) THEN b.says.rows ELSE Says(b, "gauntlet")

\* QA runs: every capture that the event stream names has its twin.
StreamRead(b) == Parses(b, "stream") /\ Parses(b, "captures") /\ b.says.captured
StreamAsked(b) == ~Parses(b, "conversation") /\ Says(b, "gauntlet") # Unsaid

\* Costs and tokens: the verdict's, or the captured usage of the subject.
SubjectCost(b) ==
  IF Says(b, "subject") # Unsaid THEN Says(b, "subject")
  ELSE IF Parses(b, "usage") THEN b.says.usage ELSE Unsaid
\* A subtotal is complete when everything in it was priced and accounted for.
SubjectExact(b) ==
  /\ SubjectCost(b) # Unsaid
  /\ IF Says(b, "subject") # Unsaid THEN b.says.priced ELSE b.says.usagePriced
GraderExact(b) ==
  Says(b, "grader") # Unsaid /\ b.says.priced /\ b.says.requestsComplete

Gaps(b) ==
  {k \in Kinds : b.files[k] = "damaged"}
  \cup {k \in {"checks", "trajectory", "verdict", "usage", "roles"} : b.files[k] = "malformed"}
  \cup (IF Says(b, "error") = "capture" THEN {"trajectory"} ELSE {})
  \cup (IF StreamAsked(b) /\ ~StreamRead(b) THEN {"visible_delivery"} ELSE {})
  \cup (IF Parses(b, "roles") /\ ~Accepted(b) THEN {"assessment"} ELSE {})
  \cup (IF Says(b, "final") = Unsaid THEN {"observed_outcome"} ELSE {})
  \cup (IF SubjectCost(b) = Unsaid THEN {"subject_cost"} ELSE {})
  \cup (IF Says(b, "grader") = Unsaid THEN {"grader_cost"} ELSE {})
  \cup (IF SubjectCost(b) # Unsaid /\ ~SubjectExact(b) THEN {"subject_cost"} ELSE {})
  \cup (IF Says(b, "grader") # Unsaid /\ ~GraderExact(b) THEN {"grader_cost"} ELSE {})

MissingEvidence ==
  [valid |-> FALSE, outcome |-> Unsaid, rows |-> Unsaid, checks |-> Unsaid, executed |-> FALSE,
   conversation |-> Unsaid, report |-> FALSE, subject |-> Unsaid, subjectExact |-> FALSE,
   grader |-> Unsaid, graderExact |-> FALSE, gaps |-> {"publication"}, artifacts |-> {}]

EvidenceOf(b) ==
  IF ~Published(b) THEN MissingEvidence
  ELSE [valid |-> TRUE, outcome |-> Says(b, "final"), rows |-> GraderRows(b),
        checks |-> ChecksOf(b), executed |-> Says(b, "error") = "null",
        conversation |-> IF Parses(b, "conversation") THEN b.says.conversation ELSE Unsaid,
        report |-> Accepted(b),
        subject |-> SubjectCost(b), subjectExact |-> SubjectExact(b),
        grader |-> Says(b, "grader"), graderExact |-> GraderExact(b),
        gaps |-> Gaps(b), artifacts |-> Artifacts(b)]

----
(* measureAttempt. *)

\* What was visible to the reader of a conversation.
Visible(e) == IF e.conversation = "completed" THEN {"visible"} \cap e.artifacts ELSE {}

\* The artifacts that stand for a class of evidence, none if something is amiss.
ClassOf(e, class) ==
  {k \in e.artifacts :
     \/ /\ class = "visible_delivery" /\ "visible_delivery" \notin e.gaps
        /\ \/ k \in Visible(e)
           \/ e.conversation = Unsaid /\ e.rows # Unsaid /\ k \in {"stream", "captures"}
     \/ /\ class = "check_dispositions" /\ e.checks # Unsaid
        /\ k = IF "checks" \in e.artifacts THEN "checks" ELSE "verdict"
     \/ class = "normalized_trace" /\ k = "trajectory" /\ k \notin e.gaps
     \/ class = "output" /\ k = "output" /\ k \notin e.gaps}

\* A check that errored, or that a run which went wrong left as false, says nothing;
\* nor does a check of the process without its trace.
CheckSettled(e, check) ==
  /\ e.checks # Unsaid
  /\ LET row == e.checks[check.id] IN
     /\ row.status \notin {"absent", "errored"}
     /\ row.passed \/ row.status = "completed" \/ e.executed
     /\ check.process => ClassOf(e, "normalized_trace") # {}

CheckOf(e, check) ==
  [id |-> check.id,
   verdict |-> IF ~CheckSettled(e, check) THEN Unsaid
               ELSE IF e.checks[check.id].passed THEN "pass" ELSE "fail",
   evidence |-> IF CheckSettled(e, check) THEN ClassOf(e, "check_dispositions") ELSE {}]

\* A criterion: its row, bound to its text, and everything it depends on.
CriterionSettled(e, r, c) ==
  /\ r.mode = "conversation" => e.report
  /\ e.rows # Unsaid /\ e.rows.bound /\ e.rows.verdict \in {"pass", "fail", "unclear"}
  /\ "check_dispositions" \in c.classes =>
       /\ c.refs # {}
       /\ \A check \in r.checks : check.id \in c.refs => CheckOf(e, check).verdict # Unsaid
  /\ \A class \in c.classes : ClassOf(e, class) # {}

CriterionOf(e, r, c) ==
  [id |-> c.id,
   verdict |-> IF CriterionSettled(e, r, c) THEN e.rows.verdict ELSE Unsaid,
   evidence |-> IF CriterionSettled(e, r, c)
                THEN (IF e.report THEN {"result"} ELSE {"verdict"} \cap e.artifacts)
                     \cup UNION {ClassOf(e, class) : class \in c.classes}
                ELSE {}]

Measure(e, r) ==
  [interaction |-> [id |-> "interaction", verdict |-> IF Visible(e) # {} THEN "pass" ELSE Unsaid,
                    evidence |-> IF Visible(e) # {} THEN Visible(e) \cup ({"conversation"} \cap e.artifacts)
                                 ELSE {}],
   checks |-> {CheckOf(e, c) : c \in r.checks},
   criteria |-> {CriterionOf(e, r, c) : c \in r.criteria}]

----

EvidenceInit ==
  /\ bundle \in Bundles /\ required \in Requirements
  /\ reading = Unsaid /\ measured = Unsaid

Read ==
  /\ reading = Unsaid
  /\ reading' = EvidenceOf(bundle)
  /\ UNCHANGED <<bundle, required, measured>>

Assess ==
  /\ reading # Unsaid /\ measured = Unsaid
  /\ measured' = Measure(reading, required)
  /\ UNCHANGED <<bundle, required, reading>>

EvidenceNext == Read \/ Assess

EvidenceSpec == EvidenceInit /\ [][EvidenceNext]_evidenceVars

----
(* Properties. *)

Obligations == {measured.interaction} \cup measured.checks \cup measured.criteria

\* "Each obligation consumes only its declared sources; accepted prose is never
\* reconstructed from partial output": no verdict rests on nothing, every artifact
\* that it cites is authentic, and those that were read for it are whole.  (Checks
\* fall back to the verdict's when their own file does not parse, and that file is
\* cited all the same; a visible proof, output and captures are cited as bytes.)
VerdictsAreBacked ==
  measured # Unsaid =>
    \A o \in Obligations :
      o.verdict # Unsaid =>
        /\ o.evidence # {}
        /\ \A k \in o.evidence : Authentic(bundle, k) /\ bundle.files[k] # "damaged"
        /\ \A k \in o.evidence \ {"checks", "visible", "output", "stream", "captures"} :
             bundle.files[k] = "good"

\* "A damaged artifact loses all its fields": it has lost no other.  Whatever
\* becomes of one artifact, an obligation that is settled with it and without it is
\* settled the same, unless the rows, the checks or the cost have a second source.
DamageOnlyLoses ==
  measured # Unsaid /\ reading.valid =>
    \A k \in Kinds \ {"roles", "completion", "result", "checks"} :
      LET hurt == EvidenceOf([bundle EXCEPT !.files[k] = "damaged"])
          less == Measure(hurt, required) IN
      \A o \in {less.interaction} \cup less.checks \cup less.criteria :
        o.verdict # Unsaid =>
          \E p \in Obligations : p.id = o.id /\ p.verdict \in {o.verdict, Unsaid}

\* No fault is a failure: a check says "fail" only if it ran to its end, or the run
\* did, and a total is called complete only with every request in it priced.
FaultsAreNotFailures ==
  measured # Unsaid =>
    /\ \A o \in measured.checks :
         o.verdict = "fail" =>
           reading.checks[o.id].status = "completed" \/ reading.executed
    /\ reading.graderExact => bundle.says.priced /\ bundle.says.requestsComplete
    /\ reading.valid =>
         /\ (reading.subject = Unsaid \/ ~reading.subjectExact) => "subject_cost" \in reading.gaps
         /\ (reading.grader = Unsaid \/ ~reading.graderExact) => "grader_cost" \in reading.gaps

\* What a report believes of an attempt: no verdict rests on an artifact that was
\* damaged, damage turns no verdict into another, and no fault of the instrument is
\* a failure of the subject.
EvidenceIsHonest == VerdictsAreBacked /\ DamageOnlyLoses /\ FaultsAreNotFailures
====
