---- MODULE ComparisonReport ----
(***************************************************************************)
(* The report of a campaign: foldComparisonReport of campaign/report.ts,   *)
(* over every state the journal can come to (ExecutionState) and whatever  *)
(* was authenticated of the attempts (AttemptEvidence) and the receipts.   *)
(*                                                                         *)
(* One comparison of one scenario: a sample of the journal is a replicate  *)
(* of an arm.  One quantity stands for the five, one criterion for the     *)
(* obligations.  What only words it, labels and caveats, is left out.      *)
(***************************************************************************)
EXTENDS ExecutionState

CONSTANTS
  Arm,            \* of each sample
  Found           \* what there may be besides the journal: what the attempts left,
                  \* and the blocks whose receipt is authentic

\* What an attempt can be said to have come to.
Results == {"pass", "fail", "indeterminate"}

\* Observations and findings have the types of contracts/campaign/execution.ts and
\* report.ts, and an observation is something, whatever it says.
ASSUME ReportAssumption ==
  /\ IsFiniteSet(Samples)
  /\ \A f \in Observations :
       f.outcome \in Results /\ \A x \in Results : [f EXCEPT !.outcome = x] # None
  /\ \A e \in Found :
       e \in [left : [Attempts -> [valid : BOOLEAN, outcome : Results \cup {None},
                                 cost : Nat \cup {None}, exact : BOOLEAN,
                                 criterion : Results \cup {None}]],
             readable : SUBSET Blocks]

\* No publication: missingAttemptEvidence.
Missing ==
  [valid |-> FALSE, outcome |-> None, cost |-> None, exact |-> FALSE, criterion |-> None]

----
(* What the fold reads of the journal: everything it says of the observations *)
(* is o; e is what was found, e.left of the attempts and e.readable of blocks.    *)

Arms == {Arm[s] : s \in Samples}
Of(arm) == {s \in Samples : Arm[s] = arm}

Chosen(a) == selected[PrimaryOf[Sample(a)]] = blockOf[a]

\* Mutant of ValidityAvailable: that there is a receipt is enough.
ValidityAvailableUnread(b, e) == receipt[b]

ValidityAvailable(b, e) == receipt[b] /\ b \in e.readable

SourceValid(a, o, e, behavior) ==
  /\ behavior /\ Chosen(a)
  /\ excluded[blockOf[a]] = None
  /\ ValidityAvailable(blockOf[a], e)
  /\ o[a] # None
  /\ e.left[a].valid

\* An outcome needs a verdict of its own that says the same.
Supported(a, o, e) ==
  /\ o[a] # None
  /\ o[a].outcome = "indeterminate" \/ e.left[a].outcome = o[a].outcome

Usable(a, o, e, behavior) == Supported(a, o, e) /\ SourceValid(a, o, e, behavior)

\* measured: only what is complete is a measurement.
Measured(x) == IF x.exact THEN x.cost ELSE None

----
(* The rows. *)

Row(a, o, e, behavior) ==
  [attempt |-> a, block |-> blockOf[a], selected |-> Chosen(a),
   accepted |-> IF behavior /\ o[a] # None THEN o[a].outcome ELSE None,
   usable |-> Usable(a, o, e, behavior),
   evidence |-> IF behavior THEN e.left[a]
                ELSE [e.left[a] EXCEPT !.outcome = None, !.criterion = None]]

\* The attempts with a usable outcome, those that can be measured, and of those
\* the ones of a sample.
AllUsable(o, e) == {a \in Known : Usable(a, o, e, TRUE)}
AllMeasured(o, e) == {a \in Known : SourceValid(a, o, e, TRUE)}
OfSample(A, s) == {a \in A : Sample(a) = s}

\* What an arm or a pair takes from a sample.
OnlyOf(M, s) == CHOOSE a \in OfSample(M, s) : TRUE
Quantity(M, s, e) == IF OfSample(M, s) = {} THEN None ELSE Measured(e.left[OnlyOf(M, s)])
Criterion(M, s, e) == IF OfSample(M, s) = {} THEN None ELSE e.left[OnlyOf(M, s)].criterion

\* An arm: its counts, its rate and its means, as the samples they are over.
ArmOf(arm, U, M, o, e) ==
  LET with(x) == {s \in Of(arm) : \E a \in OfSample(U, s) : o[a].outcome = x} IN
  [denominator |-> Cardinality(Of(arm)),
   pass |-> with("pass"), fail |-> with("fail"), indeterminate |-> with("indeterminate"),
   none |-> {s \in Of(arm) : OfSample(U, s) = {}},
   criterion |-> {<<s, Criterion(M, s, e)>> : s \in Of(arm)},
   available |-> {s \in Of(arm) : Quantity(M, s, e) # None}]

\* The cohort: both arms of a pair, measured in one block.
CohortOf(M) ==
  { p \in Primaries :
      \E b \in Blocks : \A s \in SlotsOf(p) : \E a \in OfSample(M, s) : blockOf[a] = b }

\* Pairs with a value, or a decided outcome, on both sides.
ComparisonsOf(U, M, o, e) ==
  LET decided(s) == \E a \in OfSample(U, s) : o[a].outcome \in {"pass", "fail"} IN
  [arms |-> {ArmOf(arm, U, M, o, e) : arm \in Arms},
   rate |-> {p \in CohortOf(M) : \A s \in SlotsOf(p) : decided(s)},
   quantity |-> {p \in CohortOf(M) : \A s \in SlotsOf(p) : Quantity(M, s, e) # None}]

Comparisons(o, e, behavior) ==
  IF behavior THEN ComparisonsOf(AllUsable(o, e), AllMeasured(o, e), o, e)
  ELSE [arms |-> {}, rate |-> {}, quantity |-> {}]

----
(* The accounts: of all attempts, and of those that do not count. *)

Account(S, e) ==
  [known |-> {a \in S : e.left[a].cost # None},
   observed |-> {a \in S : Measured(e.left[a]) # None},
   attempts |-> S,
   complete |-> \A a \in S : Measured(e.left[a]) # None]

Accounting(o, e, behavior) ==
  [all |-> Account(Known, e),
   superseded |-> Account({a \in Known : ~Chosen(a)}, e),
   unaccepted |-> Account({a \in Known : o[a] = None}, e),
   unusable |-> Account({a \in Known : ~Usable(a, o, e, behavior)}, e)]

----
(* foldComparisonReport. *)

Whole(U) == ended = "completed" /\ \A s \in Samples : OfSample(U, s) # {}

ReportOf(o, e, interrupted) ==
  LET behavior == ended # None \/ interrupted IN
  [status |-> IF ended # None THEN ended ELSE IF interrupted THEN "interrupted" ELSE "active",
   rows |-> {Row(a, o, e, behavior) : a \in Known},
   comparisons |-> Comparisons(o, e, behavior),
   accounting |-> Accounting(o, e, behavior),
   complete |-> behavior /\ Whole(AllUsable(o, e)),
   verified |-> terminated]

----
(* Properties. *)

Other(x) == IF x = "pass" THEN "fail" ELSE IF x = "fail" THEN "pass" ELSE x
Contrary(o) ==
  [a \in Attempts |-> IF o[a] = None THEN None ELSE [o[a] EXCEPT !.outcome = Other(@)]]
ContraryFound(e) ==
  LET contrary(x) == [x EXCEPT !.outcome = Other(x.outcome), !.criterion = Other(x.criterion)] IN
  [e EXCEPT !.left = [a \in Attempts |-> contrary(e.left[a])]]

\* "Behavior hidden while session is active or unresolved" (report.ts 167): nothing
\* in the report of a campaign that goes on tells a pass from a fail.
BehaviorIsHidden ==
  ended = None =>
    \A e \in Found :
      ReportOf(observation, e, FALSE) = ReportOf(Contrary(observation), ContraryFound(e), FALSE)

\* A pair is compared, and an arm counted, on the block that the journal selected,
\* that nothing excluded, and whose validity receipt can be read: whatever the
\* attempts of any other block left changes no comparison.
Counted(e) ==
  { a \in Known :
      /\ selected[PrimaryOf[Sample(a)]] = blockOf[a] /\ excluded[blockOf[a]] = None
      /\ receipt[blockOf[a]] /\ blockOf[a] \in e.readable }
Trimmed(e, C) ==
  [e EXCEPT !.left = [a \in Attempts |-> IF a \in C THEN e.left[a] ELSE Missing]]
OnlyTheSelectedCount ==
  ended # None =>
    \A e \in Found :
      \A C \in {Counted(e)} :
        \A U \in {AllUsable(observation, e)}, M \in {AllMeasured(observation, e)},
           t \in {Trimmed(e, C)} :
          /\ AllUsable(observation, t) = U /\ AllMeasured(observation, t) = M
          /\ \A s \in Samples :
               Quantity(M, s, t) = Quantity(M, s, e) /\ Criterion(M, s, t) = Criterion(M, s, e)

\* Every planned sample is in its arm's count once, whatever became of it, and a
\* report that calls itself complete has a result for each of them, none of them
\* of a pair that was given up.
CountsAreWhole ==
  ended # None =>
    \A e \in Found :
      \A U \in {AllUsable(observation, e)}, M \in {AllMeasured(observation, e)} :
        /\ \A arm \in Arms :
             \A r \in {ArmOf(arm, U, M, observation, e)} :
               Cardinality(r.pass) + Cardinality(r.fail) + Cardinality(r.indeterminate)
                 + Cardinality(r.none) = r.denominator
        /\ Whole(U) =>
             \A p \in Primaries : exhausted[p] = None /\ p \in CohortOf(M)

ReportIsHonest == BehaviorIsHidden /\ OnlyTheSelectedCount /\ CountsAreWhole

====
