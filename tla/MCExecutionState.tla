---- MODULE MCExecutionState ----
(* Small campaigns for ExecutionState, and what is reported of them.       *)
(* Everything is one cell's. *)
EXTENDS ComparisonReport, TLC

CONSTANTS p1, p2, r1, sa, sb, c1, c2, c3, start1, start2, ctl1, ctl2

\* In the pair's campaign a crash is replaceable and an exclusion is not.
PairReplacementCauses == {"subject_crashed"}
PairValidityCauses == {"provenance"}
Contention == {"contention"}
InspectedOrNever == {"inspected_stopped", "never_created"}

Pass == [class |-> "evidence", outcome |-> "pass", cause |-> None, validity |-> "valid"]
Crash ==
  [class |-> "instrument", outcome |-> "indeterminate", cause |-> "subject_crashed",
   validity |-> "valid"]
Tainted == [class |-> "evidence", outcome |-> "pass", cause |-> None, validity |-> "invalid"]
PairObservations == {Pass, Crash}
RivalObservations == {Pass, Tainted}

OneCell == [b \in Primaries \cup Reserves |-> "cell"]

\* One pair of two arms.
PairOf == [s \in {sa, sb} |-> p1]
\* Two primaries of one arm each, competing for one reserve.
RivalsOf == [s \in {sa, sb} |-> IF s = sa THEN p1 ELSE p2]

\* Each sample is an arm's.  What the attempts left: the first of each sample fails and is
\* not measured, or all pass and the receipt of the primary cannot be read, or one arm
\* left nothing.
ArmOfSample == [s \in {sa, sb} |-> s]
Left(outcome, exact) ==
  [valid |-> TRUE, outcome |-> outcome, cost |-> 1, exact |-> exact, criterion |-> outcome]
Leaving(left(_, _), blocks) ==
  [left |-> [t \in {sa, sb} \X (1 .. 2) |-> left(t[1], t[2])], readable |-> blocks]
PairFound ==
  { Leaving(LAMBDA s, n : IF n = 1 THEN Left("fail", FALSE) ELSE Left("pass", TRUE), {p1, r1}),
    Leaving(LAMBDA s, n : Left("pass", TRUE), {r1}) }
  \cup {Leaving(LAMBDA s, n : IF s = lost THEN Missing ELSE Left("pass", TRUE), {p1, r1}) :
          lost \in {sa, sb}}

PairSymmetry == Permutations({sa, sb}) \cup Permutations(Containers)
\* The rivals are alike, each with its arm.
Swap == (p1 :> p2) @@ (p2 :> p1) @@ (sa :> sb) @@ (sb :> sa)
RivalSymmetry == {Swap} \cup Permutations(Containers)
\* The pair leaves the accounts open; the rivals close one.
OneAccount == Cardinality({a \in Attempts : accounted[a]}) <= 1
NoAccounts == \A a \in Attempts : ~accounted[a]
Instant == {0}
====
