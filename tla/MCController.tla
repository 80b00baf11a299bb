---- MODULE MCController ----
(* Small sessions for Controller. *)
EXTENDS Controller, TLC

CONSTANTS p1, p2, r1, sa, sb, start1, ctl1

Pass == [class |-> "evidence", cause |-> None, validity |-> "valid"]
Crashed == [class |-> "instrument", cause |-> "subject_crashed", validity |-> "valid"]
Billing == [class |-> "instrument", cause |-> "grader_billing_exhausted", validity |-> "valid"]

Evidence == {Pass, Crashed}
EvidenceOrBilling == {Pass, Crashed, Billing}
Fatal == {"grader_billing_exhausted"}
Contention == {"contention"}
Replaceables == {"contention", "subject_crashed"}

OneCell == [b \in Primaries \cup Reserves |-> "cell"]
\* One pair of two arms.
PairOf == [s \in {sa, sb} |-> p1]
\* Two pairs of one arm each.
RivalsOf == [s \in {sa, sb} |-> IF s = sa THEN p1 ELSE p2]

Arms == Permutations({sa, sb})
Swap == {(p1 :> p2) @@ (p2 :> p1) @@ (sa :> sb) @@ (sb :> sa)}
Instant == {0}
====
