---- MODULE MCCampaignLifecycle ----
(* Two campaigns on one host; the first may be launched twice. *)
EXTENDS CampaignLifecycle

CONSTANTS c1, c2, l1, l2, l3, k1, k2, k3, x1, x2, m1

MCCampaignOf ==
  [p \in Launchers \cup Controllers \cup Cancellers |-> IF p \in {l3, k3} THEN c2 ELSE c1]
MCChildOf == [l \in Launchers |-> CASE l = l1 -> k1 [] l = l2 -> k2 [] OTHER -> k3]

\* Two campaigns and a cancel; one campaign launched twice; two cancels that
\* race for a dead launcher's run.lock; a mutation and a death.
MCCasts == {
  [who |-> {l1, l3, x1}, faults |-> 1],
  [who |-> {l1, l2, x1}, faults |-> 0],
  [who |-> {l1, x1, x2}, faults |-> 0],
  [who |-> {l1, x1, m1}, faults |-> 1]}
====
