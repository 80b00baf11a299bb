---- MODULE MCLocks ----
(***************************************************************************)
(* What is shared and limited.  The two directory locks, under fairness:   *)
(* the lease of a journal or of the host, and the lock of a worktree.  The *)
(* pools and the keys of the credentials.  A behaviour is of one of them.  *)
(***************************************************************************)
EXTENDS DirLease, DestLock, Admission, TLC

CONSTANTS p1, p2, gone

\* Each part has its own variables.
VARIABLE lock

all == <<lock, vars, lockVars, admissionVars>>

\* Two callers and one that died wherever it was.
Trees == 1 .. 4

\* Two arms in one pool with keys in common, and a grader beside or among them.
Cred(p, ks, l, s) ==
  [pool |-> p, keys |-> ks, pooled |-> Len(ks) > 1, limit |-> l, spacing |-> s]
Registers ==
  [x : {Cred("P", ks, 4, 1) : ks \in {<<"k1">>, <<"k1", "k2">>}},
   y : {Cred("P", ks, l, 0) : ks \in {<<"k2", "k3">>, <<"k3", "k2", "k1">>}, l \in {3, 4}},
   g : {Cred("P", <<"k1", "k4">>, 4, 1), Cred("G", <<"k1", "k4">>, 4, 2)}]
Planned == <<<<"a1", "a2">>, <<"b1", "b2">>, <<"c1">>>>
Arms == [a1 |-> "x", a2 |-> "y", b1 |-> "x", b2 |-> "y", c1 |-> "x"]

OfLease(A) == lock = "lease" /\ A /\ UNCHANGED <<lock, lockVars, admissionVars>>
OfTree(A) == lock = "tree" /\ A /\ UNCHANGED <<lock, vars, admissionVars>>
OfPools(A) == lock = "pools" /\ A /\ UNCHANGED <<lock, vars, lockVars>>

Begin ==
  /\ Init /\ LockInit /\ AdmissionInit
  /\ lock \in {"lease", "tree", "pools"}
  /\ lock # "lease" => path = 1
  /\ lock # "tree" => place = Nothing
  /\ lock # "pools" => registry = CHOOSE r \in Registries : Registered(r)

Moves == OfLease(Next) \/ OfTree(LockNext) \/ OfPools(AdmissionNext)

\* The fairness of each lock, where it is its turn.
Fair ==
  /\ \A p \in {p1, p2} :
       /\ WF_all(OfLease(p \in alive /\ Acquire(p)))
       /\ WF_all(OfLease(p \in alive /\ FailStop(p)))
       /\ WF_all(OfTree(Acts(p)))
       /\ SF_all(OfTree(place = mine[p] /\ Pin(p)))
       /\ SF_all(OfTree(place = mine[p] /\ Verify(p)))
  /\ \A p \in {p1, p2, gone} : WF_all(OfTree(Grows(p)))

Locks == Begin /\ [][Moves]_all /\ Fair

----
(* The property of both locks, each where it is its turn; the others are their *)
(* modules' own.                                                               *)

\* Two live holders of one lease do not last, and a call that comes for either
\* lock returns or throws, whoever died: "the poll loop must always be able to
\* make progress or fail loudly, never hang" (provisioning.ts 55-56).
LocksSettle ==
  /\ ({p1, p2} \subseteq Holding) ~> ~({p1, p2} \subseteq Holding)
  /\ \A p \in {p1, p2} :
       /\ (lock = "lease" /\ pc[p] = "start") ~> pc[p] \in {"holding", "done"}
       /\ <>(lock = "tree" => at[p] \in {"done", "dead"})
====
