---- MODULE CampaignLifecycleProofs ----
(***************************************************************************)
(* The owners of the host, for any number of campaigns, processes and      *)
(* deaths: whoever spends is alone, and the claim is HostOwnership's.      *)
(*                                                                         *)
(* Exclusion rests on the live-spend lease, which nobody takes from a live *)
(* holder: run.lock, that a canceller may rename under somebody, is not    *)
(* used.  That a canceller finds nobody left to start work rests on the    *)
(* order of what it reads: once the launcher is dead, or past the binding, *)
(* the binding cannot change any more, and then the bound child is killed. *)
(***************************************************************************)
EXTENDS CampaignLifecycle, TLAPS

\* Where a process has the lease.
Holding == {"elect", "start", "claim", "spawn", "bind", "check", "admit", "dispatch", "binding",
            "bound", "starting", "waiting", "ended", "clear", "finish", "workers", "end", "terminate", "mutating"}

\* Where a launcher has not spawned, has consumed the start, and has bound its child.
Childless == {"idle", "run", "record", "lease", "elect", "start", "claim", "spawn"}
Spending == {"claim", "spawn", "bind", "check", "publish", "mark", "gate"}
Bound == {"check", "publish", "mark"}

\* Where a controller is past its gate.
PastGate == {"run", "record", "lease", "elect", "admit", "dispatch", "binding", "bound", "starting",
             "waiting", "ended", "clear", "finish"}

\* Where a canceller has settled the controller that stays, read it, and settled the launcher.
FromReread == {"reread", "judge", "reclaim", "run", "record", "lease", "elect", "workers", "end", "terminate"}
FromResettle == {"resettle"} \cup FromReread
FromRebind == {"rebind"} \cup FromResettle

Seen == [claim : BOOLEAN, controller : Controllers \cup {None}, loss : BOOLEAN,
         lock : Processes \cup {None, Blank}]

LifeType ==
  /\ run \in Processes \cup {None, Blank}
  /\ start \in [Campaigns -> Launchers \cup {None}]
  /\ controller \in [Campaigns -> Controllers \cup {None}]
  /\ ended \in [Campaigns -> {None, "completed", "cancelled", "interrupted"}]
  /\ terminated \in [Campaigns -> BOOLEAN] /\ released \in [Campaigns -> BOOLEAN]
  /\ worker \in [Campaigns -> Workings]
  /\ pc \in [Processes -> Places]
  /\ saw \in [Cancellers -> Seen]

HolderHasLease(p) == pc[p] \in Holding => lease = p

LauncherInv(l) ==
  LET c == CampaignOf[l] IN
  /\ pc[l] # "unborn"
  /\ pc[l] \in Childless => pc[ChildOf[l]] = "unborn"
  /\ pc[l] \in Spending => start[c] = l
  /\ pc[l] = "bind" => pc[ChildOf[l]] # "unborn"
  /\ pc[l] \in Bound => controller[c] # None

ControllerInv(k) ==
  LET c == CampaignOf[k] IN
  /\ pc[k] \in PastGate => controller[c] = k
  /\ pc[k] = "starting" => claim = c /\ ~terminated[c]
  /\ pc[k] = "ended" => ended[c] # None

CancellerInv(x) ==
  LET c == CampaignOf[x] IN
  /\ saw[x].controller # None => pc[saw[x].controller] # "unborn"
  /\ pc[x] \notin {"idle", "dead", "done"} => start[c] # None
  /\ pc[x] \in FromRebind => Gone(start[c]) \/ controller[c] # None
  /\ pc[x] \in FromResettle => saw[x].controller = controller[c]
  /\ pc[x] \in FromReread => controller[c] = None \/ Gone(controller[c])
  /\ pc[x] \in {"end", "terminate"} => Settled(c)
  /\ pc[x] = "terminate" => ended[c] # None

MutatorInv(m) == pc[m] = "mutating" => claim = None

CampaignInv(c) ==
  /\ controller[c] # None => pc[controller[c]] # "unborn" /\ start[c] # None
  /\ released[c] => controller[c] # None
  /\ terminated[c] => ended[c] # None
  /\ worker[c] = "asked" => claim = c /\ ~terminated[c]

LifeInv ==
  /\ LifeType
  /\ \A p \in Processes : HolderHasLease(p)
  /\ \A l \in Launchers : LauncherInv(l)
  /\ \A k \in Controllers : ControllerInv(k)
  /\ \A x \in Cancellers : CancellerInv(x)
  /\ \A m \in Mutators : MutatorInv(m)
  /\ \A c \in Campaigns : CampaignInv(c)

USE DEF Holding, Childless, Spending, Bound, PastGate, FromReread, FromResettle, FromRebind, Places, Workings

\* What the assumption says of one process.
LEMMA Roles ==
  /\ \A l \in Launchers : /\ l \in Processes /\ l \notin Controllers /\ l \notin Cancellers
                            /\ l \notin Mutators /\ CampaignOf[l] \in Campaigns
                            /\ ChildOf[l] \in Controllers /\ CampaignOf[ChildOf[l]] = CampaignOf[l]
  /\ \A k \in Controllers : /\ k \in Processes /\ k \notin Launchers /\ k \notin Cancellers
                             /\ k \notin Mutators /\ CampaignOf[k] \in Campaigns
  /\ \A x \in Cancellers : /\ x \in Processes /\ x \notin Launchers /\ x \notin Controllers
                            /\ x \notin Mutators /\ CampaignOf[x] \in Campaigns
  /\ \A m \in Mutators : /\ m \in Processes /\ m \notin Launchers /\ m \notin Controllers
                          /\ m \notin Cancellers
  /\ None \notin Processes /\ None \notin Campaigns
  /\ None \notin {"completed", "cancelled", "interrupted"}
BY LifecycleAssumption DEF Processes

facts == <<start, controller, ended, terminated, released, claim, worker>>

\* The facts stay, but that a worker may come nearer its end.
FactsStay ==
  /\ UNCHANGED <<start, controller, ended, terminated, released, claim>>
  /\ worker' \in [Campaigns -> Workings]
  /\ \A c \in Campaigns : /\ Settled(c) => Settled(c)'
                          /\ worker'[c] = "asked" => worker[c] = "asked"

LEMMA Still ==
  ASSUME LifeInv, UNCHANGED facts
  PROVE  FactsStay
BY DEF LifeInv, LifeType, facts, FactsStay, Settled

\* A step of p keeps the lease, gets it from nobody alive, or gives it up.
LeaseOf(p) ==
  \/ lease' = lease
  \/ lease' = p /\ Free(lease)
  \/ lease' = None /\ lease = p

\* What a step of p that changes no fact leaves of the invariant to p itself.
LEMMA OthersStand ==
  ASSUME LifeInv, NEW p \in Processes, ~Gone(p), pc[p] # "unborn", FactsStay, LeaseOf(p),
         pc'[p] # "unborn", \A q \in Processes \ {p} : pc'[q] = pc[q],
         \A x \in Cancellers \ {p} : saw'[x] = saw[x]
  PROVE  /\ \A q \in Processes \ {p} : HolderHasLease(q)'
         /\ \A l \in Launchers \ {p} : LauncherInv(l)'
         /\ \A k \in Controllers \ {p} : ControllerInv(k)'
         /\ \A x \in Cancellers \ {p} : CancellerInv(x)'
         /\ \A m \in Mutators \ {p} : MutatorInv(m)'
         /\ \A c \in Campaigns : CampaignInv(c)'
<1>1. \A q \in Processes : /\ Gone(q) => Gone(q)'
                           /\ (pc'[q] = "unborn") <=> (pc[q] = "unborn")
  BY DEF Gone
<1>2. \A q \in Processes \ {p} : HolderHasLease(q)'
  BY Roles DEF LifeInv, HolderHasLease, LeaseOf, Free, Gone
<1>3. \A l \in Launchers \ {p} : LauncherInv(l)'
  BY <1>1, Roles DEF LifeInv, LauncherInv, FactsStay
<1>4. \A k \in Controllers \ {p} : ControllerInv(k)'
  BY Roles DEF LifeInv, ControllerInv, FactsStay
<1>5. \A c \in Campaigns : CampaignInv(c)'
  BY <1>1, Roles DEF LifeInv, LifeType, CampaignInv, FactsStay
<1>6. \A x \in Cancellers \ {p} : CancellerInv(x)'
  <2> SUFFICES ASSUME NEW x \in Cancellers \ {p} PROVE CancellerInv(x)'
    OBVIOUS
  <2>1. /\ x \in Processes /\ CampaignOf[x] \in Campaigns /\ pc'[x] = pc[x] /\ saw'[x] = saw[x]
        /\ saw[x].controller \in Controllers \cup {None} /\ CancellerInv(x)
    BY Roles DEF LifeInv, LifeType, Seen
  <2>2. /\ start[CampaignOf[x]] \in Launchers \cup {None}
        /\ controller[CampaignOf[x]] \in Controllers \cup {None}
    BY <2>1 DEF LifeInv, LifeType
  <2> QED
    BY <1>1, <2>1, <2>2, Roles DEF CancellerInv, FactsStay
<1>7. \A m \in Mutators \ {p} : MutatorInv(m)'
  BY Roles DEF LifeInv, MutatorInv, FactsStay
<1> QED
  BY <1>2, <1>3, <1>4, <1>5, <1>6, <1>7

\* A process that gives up, finishes, or dies.
LEMMA BacksOutAmid ==
  ASSUME LifeInv, NEW p \in Processes, ~Gone(p), pc[p] # "unborn", FactsStay, LeaseOf(p),
         run' \in Processes \cup {None, Blank},
         NEW next \in {"idle", "done", "dead"}, Go(p, next), next = "idle" => p \in Cancellers,
         \/ saw' = saw
         \/ saw' = [x \in Cancellers |-> IF x = p THEN Nothing ELSE saw[x]]
  PROVE  LifeInv'
<1>1. /\ pc' \in [Processes -> Places] /\ pc'[p] = next /\ \A q \in Processes \ {p} : pc'[q] = pc[q]
  BY DEF LifeInv, LifeType, Go
<1>2. /\ saw' \in [Cancellers -> Seen] /\ \A x \in Cancellers \ {p} : saw'[x] = saw[x]
      /\ p \in Cancellers => saw'[p].controller \in {None, saw[p].controller}
  <2>1. Nothing \in Seen /\ Nothing.controller = None
    BY DEF Nothing, Seen
  <2>2. saw \in [Cancellers -> Seen]
    BY DEF LifeInv, LifeType
  <2> QED
    BY <2>1, <2>2
<1>3. LifeType'
  BY <1>1, <1>2 DEF LifeInv, LifeType, FactsStay
<1>4. /\ \A q \in Processes \ {p} : HolderHasLease(q)'
      /\ \A l \in Launchers \ {p} : LauncherInv(l)'
      /\ \A k \in Controllers \ {p} : ControllerInv(k)'
      /\ \A x \in Cancellers \ {p} : CancellerInv(x)'
      /\ \A m \in Mutators \ {p} : MutatorInv(m)'
      /\ \A c \in Campaigns : CampaignInv(c)'
  BY <1>1, <1>2, OthersStand
<1>5. /\ HolderHasLease(p)' /\ MutatorInv(p)' /\ ControllerInv(p)'
      /\ p \in Launchers => LauncherInv(p)'
  BY <1>1, Roles DEF HolderHasLease, LauncherInv, ControllerInv, MutatorInv
<1>6. p \in Cancellers => CancellerInv(p)'
  <2> SUFFICES ASSUME p \in Cancellers PROVE CancellerInv(p)'
    OBVIOUS
  <2>1. saw'[p].controller # None => pc'[saw'[p].controller] # "unborn"
    <3>1. saw[p].controller # None => /\ saw[p].controller \in Processes \ {p}
                                      /\ pc[saw[p].controller] # "unborn"
      BY Roles DEF LifeInv, LifeType, Seen, CancellerInv
    <3> QED
      BY <1>1, <1>2, <3>1
  <2> QED
    BY <1>1, <2>1 DEF CancellerInv
<1> QED
  BY <1>3, <1>4, <1>5, <1>6 DEF LifeInv

LEMMA BacksOut ==
  ASSUME LifeInv, NEW p \in Processes, ~Gone(p), pc[p] # "unborn", UNCHANGED facts, LeaseOf(p),
         run' \in Processes \cup {None, Blank},
         NEW next \in {"idle", "done", "dead"}, Go(p, next), next = "idle" => p \in Cancellers,
         \/ saw' = saw
         \/ saw' = [x \in Cancellers |-> IF x = p THEN Nothing ELSE saw[x]]
  PROVE  LifeInv'
BY Still, BacksOutAmid

\* A step of p from one place to another, all else as it is but locks and what p saw.
LEMMA GoesOn ==
  ASSUME LifeInv, NEW p \in Processes, ~Gone(p), pc[p] # "unborn", UNCHANGED facts, LeaseOf(p),
         run' \in Processes \cup {None, Blank},
         NEW next \in Places \ {"unborn"}, Go(p, next),
         saw' \in [Cancellers -> Seen], \A x \in Cancellers \ {p} : saw'[x] = saw[x],
         HolderHasLease(p)',
         p \in Launchers => LauncherInv(p)',
         p \in Controllers => ControllerInv(p)',
         p \in Cancellers => CancellerInv(p)',
         p \in Mutators => MutatorInv(p)'
  PROVE  LifeInv'
<1>1. /\ pc' \in [Processes -> Places] /\ pc'[p] = next /\ \A q \in Processes \ {p} : pc'[q] = pc[q]
  BY DEF LifeInv, LifeType, Go
<1>2. LifeType'
  BY <1>1 DEF LifeInv, LifeType, facts
<1>3. /\ \A q \in Processes \ {p} : HolderHasLease(q)'
      /\ \A l \in Launchers \ {p} : LauncherInv(l)'
      /\ \A k \in Controllers \ {p} : ControllerInv(k)'
      /\ \A x \in Cancellers \ {p} : CancellerInv(x)'
      /\ \A m \in Mutators \ {p} : MutatorInv(m)'
      /\ \A c \in Campaigns : CampaignInv(c)'
  BY <1>1, Still, OthersStand
<1> QED
  BY <1>2, <1>3 DEF LifeInv

LEMMA GivesUpAmid ==
  ASSUME LifeInv, NEW p \in Processes, ~Gone(p), pc[p] # "unborn", FactsStay, GiveUp(p)
  PROVE  LifeInv'
<1>1. LeaseOf(p) /\ run' \in Processes \cup {None, Blank}
  BY DEF GiveUp, ReleaseAll, LeaseOf, LifeInv, LifeType
<1>2. saw' = [x \in Cancellers |-> IF x = p THEN Nothing ELSE saw[x]]
  BY DEF GiveUp, Forget
<1>3. CASE p \in Cancellers
  <2>1. Go(p, "idle")
    BY <1>3 DEF GiveUp
  <2> QED
    BY <1>1, <1>2, <1>3, <2>1, BacksOutAmid
<1>4. CASE p \notin Cancellers
  <2>1. Go(p, "done")
    BY <1>4 DEF GiveUp
  <2> QED
    BY <1>1, <1>2, <2>1, BacksOutAmid
<1> QED
  BY <1>3, <1>4

LEMMA GivesUp ==
  ASSUME LifeInv, NEW p \in Processes, ~Gone(p), pc[p] # "unborn", UNCHANGED facts, GiveUp(p)
  PROVE  LifeInv'
BY Still, GivesUpAmid

LEMMA TakesRun ==
  ASSUME LifeInv, NEW p \in Processes, AcquireRun(p)
  PROVE  LifeInv'
<1>1. UNCHANGED facts /\ ~Gone(p) /\ pc[p] \in {"run", "record"}
  BY DEF AcquireRun, TakeRun, RecordRun, At, Gone, journal, marks, facts
<1>2. CASE GiveUp(p)
  BY <1>1, <1>2, GivesUp
<1>3. CASE \E next \in {"record", "lease"} :
             Go(p, next) /\ run' \in {p, Blank} /\ UNCHANGED <<lease, writer, gate, saw>>
  <2> PICK next \in {"record", "lease"} :
             Go(p, next) /\ run' \in {p, Blank} /\ UNCHANGED <<lease, writer, gate, saw>>
    BY <1>3
  <2>1. pc'[p] = next /\ \A q \in Processes \ {p} : pc'[q] = pc[q]
    BY DEF LifeInv, LifeType, Go
  <2>2. HolderHasLease(p)'
    BY <2>1 DEF HolderHasLease
  <2>3. p \in Launchers => LauncherInv(p)'
    BY <1>1, <2>1, Roles DEF LifeInv, LauncherInv
  <2>4. p \in Controllers => ControllerInv(p)'
    BY <1>1, <2>1 DEF LifeInv, ControllerInv, facts
  <2>5. p \in Cancellers => CancellerInv(p)'
    <3> SUFFICES ASSUME p \in Cancellers PROVE CancellerInv(p)'
      OBVIOUS
    <3>1. /\ start[CampaignOf[p]] \in Launchers \cup {None}
          /\ controller[CampaignOf[p]] \in Controllers \cup {None}
          /\ saw[p].controller \in Controllers \cup {None} /\ CancellerInv(p)
      BY Roles DEF LifeInv, LifeType, Seen
    <3> QED
      BY <1>1, <2>1, <3>1, Roles DEF CancellerInv, facts, Gone
  <2>6. p \in Mutators => MutatorInv(p)'
    BY <2>1 DEF MutatorInv
  <2> QED
    BY <1>1, <2>2, <2>3, <2>4, <2>5, <2>6, GoesOn DEF LeaseOf, LifeInv, LifeType
<1> QED
  BY <1>2, <1>3 DEF AcquireRun, TakeRun, RecordRun

\* What is known of a canceller's reading.
LEMMA CancellerFacts ==
  ASSUME LifeInv, NEW x \in Cancellers
  PROVE  /\ start[CampaignOf[x]] \in Launchers \cup {None}
         /\ controller[CampaignOf[x]] \in Controllers \cup {None}
         /\ start[CampaignOf[x]] # x /\ controller[CampaignOf[x]] # x
         /\ saw[x] \in Seen /\ saw[x].controller \in Controllers \cup {None}
         /\ CancellerInv(x)
BY Roles DEF LifeInv, LifeType, Seen

\* What a canceller relies on while others move.
LEMMA CancellerStands ==
  ASSUME LifeInv, NEW x \in Cancellers, pc'[x] = pc[x], saw'[x] = saw[x],
         start'[CampaignOf[x]] = start[CampaignOf[x]],
         controller'[CampaignOf[x]] = controller[CampaignOf[x]],
         \A q \in Processes : /\ Gone(q) => Gone(q)'
                              /\ pc[q] # "unborn" => pc'[q] # "unborn",
         pc[x] \in {"end", "terminate"} /\ Settled(CampaignOf[x]) => Settled(CampaignOf[x])',
         pc[x] = "terminate" /\ ended[CampaignOf[x]] # None => ended'[CampaignOf[x]] # None
  PROVE  CancellerInv(x)'
<1>1. /\ controller[CampaignOf[x]] # None => controller[CampaignOf[x]] \in Processes
      /\ start[CampaignOf[x]] # None => start[CampaignOf[x]] \in Processes
      /\ saw[x].controller # None => saw[x].controller \in Processes
  BY CancellerFacts, Roles
<1> QED
  BY <1>1, CancellerFacts DEF CancellerInv

LEMMA TakesLease ==
  ASSUME LifeInv, NEW p \in Processes, NEW next \in {"elect", "mutating"}, TakeLease(p, next),
         p \in Mutators <=> next = "mutating"
  PROVE  LifeInv'
<1>1. UNCHANGED facts /\ ~Gone(p) /\ pc[p] = "lease"
  BY DEF TakeLease, AcquireLease, RefuseLease, At, Gone, journal, marks, facts
<1>2. CASE GiveUp(p)
  BY <1>1, <1>2, GivesUp
<1>3. CASE AcquireLease(p, next)
  <2>1. pc'[p] = next /\ \A q \in Processes \ {p} : pc'[q] = pc[q]
    BY <1>3 DEF LifeInv, LifeType, Go, AcquireLease
  <2>2. lease' = p /\ Free(lease) /\ run' = run /\ saw' = saw /\ Go(p, next)
    BY <1>3 DEF AcquireLease
  <2>3. HolderHasLease(p)'
    BY <2>2 DEF HolderHasLease
  <2>4. p \in Launchers => LauncherInv(p)'
    BY <1>1, <2>1, Roles DEF LifeInv, LauncherInv
  <2>5. p \in Controllers => ControllerInv(p)'
    BY <1>1, <2>1, Roles DEF LifeInv, ControllerInv, facts
  <2>6. p \in Cancellers => CancellerInv(p)'
    BY <1>1, <2>1, <2>2, CancellerFacts, Roles DEF CancellerInv, facts, Gone
  <2>7. p \in Mutators => MutatorInv(p)'
    BY <1>3, Roles DEF MutatorInv, AcquireLease, AuthorityHolds, marks
  <2> QED
    BY <1>1, <2>2, <2>3, <2>4, <2>5, <2>6, <2>7, GoesOn DEF LeaseOf, LifeInv, LifeType
<1> QED
  BY <1>2, <1>3 DEF TakeLease, RefuseLease

LEMMA GetsElected ==
  ASSUME LifeInv, NEW p \in Processes, NEW next \in {"start", "admit", "workers"}, Elect(p, next),
         p \in Launchers <=> next = "start", p \in Controllers <=> next = "admit",
         p \notin Mutators
  PROVE  LifeInv'
<1>1. UNCHANGED facts /\ ~Gone(p) /\ pc[p] = "elect"
  BY DEF Elect, Elected, NotElected, At, Gone, journal, marks, facts
<1>2. CASE GiveUp(p)
  BY <1>1, <1>2, GivesUp
<1>3. CASE Elected(p, next)
  <2>1. pc'[p] = next /\ \A q \in Processes \ {p} : pc'[q] = pc[q]
    BY <1>3 DEF LifeInv, LifeType, Go, Elected
  <2>2. lease' = lease /\ run' = run /\ saw' = saw /\ Go(p, next)
    BY <1>3 DEF Elected
  <2>3. HolderHasLease(p)'
    BY <1>1, <2>2 DEF HolderHasLease, LifeInv
  <2>4. p \in Launchers => LauncherInv(p)'
    BY <1>1, <2>1, Roles DEF LifeInv, LauncherInv
  <2>5. p \in Controllers => ControllerInv(p)'
    BY <1>1, <2>1, Roles DEF LifeInv, ControllerInv, facts
  <2>6. p \in Cancellers => CancellerInv(p)'
    BY <1>1, <2>1, <2>2, CancellerFacts, Roles DEF CancellerInv, facts, Gone
  <2> QED
    BY <1>1, <2>2, <2>3, <2>4, <2>5, <2>6, GoesOn DEF LeaseOf, LifeInv, LifeType
<1> QED
  BY <1>2, <1>3 DEF Elect, NotElected

----
(* The launcher. *)

LEMMA LauncherWalks ==
  ASSUME LifeInv, NEW l \in Launchers,
         Observe(l) \/ ReleaseLeases(l) \/ CheckRelease(l) \/ OpenGate(l)
  PROVE  LifeInv'
<1>1. l \in Processes /\ l \notin Controllers /\ l \notin Cancellers /\ l \notin Mutators
  BY Roles
<1>2. UNCHANGED facts /\ ~Gone(l) /\ pc[l] \in {"idle", "check", "publish", "gate"}
  BY DEF Observe, ReleaseLeases, CheckRelease, OpenGate, At, Gone, journal, marks, facts
<1>3. CASE GiveUp(l)
  BY <1>1, <1>2, <1>3, GivesUp
<1>4. CASE \E next \in {"run", "done", "publish", "mark"} :
             /\ Go(l, next) /\ LeaseOf(l) /\ run' \in Processes \cup {None, Blank} /\ saw' = saw
             /\ pc[l] = "idle" => next \in {"run", "done"}
             /\ pc[l] = "check" => next \in {"publish", "done"}
             /\ pc[l] = "publish" => next \in {"mark", "done"}
             /\ pc[l] = "gate" => next = "done"
  <2> PICK next \in {"run", "done", "publish", "mark"} :
             /\ Go(l, next) /\ LeaseOf(l) /\ run' \in Processes \cup {None, Blank} /\ saw' = saw
             /\ pc[l] = "idle" => next \in {"run", "done"}
             /\ pc[l] = "check" => next \in {"publish", "done"}
             /\ pc[l] = "publish" => next \in {"mark", "done"}
             /\ pc[l] = "gate" => next = "done"
    BY <1>4
  <2>1. pc'[l] = next /\ \A q \in Processes \ {l} : pc'[q] = pc[q]
    BY <1>1 DEF LifeInv, LifeType, Go
  <2>2. HolderHasLease(l)'
    BY <2>1 DEF HolderHasLease
  <2>3. LauncherInv(l)'
    BY <1>2, <2>1, Roles DEF LifeInv, LauncherInv, facts
  <2> QED
    BY <1>1, <1>2, <2>2, <2>3, GoesOn DEF LifeInv, LifeType
<1>5. Observe(l) \/ OpenGate(l) => <1>4!1
  BY DEF Observe, OpenGate, LeaseOf, locks, At, LifeInv, LifeType
<1>6. ReleaseLeases(l) => GiveUp(l) \/ <1>4!1
  BY DEF ReleaseLeases, ReleaseAll, LeaseOf, At, LifeInv, LifeType
<1>7. CheckRelease(l) => GiveUp(l) \/ <1>4!1
  BY DEF CheckRelease, LeaseOf, locks, At, LifeInv, LifeType
<1> QED
  BY <1>3, <1>4, <1>5, <1>6, <1>7

\* Nobody who needed another start of this campaign was past idle.
LEMMA CommitsStart ==
  ASSUME LifeInv, NEW l \in Launchers, CommitStart(l)
  PROVE  LifeInv'
<1> DEFINE c == CampaignOf[l]
<1>1. /\ l \in Processes /\ l \notin Controllers /\ l \notin Cancellers /\ l \notin Mutators
      /\ c \in Campaigns /\ ~Gone(l) /\ pc[l] = "start" /\ l # None
  BY Roles DEF CommitStart, At, Gone
<1>2. CASE GiveUp(l) /\ UNCHANGED facts
  BY <1>1, <1>2, GivesUp
<1>3. CASE /\ start[c] = None /\ start' = [start EXCEPT ![c] = l] /\ Go(l, "claim")
           /\ UNCHANGED <<controller, ended, terminated, locks, saw, marks, worker>>
  <2>1. pc' \in [Processes -> Places] /\ pc'[l] = "claim" /\ \A q \in Processes \ {l} : pc'[q] = pc[q]
    BY <1>1, <1>3 DEF LifeInv, LifeType, Go
  <2>2. /\ start' \in [Campaigns -> Launchers \cup {None}] /\ start'[c] = l
        /\ \A d \in Campaigns \ {c} : start'[d] = start[d]
    BY <1>1, <1>3 DEF LifeInv, LifeType
  <2>3. LifeType'
    BY <1>3, <2>1, <2>2 DEF LifeInv, LifeType, locks, marks
  <2>4. \A p \in Processes : HolderHasLease(p)'
    BY <1>1, <1>3, <2>1 DEF LifeInv, HolderHasLease, locks
  <2>5. \A m \in Launchers : LauncherInv(m)'
    BY <1>1, <1>3, <2>1, <2>2, Roles DEF LifeInv, LauncherInv
  <2>6. \A k \in Controllers : ControllerInv(k)'
    BY <1>1, <1>3, <2>1, Roles DEF LifeInv, ControllerInv, marks
  <2>7. \A x \in Cancellers : CancellerInv(x)'
    <3> SUFFICES ASSUME NEW x \in Cancellers PROVE CancellerInv(x)'
      OBVIOUS
    <3>1. x \in Processes \ {l} /\ CampaignOf[x] \in Campaigns
      BY <1>1, Roles
    <3>2. saw[x].controller # None => saw[x].controller \in Processes \ {l}
      BY <1>1, CancellerFacts, Roles
    <3>3. CASE CampaignOf[x] = c
      <4>1. pc[x] \in {"idle", "dead", "done"}
        BY <1>3, <3>3, CancellerFacts DEF CancellerInv
      <4> QED
        BY <1>3, <2>1, <3>1, <3>2, <4>1, CancellerFacts DEF CancellerInv
    <3>4. CASE CampaignOf[x] # c
      <4>1. start'[CampaignOf[x]] = start[CampaignOf[x]]
        BY <2>2, <3>1, <3>4
      <4>2. /\ controller[CampaignOf[x]] # None => controller[CampaignOf[x]] \in Processes \ {l}
            /\ start[CampaignOf[x]] # None => start[CampaignOf[x]] \in Processes
        BY <1>1, CancellerFacts, Roles
      <4>3. Gone(start[CampaignOf[x]]) => start[CampaignOf[x]] # l
        BY <1>1
      <4> QED
        BY <1>3, <2>1, <3>1, <3>2, <4>1, <4>2, <4>3, CancellerFacts, Roles DEF CancellerInv, Gone, Settled
    <3> QED
      BY <3>3, <3>4
  <2>8. \A m \in Mutators : MutatorInv(m)'
    BY <1>1, <1>3, <2>1, Roles DEF LifeInv, MutatorInv, marks
  <2>9. \A d \in Campaigns : CampaignInv(d)'
    BY <1>1, <1>3, <2>1, <2>2, Roles DEF LifeInv, LifeType, CampaignInv, marks
  <2> QED
    BY <2>3, <2>4, <2>5, <2>6, <2>7, <2>8, <2>9 DEF LifeInv
<1> QED
  BY <1>2, <1>3 DEF CommitStart, facts, journal, marks

LEMMA PublishesClaim ==
  ASSUME LifeInv, NEW l \in Launchers, PublishClaim(l)
  PROVE  LifeInv'
<1> DEFINE c == CampaignOf[l]
<1>1. /\ l \in Processes /\ l \notin Controllers /\ l \notin Cancellers /\ l \notin Mutators
      /\ c \in Campaigns /\ ~Gone(l) /\ pc[l] = "claim"
  BY Roles DEF PublishClaim, At, Gone
<1>2. /\ lease = l /\ start[c] = l /\ claim = None /\ lease' = lease /\ run' = run /\ saw' = saw /\ Go(l, "spawn")
      /\ start' = start /\ controller' = controller /\ ended' = ended /\ terminated' = terminated
      /\ released' = released /\ worker' = worker
  BY DEF PublishClaim, locks, journal
<1>3. pc' \in [Processes -> Places] /\ pc'[l] = "spawn" /\ \A q \in Processes \ {l} : pc'[q] = pc[q]
  BY <1>1, <1>2 DEF LifeInv, LifeType, Go
<1>4. LifeType'
  BY <1>2, <1>3 DEF LifeInv, LifeType
<1>5. \A p \in Processes : HolderHasLease(p)'
  BY <1>1, <1>2, <1>3 DEF LifeInv, HolderHasLease
<1>6. \A m \in Launchers : LauncherInv(m)'
  BY <1>1, <1>2, <1>3, Roles DEF LifeInv, LauncherInv
<1>7. \A k \in Controllers : ControllerInv(k)'
  BY <1>1, <1>2, <1>3, Roles DEF LifeInv, HolderHasLease, ControllerInv
<1>8. \A x \in Cancellers : CancellerInv(x)'
  BY <1>1, <1>2, <1>3, CancellerStands, Roles DEF Gone, Settled
<1>9. \A m \in Mutators : MutatorInv(m)'
  BY <1>1, <1>2, <1>3, Roles DEF LifeInv, HolderHasLease, MutatorInv
<1>10. \A d \in Campaigns : CampaignInv(d)'
  BY <1>1, <1>2, <1>3, Roles DEF LifeInv, LifeType, CampaignInv
<1> QED
  BY <1>4, <1>5, <1>6, <1>7, <1>8, <1>9, <1>10 DEF LifeInv

LEMMA SpawnsChild ==
  ASSUME LifeInv, NEW l \in Launchers, Spawn(l)
  PROVE  LifeInv'
<1> DEFINE k == ChildOf[l]
<1>1. /\ l \in Processes /\ l \notin Controllers /\ l \notin Cancellers /\ l \notin Mutators
      /\ k \in Controllers /\ k \in Processes /\ k # l /\ pc[l] = "spawn" /\ pc[k] = "unborn"
  BY Roles DEF Spawn, At, LifeInv, LauncherInv
<1>2. /\ lease' = lease /\ run' = run /\ saw' = saw /\ claim' = claim
      /\ start' = start /\ controller' = controller /\ ended' = ended /\ terminated' = terminated
      /\ released' = released /\ worker' = worker
      /\ pc' = [pc EXCEPT ![l] = "bind", ![k] = "gated"]
  BY DEF Spawn, locks, journal, marks
<1>3. /\ pc' \in [Processes -> Places] /\ pc'[l] = "bind" /\ pc'[k] = "gated"
      /\ \A q \in Processes \ {l, k} : pc'[q] = pc[q]
  BY <1>1, <1>2 DEF LifeInv, LifeType
<1>4. LifeType'
  BY <1>2, <1>3 DEF LifeInv, LifeType
<1>5. \A p \in Processes : HolderHasLease(p)'
  BY <1>1, <1>2, <1>3 DEF LifeInv, HolderHasLease
<1>6. \A m \in Launchers : LauncherInv(m)'
  <2>1. \A m \in Launchers \ {l} : ChildOf[m] # k
    BY LifecycleAssumption
  <2> QED
    BY <1>1, <1>2, <1>3, <2>1, Roles DEF LifeInv, LauncherInv
<1>7. \A j \in Controllers : ControllerInv(j)'
  BY <1>1, <1>2, <1>3, Roles DEF LifeInv, ControllerInv
<1>8. \A x \in Cancellers : CancellerInv(x)'
  BY <1>1, <1>2, <1>3, CancellerStands, Roles DEF Gone, Settled
<1>9. \A m \in Mutators : MutatorInv(m)'
  BY <1>1, <1>2, <1>3, Roles DEF LifeInv, MutatorInv
<1>10. \A d \in Campaigns : CampaignInv(d)'
  BY <1>1, <1>2, <1>3, Roles DEF LifeInv, LifeType, CampaignInv
<1> QED
  BY <1>4, <1>5, <1>6, <1>7, <1>8, <1>9, <1>10 DEF LifeInv

\* While its launcher lives and has bound nobody, no canceller counts on the binding.
LEMMA BindsController ==
  ASSUME LifeInv, NEW l \in Launchers, BindController(l)
  PROVE  LifeInv'
<1> DEFINE c == CampaignOf[l]
<1>1. /\ l \in Processes /\ l \notin Controllers /\ l \notin Cancellers /\ l \notin Mutators
      /\ c \in Campaigns /\ ~Gone(l) /\ pc[l] = "bind" /\ start[c] = l
      /\ ChildOf[l] \in Controllers /\ ChildOf[l] \in Processes /\ ChildOf[l] # l
      /\ pc[ChildOf[l]] # "unborn" /\ CampaignOf[ChildOf[l]] = c /\ l # None /\ ChildOf[l] # None
  BY Roles DEF BindController, At, Gone, LifeInv, LauncherInv
<1>2. CASE GiveUp(l) /\ UNCHANGED facts
  BY <1>1, <1>2, GivesUp
<1>3. CASE /\ controller[c] = None /\ controller' = [controller EXCEPT ![c] = ChildOf[l]]
           /\ Go(l, "check")
           /\ UNCHANGED <<start, ended, terminated, locks, saw, marks, worker>>
  <2>1. pc' \in [Processes -> Places] /\ pc'[l] = "check" /\ \A q \in Processes \ {l} : pc'[q] = pc[q]
    BY <1>1, <1>3 DEF LifeInv, LifeType, Go
  <2>2. /\ controller' \in [Campaigns -> Controllers \cup {None}] /\ controller'[c] = ChildOf[l]
        /\ \A d \in Campaigns \ {c} : controller'[d] = controller[d]
    BY <1>1, <1>3 DEF LifeInv, LifeType
  <2>3. LifeType'
    BY <1>3, <2>1, <2>2 DEF LifeInv, LifeType, locks, marks
  <2>4. \A p \in Processes : HolderHasLease(p)'
    BY <1>1, <1>3, <2>1 DEF LifeInv, HolderHasLease, locks
  <2>5. \A m \in Launchers : LauncherInv(m)'
    BY <1>1, <1>3, <2>1, <2>2, Roles DEF LifeInv, LauncherInv
  <2>6. \A k \in Controllers : ControllerInv(k)'
    BY <1>1, <1>3, <2>1, <2>2, Roles DEF LifeInv, ControllerInv, marks
  <2>7. \A x \in Cancellers : CancellerInv(x)'
    <3> SUFFICES ASSUME NEW x \in Cancellers PROVE CancellerInv(x)'
      OBVIOUS
    <3>1. /\ x \in Processes \ {l} /\ CampaignOf[x] \in Campaigns /\ pc'[x] = pc[x] /\ saw'[x] = saw[x]
      BY <1>1, <1>3, <2>1, Roles
    <3>3. CASE CampaignOf[x] = c
      <4>1. pc[x] \notin FromRebind
        BY <1>1, <1>3, <3>3, CancellerFacts DEF CancellerInv
      <4>2. saw[x].controller # None => saw[x].controller \in Processes \ {l}
        BY <1>1, CancellerFacts, Roles
      <4> QED
        BY <1>1, <1>3, <2>1, <3>1, <3>3, <4>1, <4>2, CancellerFacts DEF CancellerInv
    <3>4. CASE CampaignOf[x] # c
      BY <1>1, <1>3, <2>1, <2>2, <3>1, <3>4, CancellerStands DEF Gone, Settled
    <3> QED
      BY <3>3, <3>4
  <2>8. \A m \in Mutators : MutatorInv(m)'
    BY <1>1, <1>3, <2>1, Roles DEF LifeInv, MutatorInv, marks
  <2>9. \A d \in Campaigns : CampaignInv(d)'
    BY <1>1, <1>3, <2>1, <2>2, Roles DEF LifeInv, LifeType, CampaignInv, marks
  <2> QED
    BY <2>3, <2>4, <2>5, <2>6, <2>7, <2>8, <2>9 DEF LifeInv
<1> QED
  BY <1>2, <1>3 DEF BindController, facts, journal, marks

LEMMA MarksReleased ==
  ASSUME LifeInv, NEW l \in Launchers, MarkReleased(l)
  PROVE  LifeInv'
<1> DEFINE c == CampaignOf[l]
<1>1. /\ l \in Processes /\ l \notin Controllers /\ l \notin Cancellers /\ l \notin Mutators
      /\ c \in Campaigns /\ ~Gone(l) /\ pc[l] = "mark" /\ controller[c] # None
  BY Roles DEF MarkReleased, At, Gone, LifeInv, LauncherInv
<1>2. /\ lease' = lease /\ run' = run /\ saw' = saw /\ claim' = claim /\ Go(l, "gate")
      /\ start' = start /\ controller' = controller /\ ended' = ended /\ terminated' = terminated
      /\ released' = [released EXCEPT ![c] = TRUE] /\ worker' = worker
  BY DEF MarkReleased, locks, journal
<1>3. pc' \in [Processes -> Places] /\ pc'[l] = "gate" /\ \A q \in Processes \ {l} : pc'[q] = pc[q]
  BY <1>1, <1>2 DEF LifeInv, LifeType, Go
<1>4. LifeType'
  BY <1>2, <1>3 DEF LifeInv, LifeType
<1>5. \A p \in Processes : HolderHasLease(p)'
  BY <1>1, <1>2, <1>3 DEF LifeInv, HolderHasLease
<1>6. \A m \in Launchers : LauncherInv(m)'
  BY <1>1, <1>2, <1>3, Roles DEF LifeInv, LauncherInv
<1>7. \A k \in Controllers : ControllerInv(k)'
  BY <1>1, <1>2, <1>3, Roles DEF LifeInv, ControllerInv
<1>8. \A x \in Cancellers : CancellerInv(x)'
  BY <1>1, <1>2, <1>3, CancellerStands, Roles DEF Gone, Settled
<1>9. \A m \in Mutators : MutatorInv(m)'
  BY <1>1, <1>2, <1>3, Roles DEF LifeInv, MutatorInv
<1>10. \A d \in Campaigns : CampaignInv(d)'
  BY <1>1, <1>2, <1>3, Roles DEF LifeInv, LifeType, CampaignInv
<1> QED
  BY <1>4, <1>5, <1>6, <1>7, <1>8, <1>9, <1>10 DEF LifeInv

----
(* The controller. *)

\* A step that changes facts of c but not who is bound, who is dead and who has which lease.
\* What it may not do is take away what a canceller proved.
LEMMA FactsChange ==
  ASSUME LifeInv, NEW p \in Processes, ~Gone(p), pc[p] # "unborn", NEW c \in Campaigns,
         run' = run, lease' = lease, saw' = saw, start' = start, controller' = controller,
         released' = released,
         \A d \in Campaigns \ {c} : /\ ended'[d] = ended[d] /\ terminated'[d] = terminated[d]
                                    /\ worker'[d] = worker[d],
         ended' \in [Campaigns -> {None, "completed", "cancelled", "interrupted"}],
         terminated' \in [Campaigns -> BOOLEAN],
         worker' \in [Campaigns -> Workings],
         pc' \in [Processes -> Places],
         \A q \in Processes \ {p} : pc'[q] = pc[q],
         pc'[p] \in Holding => lease = p,
         ended[c] # None => ended'[c] # None,
         terminated'[c] => ended'[c] # None,
         pc[p] \in Holding \/ (claim' = claim /\ terminated' = terminated /\ ended' = ended),
         lease = p \/ (claim' = claim /\ terminated' = terminated),
         pc[p] \in Holding \/ Settled(c)' \/ worker' = worker,
         pc'[p] # "unborn", claim' = claim \/ (claim' = None /\ claim = c),
         worker'[c] = "asked" => claim' = c /\ ~terminated'[c],
         p \in Launchers => LauncherInv(p)',
         p \in Controllers => ControllerInv(p)',
         p \in Cancellers => CancellerInv(p)',
         p \in Mutators => MutatorInv(p)'
  PROVE  LifeInv'
<1>1. LifeType'
  BY DEF LifeInv, LifeType
<1>2. \A q \in Processes : /\ Gone(q) => Gone(q)'
                           /\ (pc'[q] = "unborn") <=> (pc[q] = "unborn")
  BY DEF Gone
<1>3. pc[p] \in Holding => lease = p
  BY DEF LifeInv, HolderHasLease
<1>4. \A q \in Processes : HolderHasLease(q)'
  BY <1>3 DEF LifeInv, HolderHasLease
<1>5. \A m \in Launchers \ {p} : LauncherInv(m)'
  BY <1>2, Roles DEF LifeInv, LauncherInv
<1>6. \A k \in Controllers \ {p} : ControllerInv(k)'
  <2> SUFFICES ASSUME NEW k \in Controllers \ {p} PROVE ControllerInv(k)'
    OBVIOUS
  <2>1. k \in Processes /\ CampaignOf[k] \in Campaigns /\ pc'[k] = pc[k] /\ ControllerInv(k)
    BY Roles DEF LifeInv
  <2>2. pc[k] \in Holding => lease # p
    BY <2>1 DEF LifeInv, HolderHasLease
  <2>3. pc[k] = "starting" => claim' = claim /\ terminated' = terminated
    BY <2>2
  <2>4. pc[k] = "ended" => ended' = ended
    BY <2>2, <1>3
  <2> QED
    BY <2>1, <2>3, <2>4 DEF ControllerInv
<1>7. \A x \in Cancellers \ {p} : CancellerInv(x)'
  <2> SUFFICES ASSUME NEW x \in Cancellers \ {p} PROVE CancellerInv(x)'
    OBVIOUS
  <2>1. x \in Processes /\ CampaignOf[x] \in Campaigns /\ pc'[x] = pc[x]
    BY Roles
  <2>2. pc[x] \in Holding => lease # p
    BY <2>1 DEF LifeInv, HolderHasLease
  <2>3. pc[x] \in {"end", "terminate"} /\ Settled(CampaignOf[x]) => Settled(CampaignOf[x])'
    BY <1>3, <2>1, <2>2 DEF Settled
  <2>4. pc[x] = "terminate" /\ ended[CampaignOf[x]] # None => ended'[CampaignOf[x]] # None
    BY <2>1
  <2> QED
    BY <1>2, <2>1, <2>3, <2>4, CancellerStands
<1>8. \A m \in Mutators \ {p} : MutatorInv(m)'
  BY Roles DEF LifeInv, MutatorInv
<1>9. \A d \in Campaigns : CampaignInv(d)'
  <2> SUFFICES ASSUME NEW d \in Campaigns PROVE CampaignInv(d)'
    OBVIOUS
  <2>1. controller[d] # None => controller[d] \in Processes
    BY Roles DEF LifeInv, LifeType
  <2>2. terminated'[d] => ended'[d] # None
    BY DEF LifeInv, CampaignInv
  <2>3. worker'[d] = "asked" => claim' = d /\ ~terminated'[d]
    BY DEF LifeInv, CampaignInv
  <2> QED
    BY <1>2, <2>1, <2>2, <2>3 DEF LifeInv, CampaignInv
<1> QED
  BY <1>1, <1>4, <1>5, <1>6, <1>7, <1>8, <1>9 DEF LifeInv

LEMMA ControllerWalks ==
  ASSUME LifeInv, NEW k \in Controllers,
         GateFails(k) \/ Enter(k) \/ Admit(k) \/ ForgoStart(k) \/ StartFails(k) \/ Finish(k)
  PROVE  LifeInv'
<1> DEFINE c == CampaignOf[k]
<1>1. k \in Processes /\ k \notin Launchers /\ k \notin Cancellers /\ k \notin Mutators /\ c \in Campaigns
  BY Roles
<1>2. UNCHANGED facts /\ ~Gone(k) /\ pc[k] # "unborn"
  BY DEF GateFails, Enter, Admit, ForgoStart, StartFails, Finish, At, Gone, journal, marks, facts
<1>3. CASE GateFails(k)
  <2>1. Go(k, "done") /\ LeaseOf(k) /\ run' \in Processes \cup {None, Blank} /\ saw' = saw
    BY <1>3 DEF GateFails, LeaseOf, locks, LifeInv, LifeType
  <2> QED
    BY <1>1, <1>2, <2>1, BacksOut
<1>4. CASE Finish(k)
  <2>1. Go(k, "done") /\ LeaseOf(k) /\ run' \in Processes \cup {None, Blank}
    BY <1>4 DEF Finish, ReleaseAll, LeaseOf, LifeInv, LifeType
  <2>2. saw' = [x \in Cancellers |-> IF x = k THEN Nothing ELSE saw[x]]
    BY <1>4 DEF Finish, Forget
  <2> QED
    BY <1>1, <1>2, <2>1, <2>2, BacksOut
<1>5. CASE Enter(k) \/ Admit(k) \/ ForgoStart(k) \/ StartFails(k)
  <2>1. /\ lease' = lease /\ run' = run /\ saw' = saw
    BY <1>5 DEF Enter, Admit, ForgoStart, StartFails, locks
  <2>2. PICK next \in {"run", "done", "dispatch", "binding", "starting"} :
          /\ Go(k, next)
          /\ next = "run" => pc[k] = "gated" /\ controller[c] = k
          /\ next = "dispatch" => pc[k] \in {"admit", "bound", "waiting"}
          /\ next = "binding" => pc[k] = "dispatch"
          /\ next = "starting" => pc[k] = "bound" /\ claim = c /\ ended[c] = None
    BY <1>5, <1>1 DEF Enter, Admit, ForgoStart, StartFails, Admitted, OpenStart, AuthorityHolds, At
  <2>3. pc'[k] = next /\ \A q \in Processes \ {k} : pc'[q] = pc[q]
    BY <1>1, <2>2 DEF LifeInv, LifeType, Go
  <2>4. HolderHasLease(k)'
    BY <1>1, <2>1, <2>2, <2>3 DEF LifeInv, HolderHasLease
  <2>5. ControllerInv(k)'
    BY <1>1, <1>2, <2>2, <2>3 DEF LifeInv, LifeType, ControllerInv, CampaignInv, facts
  <2> QED
    BY <1>1, <1>2, <2>1, <2>2, <2>4, <2>5, GoesOn DEF LeaseOf, LifeInv, LifeType
<1> QED
  BY <1>3, <1>4, <1>5

WorkerSteps(k) == BindWorker(k) \/ StartWorker(k) \/ RecordStart(k) \/ StopWorker(k)

LEMMA ControllerWorks ==
  ASSUME LifeInv, NEW k \in Controllers,
         WorkerSteps(k) \/ EndSession(k) \/ Terminate(k) \/ ClearClaim(k)
  PROVE  LifeInv'
<1> DEFINE c == CampaignOf[k]
<1>1. k \in Processes /\ k \notin Launchers /\ k \notin Cancellers /\ k \notin Mutators /\ c \in Campaigns
  BY Roles
<1>2. /\ run' = run /\ lease' = lease /\ saw' = saw /\ start' = start /\ controller' = controller
      /\ released' = released
  BY DEF WorkerSteps, BindWorker, StartWorker, RecordStart, StopWorker, EndSession, Terminate, ClearClaim,
     locks, journal, marks
<1>3. /\ pc[k] \in {"binding", "starting", "waiting", "dispatch", "ended", "clear"}
      /\ ~Gone(k) /\ lease = k
  BY <1>1 DEF WorkerSteps, BindWorker, StartWorker, RecordStart, StopWorker, EndSession, Terminate, ClearClaim,
     At, Gone, LifeInv, HolderHasLease
<1>4. ControllerInv(k) /\ CampaignInv(c)
  BY <1>1 DEF LifeInv
<1>5. CASE WorkerSteps(k)
  <2>1. /\ ended' = ended /\ terminated' = terminated /\ claim' = claim
    BY <1>5 DEF WorkerSteps, BindWorker, StartWorker, RecordStart, StopWorker, journal, marks
  <2>2. PICK to \in {"bound", "asked", "running", "exited", "stopped"} :
          /\ worker' = [worker EXCEPT ![c] = to]
          /\ to = "asked" => pc[k] = "starting"
    BY <1>5 DEF WorkerSteps, BindWorker, StartWorker, RecordStart, StopWorker, At
  <2>3. /\ worker' \in [Campaigns -> Workings] /\ worker'[c] = to
        /\ \A d \in Campaigns \ {c} : worker'[d] = worker[d]
    BY <1>1, <2>2 DEF LifeInv, LifeType
  <2>4. /\ pc' \in [Processes -> Places] /\ \A q \in Processes \ {k} : pc'[q] = pc[q]
        /\ pc'[k] \in {"bound", "waiting", "dispatch"}
    BY <1>1, <1>5 DEF WorkerSteps, BindWorker, StartWorker, RecordStart, StopWorker, At, Go, LifeInv, LifeType
  <2>5. ControllerInv(k)'
    BY <1>2, <1>3, <1>4, <2>1, <2>4 DEF ControllerInv
  <2>6. worker'[c] = "asked" => claim' = c /\ ~terminated'[c]
    BY <1>4, <2>1, <2>2, <2>3 DEF ControllerInv
  <2> QED
    BY <1>1, <1>2, <1>3, <1>4, <2>1, <2>3, <2>4, <2>5, <2>6, FactsChange DEF LifeInv, LifeType, CampaignInv
<1>6. CASE EndSession(k)
  <2>1. /\ terminated' = terminated /\ claim' = claim /\ worker' = worker
        /\ ended' \in [Campaigns -> {None, "completed", "cancelled", "interrupted"}]
        /\ \A d \in Campaigns \ {c} : ended'[d] = ended[d]
        /\ ended'[c] # None
        /\ pc' \in [Processes -> Places] /\ \A q \in Processes \ {k} : pc'[q] = pc[q]
        /\ pc'[k] = "ended"
    BY <1>1, <1>6, Roles DEF EndSession, At, Go, journal, marks, LifeInv, LifeType
  <2>2. ControllerInv(k)'
    BY <1>2, <1>3, <1>4, <2>1 DEF ControllerInv
  <2>3. worker'[c] = "asked" => claim' = c /\ ~terminated'[c]
    BY <1>4, <2>1 DEF CampaignInv
  <2> QED
    BY <1>1, <1>2, <1>3, <1>4, <2>1, <2>2, <2>3, FactsChange DEF LifeInv, LifeType
<1>7. CASE Terminate(k)
  <2>1. /\ ended' = ended /\ claim' = claim /\ worker' = worker
        /\ terminated' \in [Campaigns -> BOOLEAN]
        /\ \A d \in Campaigns \ {c} : terminated'[d] = terminated[d]
        /\ pc' \in [Processes -> Places] /\ \A q \in Processes \ {k} : pc'[q] = pc[q]
        /\ pc'[k] \in {"clear", "finish"} /\ ended[c] # None
        /\ terminated' = terminated \/ Settled(c)
    <3>1. pc[k] = "ended" /\ ended' = ended /\ claim' = claim /\ worker' = worker /\ ended[c] # None
      BY <1>4, <1>7 DEF Terminate, At, marks, ControllerInv
    <3>2. \/ terminated' = [terminated EXCEPT ![c] = TRUE] /\ Go(k, "clear") /\ Settled(c)
          \/ terminated' = terminated /\ Go(k, "finish")
      BY <1>7 DEF Terminate, Terminable
    <3>3. terminated \in [Campaigns -> BOOLEAN] /\ pc \in [Processes -> Places]
      BY DEF LifeInv, LifeType
    <3> QED
      BY <1>1, <3>1, <3>2, <3>3 DEF Go
  <2>2. ControllerInv(k)'
    BY <1>2, <1>3, <1>4, <2>1 DEF ControllerInv
  <2>3. worker'[c] = "asked" => claim' = c /\ ~terminated'[c]
    BY <1>4, <2>1 DEF CampaignInv, Settled
  <2> QED
    BY <1>1, <1>2, <1>3, <1>4, <2>1, <2>2, <2>3, FactsChange DEF LifeInv, LifeType
<1>8. CASE ClearClaim(k)
  <2>1. /\ ended' = ended /\ claim' = None /\ worker' = worker /\ terminated' = terminated
        /\ pc' \in [Processes -> Places] /\ \A q \in Processes \ {k} : pc'[q] = pc[q]
        /\ pc'[k] = "finish" /\ claim = c /\ terminated[c]
    BY <1>1, <1>4, <1>8 DEF ClearClaim, Clearable, At, Go, journal, marks, LifeInv, LifeType
  <2>2. ControllerInv(k)'
    BY <1>2, <1>3, <1>4, <2>1 DEF ControllerInv
  <2>3. worker'[c] # "asked"
    BY <1>4, <2>1 DEF CampaignInv
  <2> QED
    BY <1>1, <1>2, <1>3, <1>4, <2>1, <2>2, <2>3, FactsChange DEF LifeInv, LifeType, CampaignInv
<1> QED
  BY <1>5, <1>6, <1>7, <1>8

----
(* Cancellation. *)

\* A canceller whose reading is of now.
LEMMA ReadsOn ==
  ASSUME LifeInv, NEW x \in Cancellers, NEW seen \in Seen, seen.controller = controller[CampaignOf[x]],
         NEW next \in {"intent", "settle", "resettle", "judge"}, Reads(x, seen, next),
         ~Gone(x), pc[x] # "unborn", start[CampaignOf[x]] # None,
         next = "resettle" => pc[x] \in FromRebind,
         next = "judge" => pc[x] \in FromReread
  PROVE  LifeInv'
<1> DEFINE c == CampaignOf[x]
<1>1. /\ x \in Processes /\ x \notin Launchers /\ x \notin Controllers /\ x \notin Mutators
      /\ c \in Campaigns
  BY Roles
<1>2. UNCHANGED facts
  BY DEF Reads, journal, marks, facts
<1>3. CASE GiveUp(x)
  BY <1>1, <1>2, <1>3, GivesUp
<1>4. CASE Go(x, "done") /\ Forget(x) /\ UNCHANGED <<locks, gate>>
  <2>1. LeaseOf(x) /\ run' \in Processes \cup {None, Blank}
    BY <1>4 DEF LeaseOf, locks, LifeInv, LifeType
  <2>2. saw' = [y \in Cancellers |-> IF y = x THEN Nothing ELSE saw[y]]
    BY <1>4 DEF Forget
  <2> QED
    BY <1>1, <1>2, <1>4, <2>1, <2>2, BacksOut
<1>5. CASE saw' = [saw EXCEPT ![x] = seen] /\ Go(x, next) /\ UNCHANGED <<locks, gate>>
  <2>1. pc'[x] = next /\ \A q \in Processes \ {x} : pc'[q] = pc[q]
    BY <1>1, <1>5 DEF LifeInv, LifeType, Go
  <2>2. /\ saw' \in [Cancellers -> Seen] /\ saw'[x] = seen
        /\ \A y \in Cancellers \ {x} : saw'[y] = saw[y]
    BY <1>5 DEF LifeInv, LifeType
  <2>3. LeaseOf(x) /\ run' \in Processes \cup {None, Blank}
    BY <1>5 DEF LeaseOf, locks, LifeInv, LifeType
  <2>4. HolderHasLease(x)'
    BY <2>1 DEF HolderHasLease
  <2>5. /\ controller[c] # None => controller[c] \in Processes \ {x} /\ pc[controller[c]] # "unborn"
        /\ start[c] \in Processes \ {x}
    BY <1>1, CancellerFacts, Roles DEF LifeInv, CampaignInv
  <2>6. CancellerInv(x)'
    BY <1>2, <2>1, <2>2, <2>5, CancellerFacts DEF CancellerInv, facts, Gone
  <2> QED
    BY <1>1, <1>2, <1>5, <2>2, <2>3, <2>4, <2>6, GoesOn
<1> QED
  BY <1>3, <1>4, <1>5 DEF Reads

LEMMA CancellerReads ==
  ASSUME LifeInv, NEW x \in Cancellers, BeginCancel(x) \/ RereadBinding(x) \/ RereadSettled(x)
  PROVE  LifeInv'
<1> DEFINE c == CampaignOf[x]
<1>1. x \in Processes /\ c \in Campaigns /\ ~Gone(x) /\ pc[x] \in {"idle", "rebind", "reread"}
  BY Roles DEF BeginCancel, RereadBinding, RereadSettled, At, Gone
<1>2. start[c] # None
  BY <1>1, CancellerFacts DEF BeginCancel, CancellerInv, RereadBinding, RereadSettled, At
<1>3. Sees(x) \in Seen /\ Sees(x).controller = controller[c]
  BY CancellerFacts, Roles DEF Sees, Nothing, Seen
<1>4. CASE BeginCancel(x)
  <2> DEFINE last == IF controller[c] # None THEN controller[c] ELSE start[c]
             seen == [Sees(x) EXCEPT !.loss = Gone(last)]
  <2>1. Gone(last) \in BOOLEAN
    BY DEF Gone
  <2>2. seen \in Seen /\ seen.controller = controller[c]
    <3> HIDE DEF last
    <3> QED
      BY <1>3, <2>1 DEF Seen
  <2>3. Reads(x, seen, "intent") \/ Reads(x, Sees(x), "settle")
    BY <1>4 DEF BeginCancel
  <2>4. CASE Reads(x, seen, "intent")
    <3> HIDE DEF seen
    <3> QED
      BY <1>1, <1>2, <2>2, <2>4, ReadsOn
  <2>5. CASE Reads(x, Sees(x), "settle")
    BY <1>1, <1>2, <1>3, <2>5, ReadsOn
  <2> QED
    BY <2>3, <2>4, <2>5
<1>5. CASE RereadBinding(x)
  <2>1. Reads(x, Sees(x), "resettle") /\ pc[x] = "rebind"
    BY <1>5 DEF RereadBinding, At
  <2> QED
    BY <1>1, <1>2, <1>3, <2>1, ReadsOn
<1>6. CASE RereadSettled(x)
  <2>1. CASE Reads(x, Sees(x), "judge") /\ pc[x] = "reread"
    BY <1>1, <1>2, <1>3, <2>1, ReadsOn
  <2>2. CASE GiveUp(x) /\ UNCHANGED <<journal, marks, worker, faults>>
    BY <1>1, <2>2, GivesUp DEF journal, marks, facts
  <2> QED
    BY <1>6, <2>1, <2>2 DEF RereadSettled, At
<1> QED
  BY <1>4, <1>5, <1>6

\* A canceller that keeps to the controller it has read.
LEMMA CancellerWalks ==
  ASSUME LifeInv, NEW x \in Cancellers,
         PublishIntent(x) \/ JudgeRunLock(x) \/ ReclaimRunLock(x) \/ RestoreRunLock(x) \/ Finish(x)
  PROVE  LifeInv'
<1>1. x \in Processes /\ x \notin Launchers /\ x \notin Controllers /\ x \notin Mutators
  BY Roles
<1>2. UNCHANGED facts /\ ~Gone(x) /\ pc[x] \in {"intent", "judge", "reclaim", "restore", "finish"}
  BY DEF PublishIntent, JudgeRunLock, ReclaimRunLock, RestoreRunLock, Finish, At, Gone, journal, marks, facts
<1>3. CASE GiveUp(x)
  BY <1>1, <1>2, <1>3, GivesUp
<1>4. CASE RestoreRunLock(x) \/ Finish(x)
  <2>1. saw[x].lock \in Processes \cup {None, Blank}
    BY CancellerFacts DEF Seen
  <2>2. /\ LeaseOf(x) /\ run' \in Processes \cup {None, Blank} /\ (Go(x, "idle") \/ Go(x, "done"))
        /\ saw' = [y \in Cancellers |-> IF y = x THEN Nothing ELSE saw[y]]
    BY <1>4, <2>1 DEF RestoreRunLock, Finish, ReleaseAll, Forget, LeaseOf, LifeInv, LifeType
  <2>3. CASE Go(x, "idle")
    BY <1>1, <1>2, <2>2, <2>3, BacksOut
  <2>4. CASE Go(x, "done")
    BY <1>1, <1>2, <2>2, <2>4, BacksOut
  <2> QED
    BY <2>2, <2>3, <2>4
<1>5. CASE \E next \in {"settle", "run", "reclaim", "restore"}, loss \in BOOLEAN, lock \in Processes \cup {None, Blank} :
        /\ Go(x, next) /\ lease' = lease /\ run' \in {run, None}
        /\ saw' = [saw EXCEPT ![x] = [saw[x] EXCEPT !.loss = loss, !.lock = lock]]
        /\ next = "settle" => pc[x] = "intent"
        /\ next \in {"run", "reclaim", "restore"} => pc[x] \in {"judge", "reclaim"}
  <2> PICK next \in {"settle", "run", "reclaim", "restore"}, loss \in BOOLEAN, lock \in Processes \cup {None, Blank} :
        /\ Go(x, next) /\ lease' = lease /\ run' \in {run, None}
        /\ saw' = [saw EXCEPT ![x] = [saw[x] EXCEPT !.loss = loss, !.lock = lock]]
        /\ next = "settle" => pc[x] = "intent"
        /\ next \in {"run", "reclaim", "restore"} => pc[x] \in {"judge", "reclaim"}
    BY <1>5
  <2> DEFINE seen == [saw[x] EXCEPT !.loss = loss, !.lock = lock]
  <2>1. seen \in Seen /\ seen.controller = saw[x].controller
    <3>1. saw[x] \in Seen
      BY CancellerFacts
    <3> QED
      BY <3>1 DEF Seen
  <2>2. saw' = [saw EXCEPT ![x] = seen]
    OBVIOUS
  <2> HIDE DEF seen
  <2>3. /\ saw' \in [Cancellers -> Seen] /\ saw'[x] = seen
        /\ \A y \in Cancellers \ {x} : saw'[y] = saw[y]
    BY <2>1, <2>2 DEF LifeInv, LifeType
  <2>4. pc'[x] = next /\ \A q \in Processes \ {x} : pc'[q] = pc[q]
    BY <1>1 DEF LifeInv, LifeType, Go
  <2>5. HolderHasLease(x)'
    BY <2>4 DEF HolderHasLease
  <2>6. /\ saw[x].controller # None => saw[x].controller \in Processes \ {x}
        /\ controller[CampaignOf[x]] # None => controller[CampaignOf[x]] \in Processes \ {x}
        /\ start[CampaignOf[x]] # None => start[CampaignOf[x]] \in Processes \ {x}
    BY <1>1, CancellerFacts, Roles
  <2>7. CancellerInv(x)'
    BY <1>2, <2>1, <2>3, <2>4, <2>6, CancellerFacts DEF CancellerInv, facts, Gone
  <2> QED
    BY <1>1, <1>2, <2>3, <2>5, <2>7, GoesOn DEF LeaseOf, LifeInv, LifeType
<1>6. saw[x].loss \in BOOLEAN /\ saw[x].lock \in Processes \cup {None, Blank} /\ None \in Processes \cup {None, Blank}
  BY CancellerFacts DEF Seen
<1>7. saw \in [Cancellers -> Seen] /\ run \in Processes \cup {None, Blank}
  BY DEF LifeInv, LifeType
<1>8. PublishIntent(x) => GiveUp(x) \/ <1>5!1
  <2> SUFFICES ASSUME PublishIntent(x), ~GiveUp(x) PROVE <1>5!1
    OBVIOUS
  <2>1. /\ saw' = [saw EXCEPT ![x].loss = FALSE] /\ Go(x, "settle") /\ lease' = lease /\ run' = run
        /\ pc[x] = "intent"
    BY DEF PublishIntent, At, locks
  <2>2. saw' = [saw EXCEPT ![x] = [saw[x] EXCEPT !.loss = FALSE, !.lock = saw[x].lock]]
    BY <1>7, <2>1 DEF Seen
  <2> QED
    BY <1>6, <2>1, <2>2
<1>9. JudgeRunLock(x) => GiveUp(x) \/ <1>5!1
  <2> SUFFICES ASSUME JudgeRunLock(x), ~GiveUp(x) PROVE <1>5!1
    OBVIOUS
  <2>1. PICK lock \in Processes \cup {None, Blank}, next \in {"run", "reclaim"} :
          /\ saw' = [saw EXCEPT ![x].lock = lock] /\ Go(x, next) /\ lease' = lease /\ run' = run
          /\ pc[x] = "judge"
    <3>1. CASE Go(x, "run") /\ saw' = saw
      <4>1. saw' = [saw EXCEPT ![x].lock = saw[x].lock]
        BY <1>7, <3>1 DEF Seen
      <4> QED
        BY <1>6, <3>1, <4>1 DEF JudgeRunLock, At, locks
    <3>2. CASE saw' = [saw EXCEPT ![x].lock = run] /\ Go(x, "reclaim")
      BY <1>7, <3>2 DEF JudgeRunLock, At, locks
    <3> QED
      BY <3>1, <3>2 DEF JudgeRunLock
  <2>2. saw' = [saw EXCEPT ![x] = [saw[x] EXCEPT !.loss = saw[x].loss, !.lock = lock]]
    BY <1>7, <2>1 DEF Seen
  <2> QED
    BY <1>6, <2>1, <2>2
<1>10. ReclaimRunLock(x) => GiveUp(x) \/ <1>5!1
  <2> SUFFICES ASSUME ReclaimRunLock(x), ~GiveUp(x) PROVE <1>5!1
    OBVIOUS
  <2>1. PICK lock \in Processes \cup {None, Blank}, next \in {"run", "restore"} :
          /\ saw' = [saw EXCEPT ![x].lock = lock] /\ Go(x, next) /\ lease' = lease /\ run' = None
          /\ pc[x] = "reclaim"
    BY <1>6, <1>7 DEF ReclaimRunLock, At
  <2>2. saw' = [saw EXCEPT ![x] = [saw[x] EXCEPT !.loss = saw[x].loss, !.lock = lock]]
    BY <1>7, <2>1 DEF Seen
  <2> QED
    BY <1>6, <2>1, <2>2
<1> QED
  BY <1>3, <1>4, <1>5, <1>8, <1>9, <1>10

\* A kill of v, that was born: it is only the dead that become more.
LEMMA Kills ==
  ASSUME LifeInv, NEW x \in Cancellers, NEW v \in (Processes \ {x}) \cup {None},
         v # None => pc[v] # "unborn", ~Gone(x), pc[x] # "unborn",
         NEW next \in {"launcher", "rebind", "reread"}, Kill(v, x, next),
         UNCHANGED facts, lease' = lease, run' = run, saw' = saw,
         start[CampaignOf[x]] # None,
         next = "rebind" => v # None /\ v = start[CampaignOf[x]],
         next = "reread" => pc[x] \in FromResettle /\ v = controller[CampaignOf[x]]
  PROVE  LifeInv'
<1> DEFINE c == CampaignOf[x]
<1>1. /\ x \in Processes /\ x \notin Launchers /\ x \notin Controllers /\ x \notin Mutators
      /\ c \in Campaigns /\ None \notin Processes
  BY Roles
<1>2. /\ pc' \in [Processes -> Places] /\ pc'[x] = next
      /\ \A q \in Processes \ {x, v} : pc'[q] = pc[q]
      /\ v # None => Gone(v)' /\ pc'[v] \in {pc[v], "dead"}
  <2>1. pc' = [q \in Processes |-> IF q = x THEN next ELSE IF q = v /\ ~Gone(v) THEN "dead" ELSE pc[q]]
    BY DEF Kill
  <2>2. pc \in [Processes -> Places]
    BY DEF LifeInv, LifeType
  <2>3. v # None => pc'[v] = IF Gone(v) THEN pc[v] ELSE "dead"
    BY <2>1
  <2>4. pc' \in [Processes -> Places]
    BY <2>1, <2>2
  <2>5. pc'[x] = next /\ \A q \in Processes \ {x, v} : pc'[q] = pc[q]
    BY <1>1, <2>1
  <2>6. v # None => Gone(v)' /\ pc'[v] \in {pc[v], "dead"}
    BY <2>3 DEF Gone
  <2> QED
    BY <2>4, <2>5, <2>6
<1>3. \A q \in Processes : /\ Gone(q) => Gone(q)'
                           /\ (pc'[q] = "unborn") <=> (pc[q] = "unborn")
                           /\ q # x => pc'[q] \in {pc[q], "dead"}
  <2> SUFFICES ASSUME NEW q \in Processes
               PROVE  /\ Gone(q) => Gone(q)'
                      /\ (pc'[q] = "unborn") <=> (pc[q] = "unborn")
                      /\ q # x => pc'[q] \in {pc[q], "dead"}
    OBVIOUS
  <2>1. CASE q = x
    BY <1>2, <2>1 DEF Gone
  <2>2. CASE q = v
    BY <1>1, <1>2, <2>2 DEF Gone
  <2>3. CASE q # x /\ q # v
    BY <1>2, <2>3 DEF Gone
  <2> QED
    BY <2>1, <2>2, <2>3
<1>4. LifeType'
  BY <1>2 DEF LifeInv, LifeType, facts
<1>5. \A p \in Processes : HolderHasLease(p)'
  BY <1>2, <1>3 DEF LifeInv, HolderHasLease
<1>6. \A l \in Launchers : LauncherInv(l)'
  <2> SUFFICES ASSUME NEW l \in Launchers PROVE LauncherInv(l)'
    OBVIOUS
  <2>1. /\ l \in Processes /\ l # x /\ pc'[l] \in {pc[l], "dead"} /\ ChildOf[l] \in Processes
        /\ (pc'[ChildOf[l]] = "unborn") <=> (pc[ChildOf[l]] = "unborn")
        /\ LauncherInv(l)
    BY <1>1, <1>3, Roles DEF LifeInv
  <2> QED
    BY <2>1 DEF LauncherInv, facts
<1>7. \A k \in Controllers : ControllerInv(k)'
  <2> SUFFICES ASSUME NEW k \in Controllers PROVE ControllerInv(k)'
    OBVIOUS
  <2>1. k \in Processes /\ k # x /\ pc'[k] \in {pc[k], "dead"} /\ ControllerInv(k)
    BY <1>1, <1>3, Roles DEF LifeInv
  <2> QED
    BY <2>1 DEF ControllerInv, facts
<1>8. CancellerInv(x)'
  <2>1. /\ saw[x].controller # None => saw[x].controller \in Processes
        /\ controller[c] # None => controller[c] \in Processes
        /\ start[c] \in Processes
    BY CancellerFacts, Roles
  <2>2. saw'[x].controller # None => pc'[saw'[x].controller] # "unborn"
    BY <1>3, <2>1, CancellerFacts DEF CancellerInv
  <2>3. next = "rebind" => Gone(start[c])'
    BY <1>2 DEF facts
  <2>4. next = "reread" => /\ Gone(start[c])' \/ controller'[c] # None
                           /\ saw'[x].controller = controller'[c]
                           /\ controller'[c] = None \/ Gone(controller[c])'
    BY <1>2, <1>3, <2>1, CancellerFacts DEF facts, CancellerInv
  <2> QED
    BY <1>2, <2>2, <2>3, <2>4 DEF CancellerInv, facts, Gone
<1>9. \A y \in Cancellers : CancellerInv(y)'
  <2> SUFFICES ASSUME NEW y \in Cancellers \ {x} PROVE CancellerInv(y)'
    BY <1>8
  <2>1. y \in Processes /\ pc'[y] \in {pc[y], "dead"}
    BY <1>3, Roles
  <2>2. CASE pc'[y] = pc[y]
    BY <1>3, <2>2, CancellerStands DEF facts, Settled
  <2>3. CASE pc'[y] = "dead"
    <3>1. saw[y].controller # None => saw[y].controller \in Processes
      BY CancellerFacts, Roles
    <3> QED
      BY <1>3, <2>3, <3>1, CancellerFacts DEF CancellerInv
  <2> QED
    BY <2>1, <2>2, <2>3
<1>10. \A m \in Mutators : MutatorInv(m)'
  BY <1>1, <1>3, Roles DEF LifeInv, MutatorInv, facts
<1>11. \A d \in Campaigns : CampaignInv(d)'
  BY <1>3, Roles DEF LifeInv, LifeType, CampaignInv, facts
<1> QED
  BY <1>4, <1>5, <1>6, <1>7, <1>9, <1>10, <1>11 DEF LifeInv

LEMMA CancellerSettles ==
  ASSUME LifeInv, NEW x \in Cancellers, SettleController(x) \/ SettleLauncher(x)
  PROVE  LifeInv'
<1> DEFINE c == CampaignOf[x]
<1>1. /\ x \in Processes /\ x \notin Launchers /\ x \notin Controllers /\ x \notin Mutators
      /\ c \in Campaigns /\ None \notin Processes
  BY Roles
<1>2. /\ UNCHANGED facts /\ ~Gone(x) /\ pc[x] \in {"settle", "resettle", "launcher"}
      /\ lease' = lease /\ run' = run /\ saw' = saw
  BY DEF SettleController, SettleLauncher, At, Gone, journal, marks, locks, facts
<1>3. start[c] # None /\ start[c] \in Processes \ {x}
  BY <1>2, CancellerFacts, Roles DEF CancellerInv
<1>4. CASE SettleController(x)
  <2>1. /\ saw[x].controller \in (Processes \ {x}) \cup {None}
        /\ saw[x].controller # None => pc[saw[x].controller] # "unborn"
        /\ pc[x] = "resettle" => saw[x].controller = controller[c]
    BY <1>1, CancellerFacts, Roles DEF CancellerInv
  <2>2. CASE pc[x] = "settle"
    <3>1. Kill(saw[x].controller, x, "launcher")
      BY <1>4, <2>2 DEF SettleController, At
    <3> QED
      BY <1>2, <1>3, <2>1, <2>2, <3>1, Kills
  <2>3. CASE pc[x] = "resettle"
    <3>1. Kill(saw[x].controller, x, "reread")
      BY <1>4, <2>3 DEF SettleController, At
    <3> QED
      BY <1>2, <1>3, <2>1, <2>3, <3>1, Kills
  <2> QED
    BY <1>4, <2>2, <2>3 DEF SettleController
<1>5. CASE SettleLauncher(x) /\ ~released[c]
  <2>1. Kill(start[c], x, "rebind")
    BY <1>5 DEF SettleLauncher
  <2>2. pc[start[c]] # "unborn"
    BY <1>1, <1>3, CancellerFacts, Roles DEF LifeInv, LauncherInv
  <2> QED
    BY <1>2, <1>3, <2>1, <2>2, Kills
<1>6. CASE SettleLauncher(x) /\ released[c]
  <2>1. Go(x, "rebind") /\ controller[c] # None
    BY <1>1, <1>6 DEF SettleLauncher, LifeInv, CampaignInv
  <2>2. pc'[x] = "rebind" /\ \A q \in Processes \ {x} : pc'[q] = pc[q]
    BY <1>1, <2>1 DEF LifeInv, LifeType, Go
  <2>3. HolderHasLease(x)'
    BY <2>2 DEF HolderHasLease
  <2>4. saw[x].controller # None => saw[x].controller \in Processes \ {x}
    BY <1>1, CancellerFacts, Roles
  <2>5. CancellerInv(x)'
    BY <1>2, <1>3, <2>1, <2>2, <2>4, CancellerFacts DEF CancellerInv, facts
  <2> QED
    BY <1>1, <1>2, <2>1, <2>3, <2>5, GoesOn DEF LeaseOf, LifeInv, LifeType
<1> QED
  BY <1>4, <1>5, <1>6

LEMMA CancellerWorks ==
  ASSUME LifeInv, NEW x \in Cancellers,
         SettleWorkers(x) \/ CancelEnd(x) \/ CancelTerminates(x) \/ ClearClaim(x)
  PROVE  LifeInv'
<1> DEFINE c == CampaignOf[x]
<1>1. x \in Processes /\ x \notin Launchers /\ x \notin Controllers /\ x \notin Mutators /\ c \in Campaigns
  BY Roles
<1>2. pc[x] \in {"workers", "end", "terminate", "clear"} /\ ~Gone(x) /\ lease = x
  BY <1>1 DEF SettleWorkers, CancelEnd, CancelTerminates, ClearClaim, At, Gone, LifeInv, HolderHasLease
<1>3. /\ start[c] # None /\ start[c] \in Processes \ {x}
      /\ controller[c] # None => controller[c] \in Processes \ {x}
      /\ saw[x].controller # None => saw[x].controller \in Processes \ {x}
      /\ CancellerInv(x) /\ CampaignInv(c)
  BY <1>1, <1>2, CancellerFacts, Roles DEF CancellerInv, LifeInv
<1>4. CASE GiveUp(x) /\ SettleWorkers(x)
  <2>1. UNCHANGED facts
    <3>1. worker' = worker
      <4>1. pc'[x] = "idle"
        BY <1>1, <1>4 DEF GiveUp, Go, LifeInv, LifeType
      <4>2. pc'[x] = "idle" => ~Go(x, IF ~terminated[c] THEN "end" ELSE IF saw[x].claim THEN "clear" ELSE "finish")
        BY <1>1 DEF Go, LifeInv, LifeType
      <4> QED
        BY <1>4, <4>1, <4>2 DEF SettleWorkers
    <3> QED
      BY <1>4, <3>1 DEF SettleWorkers, journal, marks, facts
  <2> QED
    BY <1>1, <1>2, <1>4, <2>1, GivesUp
<1>5. CASE ~GiveUp(x) \/ ~SettleWorkers(x)
  <2>1. /\ run' = run /\ lease' = lease /\ saw' = saw /\ start' = start /\ controller' = controller
        /\ released' = released
    BY <1>5 DEF SettleWorkers, CancelEnd, CancelTerminates, ClearClaim, locks, journal, marks
  <2>2. ASSUME \A q \in Processes \ {x} : pc'[q] = pc[q],
               pc'[x] \in {"end", "terminate", "clear", "finish"},
               pc[x] \in FromReread \/ pc'[x] \in {"clear", "finish"},
               pc'[x] \in {"end", "terminate"} => Settled(c)',
               pc'[x] = "terminate" => ended'[c] # None
        PROVE  CancellerInv(x)'
    BY <1>1, <1>3, <2>1, <2>2 DEF CancellerInv, Gone
  <2>3. CASE SettleWorkers(x)
    <3>1. /\ worker' = [worker EXCEPT ![c] = IF Recorded(c) THEN "stopped" ELSE worker[c]]
          /\ Settled(c) \/ Recorded(c)
          /\ ended' = ended /\ terminated' = terminated /\ claim' = claim
          /\ pc[x] = "workers"
      BY <1>5, <2>3 DEF SettleWorkers, At, journal, marks
    <3>2. PICK next \in {"end", "clear", "finish"} : Go(x, next)
      BY <1>5, <2>3 DEF SettleWorkers
    <3>3. /\ pc' \in [Processes -> Places] /\ pc'[x] = next /\ \A q \in Processes \ {x} : pc'[q] = pc[q]
      BY <1>1, <3>2 DEF Go, LifeInv, LifeType
    <3>4. /\ worker' \in [Campaigns -> Workings]
          /\ \A d \in Campaigns \ {c} : worker'[d] = worker[d]
          /\ Settled(c)'
      BY <1>1, <3>1 DEF Settled, LifeInv, LifeType
    <3>5. CancellerInv(x)'
      BY <2>2, <3>1, <3>3, <3>4
    <3>6. (terminated'[c] => ended'[c] # None) /\ worker'[c] # "asked"
      BY <1>3, <3>1, <3>4 DEF CampaignInv, Settled
    <3> QED
      BY <1>1, <1>2, <2>1, <3>1, <3>3, <3>4, <3>5, <3>6, FactsChange DEF LifeInv, LifeType
  <2>4. CASE CancelEnd(x)
    <3>1. /\ terminated' = terminated /\ claim' = claim /\ worker' = worker /\ pc[x] = "end"
          /\ ended' = [ended EXCEPT ![c] = IF ended[c] # None THEN ended[c]
                                        ELSE IF intent[c] = "ordinary" THEN "cancelled" ELSE "interrupted"]
          /\ Go(x, "terminate")
      BY <2>4 DEF CancelEnd, At, marks
    <3>2. /\ pc' \in [Processes -> Places] /\ pc'[x] = "terminate" /\ \A q \in Processes \ {x} : pc'[q] = pc[q]
      BY <1>1, <3>1 DEF Go, LifeInv, LifeType
    <3>3. /\ ended' \in [Campaigns -> {None, "completed", "cancelled", "interrupted"}]
          /\ \A d \in Campaigns \ {c} : ended'[d] = ended[d]
          /\ ended'[c] # None
      BY <1>1, <3>1, Roles DEF LifeInv, LifeType
    <3>4. Settled(c)' /\ worker'[c] # "asked"
      BY <1>3, <3>1 DEF CancellerInv, Settled
    <3>5. CancellerInv(x)'
      BY <2>2, <3>1, <3>2, <3>3, <3>4
    <3> QED
      BY <1>1, <1>2, <2>1, <3>1, <3>2, <3>3, <3>4, <3>5, FactsChange DEF LifeInv, LifeType
  <2>5. CASE CancelTerminates(x)
    <3>1. /\ ended' = ended /\ claim' = claim /\ worker' = worker /\ pc[x] = "terminate"
          /\ terminated' = [terminated EXCEPT ![c] = TRUE]
      BY <2>5 DEF CancelTerminates, At, marks
    <3>2. PICK next \in {"clear", "finish"} : Go(x, next)
      BY <2>5 DEF CancelTerminates
    <3>3. /\ pc' \in [Processes -> Places] /\ pc'[x] = next /\ \A q \in Processes \ {x} : pc'[q] = pc[q]
      BY <1>1, <3>2 DEF Go, LifeInv, LifeType
    <3>4. /\ terminated' \in [Campaigns -> BOOLEAN]
          /\ \A d \in Campaigns \ {c} : terminated'[d] = terminated[d]
          /\ ended[c] # None /\ worker'[c] # "asked"
      BY <1>1, <1>3, <3>1 DEF CancellerInv, Settled, LifeInv, LifeType
    <3>5. CancellerInv(x)'
      BY <2>2, <3>1, <3>3
    <3> QED
      BY <1>1, <1>2, <2>1, <3>1, <3>3, <3>4, <3>5, FactsChange DEF LifeInv, LifeType
  <2>6. CASE ClearClaim(x)
    <3>1. /\ ended' = ended /\ claim' = None /\ worker' = worker /\ terminated' = terminated
          /\ Go(x, "finish") /\ claim = c /\ terminated[c]
      BY <2>6 DEF ClearClaim, Clearable, At, journal
    <3>2. /\ pc' \in [Processes -> Places] /\ pc'[x] = "finish" /\ \A q \in Processes \ {x} : pc'[q] = pc[q]
      BY <1>1, <3>1 DEF Go, LifeInv, LifeType
    <3>3. CancellerInv(x)'
      BY <2>2, <3>2
    <3>4. (terminated'[c] => ended'[c] # None) /\ worker'[c] # "asked"
      BY <1>3, <3>1 DEF CampaignInv
    <3> QED
      BY <1>1, <1>2, <2>1, <3>1, <3>2, <3>3, <3>4, FactsChange DEF LifeInv, LifeType
  <2> QED
    BY <2>3, <2>4, <2>5, <2>6
<1> QED
  BY <1>4, <1>5

LEMMA CannotSettle ==
  ASSUME LifeInv, NEW x \in Cancellers, Unsettleable(x)
  PROVE  LifeInv'
<1> DEFINE c == CampaignOf[x]
<1>1. x \in Processes /\ c \in Campaigns /\ ~Gone(x) /\ pc[x] # "unborn" /\ GiveUp(x)
  BY Roles DEF Unsettleable, At, Gone
<1>2. /\ worker' = [worker EXCEPT ![c] = worker[c]] \/ worker' = [worker EXCEPT ![c] = "lapsed"]
      /\ ~Settled(c) /\ UNCHANGED <<start, controller, ended, terminated, released, claim>>
  BY DEF Unsettleable, journal, marks
<1>3. FactsStay
  BY <1>1, <1>2 DEF FactsStay, Settled, LifeInv, LifeType
<1> QED
  BY <1>1, <1>3, GivesUpAmid

----
(* The others. *)

LEMMA MutatorMoves ==
  ASSUME LifeInv, NEW m \in Mutators, MutatorStep(m)
  PROVE  LifeInv'
<1>1. m \in Processes /\ m \notin Launchers /\ m \notin Controllers /\ m \notin Cancellers
  BY Roles
<1>2. CASE AcquireRun(m)
  BY <1>1, <1>2, TakesRun
<1>3. CASE TakeLease(m, "mutating")
  BY <1>1, <1>3, TakesLease
<1>4. CASE EndMutation(m)
  <2>1. UNCHANGED facts /\ ~Gone(m) /\ pc[m] # "unborn" /\ Go(m, "done") /\ saw' = saw
    BY <1>4 DEF EndMutation, At, Gone, journal, marks, facts
  <2>2. LeaseOf(m) /\ run' \in Processes \cup {None, Blank}
    BY <1>4 DEF EndMutation, ReleaseAll, LeaseOf, LifeInv, LifeType
  <2> QED
    BY <1>1, <2>1, <2>2, BacksOut
<1>5. CASE BeginMutation(m)
  <2>1. /\ UNCHANGED facts /\ ~Gone(m) /\ pc[m] # "unborn" /\ Go(m, "run") /\ saw' = saw
        /\ lease' = lease /\ run' = run
    BY <1>5 DEF BeginMutation, At, Gone, journal, marks, locks, facts
  <2>2. pc'[m] = "run"
    BY <1>1, <2>1 DEF Go, LifeInv, LifeType
  <2> QED
    BY <1>1, <2>1, <2>2, GoesOn DEF LeaseOf, LifeInv, LifeType, HolderHasLease, MutatorInv
<1> QED
  BY <1>2, <1>3, <1>4, <1>5 DEF MutatorStep

LEMMA WorldMoves ==
  ASSUME LifeInv, \/ \E c \in Campaigns : DaemonStarts(c) \/ WorkerExits(c)
                  \/ \E p \in Processes : Crash(p) \/ Throws(p)
  PROVE  LifeInv'
<1>1. ASSUME NEW c \in Campaigns, DaemonStarts(c) \/ WorkerExits(c) PROVE LifeInv'
  <2> PICK to \in {"started", "lapsed", "exited"} :
        worker' = [worker EXCEPT ![c] = to] /\ worker[c] \in {"asked", "started", "running"}
    BY <1>1 DEF DaemonStarts, WorkerExits
  <2>1. /\ run' = run /\ lease' = lease /\ start' = start /\ controller' = controller
        /\ ended' = ended /\ terminated' = terminated /\ released' = released /\ pc' = pc /\ saw' = saw
        /\ claim' = claim /\ worker' = [worker EXCEPT ![c] = to]
    BY <1>1 DEF DaemonStarts, WorkerExits, locks, journal, marks
  <2>2. LifeType'
    BY <2>1 DEF LifeInv, LifeType
  <2>3. \A p \in Processes : HolderHasLease(p)'
    BY <2>1 DEF LifeInv, HolderHasLease
  <2>4. \A l \in Launchers : LauncherInv(l)'
    BY <2>1 DEF LifeInv, LauncherInv
  <2>5. \A k \in Controllers : ControllerInv(k)'
    BY <2>1 DEF LifeInv, ControllerInv
  <2>6. \A x \in Cancellers : CancellerInv(x)'
    <3> SUFFICES ASSUME NEW x \in Cancellers PROVE CancellerInv(x)'
      OBVIOUS
    <3>1. CampaignOf[x] \in Campaigns /\ CancellerInv(x)
      BY Roles DEF LifeInv
    <3>2. Settled(CampaignOf[x]) => Settled(CampaignOf[x])'
      BY <2>1, <3>1 DEF Settled, LifeInv, LifeType
    <3> QED
      BY <2>1, <3>2, CancellerStands DEF Gone
  <2>7. \A m \in Mutators : MutatorInv(m)'
    BY <2>1 DEF LifeInv, MutatorInv
  <2>8. \A d \in Campaigns : CampaignInv(d)'
    BY <2>1 DEF LifeInv, LifeType, CampaignInv
  <2> QED
    BY <2>2, <2>3, <2>4, <2>5, <2>6, <2>7, <2>8 DEF LifeInv
<1>2. ASSUME NEW p \in Processes, Crash(p) PROVE LifeInv'
  <2>1. /\ UNCHANGED facts /\ ~Gone(p) /\ pc[p] # "unborn" /\ Go(p, "dead") /\ saw' = saw
        /\ LeaseOf(p) /\ run' = run
    BY <1>2 DEF Crash, Active, Gone, journal, marks, locks, facts, LeaseOf
  <2> QED
    BY <2>1, BacksOut DEF LifeInv, LifeType
<1>3. ASSUME NEW p \in Processes, Throws(p) PROVE LifeInv'
  <2>1. UNCHANGED facts /\ ~Gone(p) /\ pc[p] # "unborn" /\ GiveUp(p)
    BY <1>3 DEF Throws, Active, Gone, journal, marks, facts
  <2> QED
    BY <2>1, GivesUp
<1> QED
  BY <1>1, <1>2, <1>3

LEMMA Begins == Init => LifeInv
<1> SUFFICES ASSUME Init PROVE LifeInv
  OBVIOUS
<1>1. PICK cast \in Casts :
        pc = [p \in Processes |-> CASE p \in Controllers -> "unborn"
                                     [] p \in cast.who -> "idle"
                                     [] OTHER -> "done"]
  BY DEF Init
<1>2. /\ pc \in [Processes -> Places]
      /\ \A p \in Processes : IF p \in Controllers THEN pc[p] = "unborn" ELSE pc[p] \in {"idle", "done"}
  <2> DEFINE place(p) == CASE p \in Controllers -> "unborn" [] p \in cast.who -> "idle" [] OTHER -> "done"
  <2>1. ASSUME NEW p \in Processes
        PROVE  IF p \in Controllers THEN place(p) = "unborn" ELSE place(p) \in {"idle", "done"}
    <3>1. CASE p \in Controllers
      <4>1. p \notin cast.who
        BY <3>1, LifecycleAssumption
      <4> QED
        BY <3>1, <4>1
    <3>2. CASE p \notin Controllers
      BY <3>2
    <3> QED
      BY <3>1, <3>2
  <2> QED
    BY <1>1, <2>1
<1>3. Nothing \in Seen /\ Nothing.controller = None
  BY DEF Nothing, Seen
<1>4. LifeType /\ \A x \in Cancellers : saw[x].controller = None
  BY <1>2, <1>3 DEF Init, LifeType
<1> QED
  BY <1>2, <1>4, Roles DEF Init, LifeInv, HolderHasLease, LauncherInv, ControllerInv, CancellerInv,
     MutatorInv, CampaignInv

LEMMA Inductive == LifeInv /\ [Next]_vars => LifeInv'
<1> SUFFICES ASSUME LifeInv, [Next]_vars PROVE LifeInv'
  OBVIOUS
<1>1. ASSUME NEW l \in Launchers, LauncherStep(l) PROVE LifeInv'
  <2>1. l \in Processes /\ l \notin Controllers /\ l \notin Cancellers /\ l \notin Mutators
    BY Roles
  <2>2. CASE Observe(l) \/ ReleaseLeases(l) \/ CheckRelease(l) \/ OpenGate(l)
    BY <2>2, LauncherWalks
  <2>3. CASE AcquireRun(l)
    BY <2>1, <2>3, TakesRun
  <2>4. CASE TakeLease(l, "elect")
    BY <2>1, <2>4, TakesLease
  <2>5. CASE Elect(l, "start")
    BY <2>1, <2>5, GetsElected
  <2>6. CASE CommitStart(l) \/ PublishClaim(l) \/ Spawn(l) \/ BindController(l) \/ MarkReleased(l)
    BY <2>6, CommitsStart, PublishesClaim, SpawnsChild, BindsController, MarksReleased
  <2> QED
    BY <1>1, <2>2, <2>3, <2>4, <2>5, <2>6 DEF LauncherStep
<1>2. ASSUME NEW k \in Controllers, ControllerStep(k) \/ GateFails(k) PROVE LifeInv'
  <2>1. k \in Processes /\ k \notin Launchers /\ k \notin Cancellers /\ k \notin Mutators
    BY Roles
  <2>2. CASE GateFails(k) \/ Enter(k) \/ Admit(k) \/ ForgoStart(k) \/ StartFails(k) \/ Finish(k)
    BY <2>2, ControllerWalks
  <2>3. CASE AcquireRun(k)
    BY <2>1, <2>3, TakesRun
  <2>4. CASE TakeLease(k, "elect")
    BY <2>1, <2>4, TakesLease
  <2>5. CASE Elect(k, "admit")
    BY <2>1, <2>5, GetsElected
  <2>6. CASE WorkerSteps(k) \/ EndSession(k) \/ Terminate(k) \/ ClearClaim(k)
    BY <2>6, ControllerWorks
  <2> QED
    BY <1>2, <2>2, <2>3, <2>4, <2>5, <2>6 DEF ControllerStep, WorkerSteps
<1>3. ASSUME NEW x \in Cancellers, CancelStep(x) PROVE LifeInv'
  <2>1. x \in Processes /\ x \notin Launchers /\ x \notin Controllers /\ x \notin Mutators
    BY Roles
  <2>2. CASE BeginCancel(x) \/ RereadBinding(x) \/ RereadSettled(x)
    BY <2>2, CancellerReads
  <2>3. CASE PublishIntent(x) \/ JudgeRunLock(x) \/ ReclaimRunLock(x) \/ RestoreRunLock(x) \/ Finish(x)
    BY <2>3, CancellerWalks
  <2>4. CASE SettleController(x) \/ SettleLauncher(x)
    BY <2>4, CancellerSettles
  <2>5. CASE AcquireRun(x)
    BY <2>1, <2>5, TakesRun
  <2>6. CASE TakeLease(x, "elect")
    BY <2>1, <2>6, TakesLease
  <2>7. CASE Elect(x, "workers")
    BY <2>1, <2>7, GetsElected
  <2>8. CASE SettleWorkers(x) \/ CancelEnd(x) \/ CancelTerminates(x) \/ ClearClaim(x)
    BY <2>8, CancellerWorks
  <2>9. CASE Unsettleable(x)
    BY <2>9, CannotSettle
  <2> QED
    BY <1>3, <2>2, <2>3, <2>4, <2>5, <2>6, <2>7, <2>8, <2>9 DEF CancelStep
<1>4. CASE UNCHANGED vars
  <2>1. /\ run' = run /\ lease' = lease /\ claim' = claim /\ start' = start /\ controller' = controller
        /\ ended' = ended /\ terminated' = terminated /\ released' = released /\ worker' = worker
        /\ pc' = pc /\ saw' = saw
    BY <1>4 DEF vars, locks, journal, marks
  <2> QED
    BY <2>1 DEF LifeInv, LifeType, HolderHasLease, LauncherInv, ControllerInv, CancellerInv,
       MutatorInv, CampaignInv, Gone, Settled
<1> QED
  BY <1>1, <1>2, <1>3, <1>4, MutatorMoves, WorldMoves DEF Next

LEMMA LifeInvAlways == Spec => []LifeInv
<1> QED
  BY Begins, Inductive, PTL DEF Spec

\* Whoever spends, mutates or takes over is alone with it, for any number of
\* launches, cancels and deaths (acquireLiveSpendLease, runCampaignCancellation).
THEOREM SpendingIsAloneAlways == Spec => []SpendingIsAlone
<1>1. LifeInv => OneSpender
  BY DEF OneSpender, Acting, At, LifeInv, HolderHasLease, MutatorInv
<1>2. LifeInv => TakeoverIsAlone
  <2> SUFFICES ASSUME LifeInv, NEW x \in Cancellers, pc[x] \in CancelWriter, NEW p \in Processes,
                      MayStartWork(p, CampaignOf[x])
               PROVE  FALSE
    BY DEF TakeoverIsAlone
  <2> DEFINE c == CampaignOf[x]
  <2>1. x \in Processes /\ x \notin Launchers /\ lease = x
    BY Roles DEF CancelWriter, LifeInv, HolderHasLease
  <2>2. controller[c] = None \/ Gone(controller[c])
    BY CancellerFacts DEF CancelWriter, CancellerInv
  <2>3. CASE p \in Controllers
    <3>1. controller[c] = p /\ p # None /\ ~Gone(p)
      BY <2>3, Roles DEF MayStartWork, LifeInv, ControllerInv, Gone
    <3> QED
      BY <2>2, <3>1
  <2>4. CASE p \in Launchers
    BY <2>1, <2>4, Roles DEF MayStartWork, LifeInv, HolderHasLease
  <2>5. CASE p \notin Controllers \cup Launchers
    BY <2>5 DEF MayStartWork
  <2> QED
    BY <2>3, <2>4, <2>5
<1> QED
  BY <1>1, <1>2, LifeInvAlways, PTL DEF SpendingIsAlone

----
(* The claim of the host, step by step. *)

spent == {c \in Campaigns : start[c] # None}
closed == {c \in Campaigns : terminated[c]}
busy == {c \in Campaigns : worker[c] \in {"started", "running"}}

LEMMA HostStays ==
  ASSUME UNCHANGED <<claim, start, terminated, worker>>
  PROVE  UNCHANGED Abstract!ovars
BY DEF Abstract!ovars

\* What the journal has of a worker's start is nothing to the host.
LEMMA HostMinds ==
  ASSUME UNCHANGED <<claim, start, terminated, busy>>
  PROVE  UNCHANGED Abstract!ovars
BY DEF Abstract!ovars, busy

LEMMA LauncherHosts ==
  ASSUME LifeInv, NEW l \in Launchers, LauncherStep(l)
  PROVE  [Abstract!Next]_(Abstract!ovars)
<1> DEFINE c == CampaignOf[l]
<1>1. c \in Campaigns /\ l # None
  BY Roles
<1>2. CASE CommitStart(l)
  <2>1. CASE UNCHANGED journal
    BY <1>2, <2>1, HostStays DEF CommitStart, journal, marks
  <2>2. CASE /\ start[c] = None /\ start' = [start EXCEPT ![c] = l]
             /\ claim' = claim /\ terminated' = terminated /\ worker' = worker
    <3>1. spent' = spent \cup {c} /\ c \notin spent
      BY <1>1, <2>2 DEF spent, LifeInv, LifeType
    <3>2. Abstract!Consume(c)
      BY <2>2, <3>1 DEF Abstract!Consume, spent
    <3> QED
      BY <1>1, <3>2 DEF Abstract!Next
  <2> QED
    BY <1>2, <2>1, <2>2 DEF CommitStart, marks
<1>3. CASE PublishClaim(l)
  <2>1. c \in spent \ closed
    BY <1>1, <1>3 DEF PublishClaim, spent, closed, LifeInv, CampaignInv
  <2>2. Abstract!Own(c)
    BY <1>3, <2>1 DEF PublishClaim, journal, Abstract!Own, spent, closed
  <2> QED
    BY <1>1, <2>2 DEF Abstract!Next
<1>4. CASE ~CommitStart(l) /\ ~PublishClaim(l)
  <2>1. UNCHANGED <<claim, start, terminated, worker>>
    BY <1>4 DEF LauncherStep, Observe, AcquireRun, TakeRun, RecordRun, TakeLease, AcquireLease, RefuseLease, Elect, Elected,
       NotElected, Spawn, BindController, ReleaseLeases, CheckRelease, MarkReleased, OpenGate, journal, marks
  <2> QED
    BY <2>1, HostStays
<1> QED
  BY <1>2, <1>3, <1>4

LEMMA Rests ==
  ASSUME LifeInv, NEW c \in Campaigns, NEW to \in Workings \ {"started", "running"},
         worker' = [worker EXCEPT ![c] = to], UNCHANGED <<claim, start, terminated>>
  PROVE  Abstract!Next
<1>1. busy' = busy \ {c}
  BY DEF busy, LifeInv, LifeType
<1>2. Abstract!Rest(c)
  BY <1>1 DEF Abstract!Rest, busy
<1> QED
  BY <1>2 DEF Abstract!Next

\* A campaign is closed by who proved that nothing of it runs.
LEMMA Closes ==
  ASSUME LifeInv, NEW c \in Campaigns, Settled(c), start[c] # None,
         terminated' = [terminated EXCEPT ![c] = TRUE], UNCHANGED <<claim, start, worker>>
  PROVE  Abstract!Next
<1>1. closed' = closed \cup {c}
  BY DEF closed, LifeInv, LifeType
<1>2. c \in spent \ busy
  BY DEF spent, busy, Settled
<1>3. Abstract!Close(c)
  BY <1>1, <1>2 DEF Abstract!Close, spent, closed, busy
<1> QED
  BY <1>3 DEF Abstract!Next

LEMMA GivesHostUp ==
  ASSUME NEW p \in Controllers \cup Cancellers, ClearClaim(p)
  PROVE  Abstract!Next
<1> DEFINE c == CampaignOf[p]
<1>1. c \in Campaigns
  BY Roles
<1>2. Abstract!GiveUp(c)
  BY <1>1 DEF ClearClaim, Clearable, journal, Abstract!GiveUp
<1> QED
  BY <1>1, <1>2 DEF Abstract!Next

LEMMA ControllerHosts ==
  ASSUME LifeInv, NEW k \in Controllers, ControllerStep(k) \/ GateFails(k)
  PROVE  [Abstract!Next]_(Abstract!ovars)
<1> DEFINE c == CampaignOf[k]
<1>1. /\ k \in Processes /\ c \in Campaigns /\ k # None /\ ControllerInv(k) /\ CampaignInv(c)
  BY Roles DEF LifeInv
<1>2. CASE BindWorker(k) \/ StartWorker(k) \/ StopWorker(k)
  <2>1. PICK to \in {"bound", "asked", "stopped"} : worker' = [worker EXCEPT ![c] = to]
    BY <1>2 DEF BindWorker, StartWorker, StopWorker
  <2>2. UNCHANGED <<claim, start, terminated>>
    BY <1>2 DEF BindWorker, StartWorker, StopWorker, journal, marks
  <2> QED
    BY <1>1, <2>1, <2>2, Rests
<1>3. CASE RecordStart(k)
  <2>1. busy' = busy
    BY <1>1, <1>3 DEF RecordStart, busy, LifeInv, LifeType
  <2> QED
    BY <1>3, <2>1, HostMinds DEF RecordStart, journal, marks
<1>4. CASE Terminate(k)
  <2>1. CASE Terminable(k) /\ terminated' = [terminated EXCEPT ![c] = TRUE]
    <3>1. start[c] # None
      BY <1>1, <2>1 DEF Terminable, CampaignInv
    <3> QED
      BY <1>1, <1>4, <2>1, <3>1, Closes DEF Terminate, Terminable, marks
  <2>2. CASE UNCHANGED terminated
    BY <1>4, <2>2, HostStays DEF Terminate, marks
  <2> QED
    BY <1>4, <2>1, <2>2 DEF Terminate
<1>5. CASE ClearClaim(k)
  BY <1>5, GivesHostUp
<1>6. CASE ~WorkerSteps(k) /\ ~Terminate(k) /\ ~ClearClaim(k)
  <2>1. UNCHANGED <<claim, start, terminated, worker>>
    BY <1>6 DEF ControllerStep, WorkerSteps, GateFails, Enter, AcquireRun, TakeRun, RecordRun, TakeLease,
       AcquireLease, RefuseLease, Elect, Elected, NotElected, Admit, ForgoStart, StartFails, EndSession, Finish, journal, marks
  <2> QED
    BY <2>1, HostStays
<1> QED
  BY <1>2, <1>3, <1>4, <1>5, <1>6 DEF WorkerSteps

LEMMA CancellerHosts ==
  ASSUME LifeInv, NEW x \in Cancellers, CancelStep(x)
  PROVE  [Abstract!Next]_(Abstract!ovars)
<1> DEFINE c == CampaignOf[x]
<1>1. /\ x \in Processes /\ c \in Campaigns /\ CancellerInv(x)
  BY Roles DEF LifeInv
<1>2. CASE SettleWorkers(x) \/ Unsettleable(x)
  <2>1. UNCHANGED <<claim, start, terminated>>
    BY <1>2 DEF SettleWorkers, Unsettleable, journal, marks
  <2>2. CASE worker' = worker
    BY <2>1, <2>2, HostStays
  <2>3. CASE \E to \in {"stopped", "lapsed"} : worker' = [worker EXCEPT ![c] = to]
    BY <1>1, <2>1, <2>3, Rests
  <2>4. worker' = worker \/ <2>3!1
    BY <1>1 , <1>2 DEF SettleWorkers, Unsettleable, LifeInv, LifeType
  <2> QED
    BY <2>2, <2>3, <2>4
<1>3. CASE CancelTerminates(x)
  <2>1. Settled(c) /\ start[c] # None
    BY <1>1, <1>3 DEF CancelTerminates, At, CancellerInv
  <2> QED
    BY <1>1, <1>3, <2>1, Closes DEF CancelTerminates, marks
<1>4. CASE ClearClaim(x)
  BY <1>4, GivesHostUp
<1>5. CASE ~SettleWorkers(x) /\ ~Unsettleable(x) /\ ~CancelTerminates(x) /\ ~ClearClaim(x)
  <2>1. UNCHANGED <<claim, start, terminated, worker>>
    BY <1>5 DEF CancelStep, BeginCancel, Reads, PublishIntent, SettleController, SettleLauncher,
       RereadBinding, RereadSettled, JudgeRunLock, ReclaimRunLock, RestoreRunLock, AcquireRun, TakeRun, RecordRun, TakeLease,
       AcquireLease, RefuseLease, Elect, Elected, NotElected, CancelEnd, Finish, journal, marks
  <2> QED
    BY <2>1, HostStays
<1> QED
  BY <1>2, <1>3, <1>4, <1>5

\* The launch, the session and the cancel, whoever dies in them, use the host
\* as HostOwnership says: one start, work under the claim, a claim given up
\* only when nothing is left (commitStart, publishHostClaim, clearHostClaim).
THEOREM OwnershipImplemented == Spec => ImplementsOwnership
<1>1. Init => Abstract!Init
  BY DEF Init, Abstract!Init
<1>2. LifeInv /\ [Next]_vars => [Abstract!Next]_(Abstract!ovars)
  <2> SUFFICES ASSUME LifeInv, [Next]_vars PROVE [Abstract!Next]_(Abstract!ovars)
    OBVIOUS
  <2>1. ASSUME NEW m \in Mutators, MutatorStep(m) PROVE [Abstract!Next]_(Abstract!ovars)
    <3>1. UNCHANGED <<claim, start, terminated, worker>>
      BY <2>1 DEF MutatorStep, BeginMutation, AcquireRun, TakeRun, RecordRun, TakeLease, AcquireLease, RefuseLease, EndMutation,
         journal, marks
    <3> QED
      BY <3>1, HostStays
  <2>2. ASSUME NEW c \in Campaigns, WorkerExits(c) PROVE Abstract!Next
    <3>1. PICK to \in {"lapsed", "exited"} : worker' = [worker EXCEPT ![c] = to]
      BY <2>2 DEF WorkerExits
    <3>2. UNCHANGED <<claim, start, terminated>>
      BY <2>2 DEF WorkerExits, journal, marks
    <3> QED
      BY <3>1, <3>2, Rests
  <2>5. ASSUME NEW c \in Campaigns, DaemonStarts(c) PROVE Abstract!Next
    <3>1. busy' = busy \cup {c}
      BY <2>5 DEF DaemonStarts, busy, LifeInv, LifeType
    <3>2. claim = c /\ c \notin closed
      BY <2>5 DEF DaemonStarts, LifeInv, CampaignInv, closed
    <3>3. Abstract!Work(c)
      BY <2>5, <3>1, <3>2 DEF DaemonStarts, journal, marks, Abstract!Work, busy, closed
    <3> QED
      BY <3>3 DEF Abstract!Next
  <2>3. ASSUME NEW p \in Processes, Crash(p) \/ Throws(p) PROVE [Abstract!Next]_(Abstract!ovars)
    <3>1. UNCHANGED <<claim, start, terminated, worker>>
      BY <2>3 DEF Crash, Throws, journal, marks
    <3> QED
      BY <3>1, HostStays
  <2>4. CASE UNCHANGED vars
    BY <2>4, HostStays DEF vars, journal, marks
  <2> QED
    BY <2>1, <2>2, <2>3, <2>4, <2>5, LauncherHosts, ControllerHosts, CancellerHosts DEF Next
<1> QED
  BY <1>1, <1>2, LifeInvAlways, PTL DEF Spec, ImplementsOwnership, Abstract!Spec
====
