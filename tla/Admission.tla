---- MODULE Admission ----
(***************************************************************************)
(* Admission of blocks by the campaign controller: the resource policy     *)
(* compiled from the registry (campaign/resource-policy.ts), the choice of *)
(* a key (campaign/key-select.ts), the order of the candidates             *)
(* (campaign/admission.ts), and the dispatch loop that reserves, grants    *)
(* and launches with them (campaign/controller.ts).                        *)
(*                                                                         *)
(* Every attempt holds a place in the pool of its arm, in the pool of the  *)
(* grader and in the global one until its death is in the journal.         *)
(* Credentials of one pool are aliases: they share its keys.               *)
(*                                                                         *)
(* Left out: the breach and the telemetry that halt admission (Contention),*)
(* what a worker does (Controller).  The blocks are numbered in the order  *)
(* of admission: longest first, then compareAdmissionOrder.                *)
(***************************************************************************)
EXTENDS Integers, Sequences, FiniteSets

CONSTANTS
  Unset,
  Registries,  \* the credentials by name: pool, keys, pooled, limit, spacing
  Grader,      \* the credential of the grader
  NumBlocks,
  Attempts,    \* of each block, its attempts in order
  ArmOf,       \* of each attempt, the credential of its arm
  GlobalCap,
  Cooldown,    \* of a rate limit
  MaxTime      \* bound: the last instant

\* A registered credential.  The keys of a pool of keys differ; without one there
\* is a single key or, for a native authentication, none.
Credential(cred) ==
  /\ cred.limit \in Nat \ {0} /\ cred.spacing \in Nat /\ cred.pooled \in BOOLEAN
  /\ cred.keys \in Seq({cred.keys[i] : i \in DOMAIN cred.keys})
  /\ \A i, j \in DOMAIN cred.keys : i # j => cred.keys[i] # cred.keys[j]
  /\ \A i \in DOMAIN cred.keys : cred.keys[i] \notin {"native", "wait"}
  /\ IF cred.pooled THEN Len(cred.keys) > 0 ELSE Len(cred.keys) <= 1

\* A registry is finite and has the credentials in use.  An attempt is of one
\* block, once.
ASSUME AdmissionAssumption ==
  /\ \A r \in Registries :
       /\ IsFiniteSet(DOMAIN r) /\ Grader \in DOMAIN r
       /\ \A n \in DOMAIN r : Credential(r[n])
       /\ \A b \in 1 .. NumBlocks : \A i \in DOMAIN Attempts[b] : ArmOf[Attempts[b][i]] \in DOMAIN r
  /\ NumBlocks \in Nat
  /\ \A b \in 1 .. NumBlocks : Attempts[b] \in Seq({Attempts[b][i] : i \in DOMAIN Attempts[b]})
  /\ \A b, c \in 1 .. NumBlocks : \A i \in DOMAIN Attempts[b], j \in DOMAIN Attempts[c] :
       Attempts[b][i] = Attempts[c][j] => b = c /\ i = j
  /\ GlobalCap \in Nat /\ Cooldown \in Nat /\ MaxTime \in Nat
  /\ Unset \notin Nat

VARIABLES
  registry,
  now,
  phase,      \* of each attempt
  startedAt,
  grants,     \* keyGrants: of each place of an attempt, the key it holds
  latch,      \* latches: until when a pool is closed
  launching,  \* the block whose attempts are being started
  overrun     \* the controller threw: no key for an admitted attempt

admissionVars == <<registry, now, phase, startedAt, grants, latch, launching, overrun>>

Blocks == 1 .. NumBlocks
Members(b) == {Attempts[b][i] : i \in DOMAIN Attempts[b]}
All == UNION {Members(b) : b \in Blocks}

\* An attempt has two places: its arm's and the grader's.
PlacesOf(S) == S \X {1, 2}
Least(S) == CHOOSE x \in S : \A y \in S : x <= y
Greatest(S) == CHOOSE x \in S : \A y \in S : y <= x

----
(* compileResourcePolicy and assertFeasible. *)

KeysOf(cred) == {cred.keys[i] : i \in DOMAIN cred.keys}
PoolsOf(r) == {r[n].pool : n \in DOMAIN r}
Aliases(r, p) == {n \in DOMAIN r : r[n].pool = p}
CapacityOf(r, p) == Least({r[n].limit : n \in Aliases(r, p)})
SpacingOf(r, p) == Greatest({0} \cup {r[n].spacing : n \in Aliases(r, p)})

\* keyWaitThreshold: the ceiling of the capacity over the inventory.
KeyWaitThreshold(cred, capacity) ==
  LET n == IF cred.pooled THEN Len(cred.keys) ELSE 1
  IN  (capacity + n - 1) \div n

\* Two aliases that share a key give it the same allowance.
Agree(r, p) ==
  \A m, n \in Aliases(r, p) :
    KeysOf(r[m]) \cap KeysOf(r[n]) # {} =>
      KeyWaitThreshold(r[m], CapacityOf(r, p)) = KeyWaitThreshold(r[n], CapacityOf(r, p))

\* blockDemandVector: a place for the arm and one for the grader.
CredOf(r, s) == r[IF s[2] = 1 THEN ArmOf[s[1]] ELSE Grader]
InPool(r, S, p) == {s \in PlacesOf(S) : CredOf(r, s).pool = p}
Demand(r, S, p) == Cardinality(InPool(r, S, p))

Feasible(r) ==
  \A b \in Blocks :
    /\ Cardinality(Members(b)) <= GlobalCap
    /\ \A p \in PoolsOf(r) : Demand(r, Members(b), p) <= CapacityOf(r, p)

Registered(r) == Feasible(r) /\ \A p \in PoolsOf(r) : Agree(r, p)

AdmissionInit ==
  /\ registry \in {r \in Registries : Registered(r)}
  /\ now = 0
  /\ phase = [a \in All |-> "planned"]
  /\ startedAt = [a \in All |-> Unset]
  /\ grants = [s \in PlacesOf(All) |-> Unset]
  /\ latch = [p \in PoolsOf(registry) |-> 0]
  /\ launching = Unset /\ overrun = FALSE

----
(* The keys. *)

Pools == PoolsOf(registry)
Capacity(p) == CapacityOf(registry, p)
Live == {a \in All : phase[a] \in {"prepared", "started"}}

\* loadsFor: the grants of what is not proved dead, by key of a pool.
Load(p, k) == Cardinality({s \in InPool(registry, Live, p) : grants[s] = k})

\* selectKey: the least loaded below the allowance, the first of them in order;
\* a single key is granted whatever its load.
Choices(cred, loads) ==
  {i \in DOMAIN cred.keys :
     cred.pooled => loads[i] < KeyWaitThreshold(cred, Capacity(cred.pool))}

SelectKey(cred, loads) ==
  IF cred.keys = <<>> THEN "native"
  ELSE IF Choices(cred, loads) = {} THEN "wait"
  ELSE cred.keys[CHOOSE i \in Choices(cred, loads) :
         \A j \in Choices(cred, loads) :
           loads[i] < loads[j] \/ (loads[i] = loads[j] /\ i <= j)]

\* The places of a block one after the other, the arm's key before the grader's.
Turns(b) == 1 .. 2 * Len(Attempts[b])
PlaceOf(b, t) == <<Attempts[b][(t + 1) \div 2], IF t % 2 = 1 THEN 1 ELSE 2>>
CredAt(b, t) == CredOf(registry, PlaceOf(b, t))

\* Mutant of Taken: a grant of the block being activated is not counted.
TakenLater(b, key, t, p, k) == 0

\* A grant counts for the next ones of the same block.
Taken(b, key, t, p, k) ==
  Cardinality({u \in 1 .. t - 1 : CredAt(b, u).pool = p /\ key[u] = k})

\* resolveKeyForSpawn.
ResolveKey(b, key, t) ==
  LET cred == CredAt(b, t)
  IN  SelectKey(cred, [i \in DOMAIN cred.keys |->
        Load(cred.pool, cred.keys[i]) + Taken(b, key, t, cred.pool, cred.keys[i])])

Granted(b) ==
  LET after[t \in 0 .. 2 * Len(Attempts[b])] ==
        IF t = 0 THEN <<>>
        ELSE LET before == after[t - 1] IN Append(before, ResolveKey(b, before, t))
  IN  after[2 * Len(Attempts[b])]

----
(* The dispatch loop. *)

\* nextStart: the latch of a pool, and its spacing after its last start.
PoolsFor(a) == {CredOf(registry, s).pool : s \in PlacesOf({a})}
StartsOf(p) == {startedAt[a] : a \in {x \in All : startedAt[x] # Unset /\ p \in PoolsFor(x)}}
NextStart(p) ==
  Greatest({latch[p]} \cup {t + SpacingOf(registry, p) : t \in StartsOf(p)})

FitsNow(b) ==
  /\ Cardinality(Live) + Cardinality(Members(b)) <= GlobalCap
  /\ \A p \in Pools :
       Demand(registry, Members(b), p) > 0 =>
         /\ Demand(registry, Live, p) + Demand(registry, Members(b), p) <= Capacity(p)
         /\ NextStart(p) <= now

Candidates == {b \in Blocks : \A a \in Members(b) : phase[a] = "planned"}
Eligible == {b \in Candidates : FitsNow(b)}

\* The first eligible candidate; those before it that do not fit are passed over.
Activate ==
  /\ launching = Unset /\ ~overrun
  /\ Eligible # {}
  /\ LET b == Least(Eligible)
         key == Granted(b)
     IN  IF \E t \in Turns(b) : key[t] = "wait"
         THEN overrun' = TRUE /\ UNCHANGED <<phase, grants, launching>>
         ELSE /\ phase' = [a \in All |-> IF a \in Members(b) THEN "prepared" ELSE phase[a]]
              /\ grants' = [s \in PlacesOf(All) |->
                   IF s[1] \in Members(b)
                   THEN key[CHOOSE t \in Turns(b) : PlaceOf(b, t) = s] ELSE grants[s]]
              /\ launching' = b
              /\ UNCHANGED overrun
  /\ UNCHANGED <<registry, now, startedAt, latch>>

\* The attempt whose turn it is: those before it have started or are dead.
Turn(b) == {i \in DOMAIN Attempts[b] : phase[Attempts[b][i]] = "prepared"}

\* The wait for both spacings, before the start.
MayStart(a) == \A p \in PoolsFor(a) : NextStart(p) <= now

Start ==
  /\ launching # Unset /\ Turn(launching) # {}
  /\ LET a == Attempts[launching][Least(Turn(launching))]
     IN  /\ MayStart(a)
         /\ phase' = [phase EXCEPT ![a] = "started"]
         /\ startedAt' = [startedAt EXCEPT ![a] = now]
  /\ UNCHANGED <<registry, now, grants, latch, launching, overrun>>

Launched ==
  /\ launching # Unset /\ Turn(launching) = {}
  /\ launching' = Unset
  /\ UNCHANGED <<registry, now, phase, startedAt, grants, latch, overrun>>

\* drainEvents: a death is observed and recorded; a rate limit that was sensed
\* closes the pool of the role it was sensed of.
Report(a) ==
  /\ phase[a] = "started"
  /\ phase' = [phase EXCEPT ![a] = "stopped"]
  /\ \/ UNCHANGED latch
     \/ \E p \in PoolsFor(a) : latch' = [latch EXCEPT ![p] = Greatest({@, now + Cooldown})]
  /\ UNCHANGED <<registry, now, startedAt, grants, launching, overrun>>

\* A member of a block that has lost another one is stopped where it is.
StopSibling(a) ==
  /\ phase[a] = "prepared"
  /\ \E b \in Blocks : a \in Members(b) /\ \E x \in Members(b) : phase[x] = "stopped"
  /\ phase' = [phase EXCEPT ![a] = "stopped"]
  /\ UNCHANGED <<registry, now, startedAt, grants, latch, launching, overrun>>

Tick ==
  /\ now < MaxTime
  /\ now' = now + 1
  /\ UNCHANGED <<registry, phase, startedAt, grants, latch, launching, overrun>>

AdmissionNext ==
  \/ Activate \/ Start \/ Launched \/ Tick
  \/ \E a \in All : Report(a) \/ StopSibling(a)

AdmissionSpec == AdmissionInit /\ [][AdmissionNext]_admissionVars

----
(* Properties. *)

\* "Since len(keys) * ceil(cap / len(keys)) >= cap, wait is unreachable under
\* honest admission": however the aliases of a pool share its keys, no pool and
\* no key is held more often than it may be, and an admitted attempt finds a key.
GrantsFit ==
  /\ ~overrun
  /\ \A p \in Pools : Demand(registry, Live, p) <= Capacity(p)
  /\ \A n \in DOMAIN registry : \A k \in KeysOf(registry[n]) :
       Load(registry[n].pool, k) <= KeyWaitThreshold(registry[n], Capacity(registry[n].pool))

\* Two launches of one pool, of arms or of the grader, are never closer than its
\* spacing, whichever blocks they belong to.
LaunchesAreSpaced ==
  \A a, b \in All : a # b /\ startedAt[a] # Unset /\ startedAt[b] # Unset =>
    \A p \in PoolsFor(a) \cap PoolsFor(b) :
      \/ startedAt[b] >= startedAt[a] + SpacingOf(registry, p)
      \/ startedAt[a] >= startedAt[b] + SpacingOf(registry, p)

\* Pools and keys are never overdrawn, and launches are spaced.
AdmissionIsExact == GrantsFit /\ LaunchesAreSpaced
====
