---- MODULE Compilation ----
(***************************************************************************)
(* What a registration compiles (campaign/registration.ts,                 *)
(* resource-policy.ts, comparison-input.ts) out of a suite and the intake, *)
(* the strict schema that the experiment passes (contracts/campaign/       *)
(* experiment.ts), the check of the same files that is run beforehand      *)
(* (arm-suite-check.ts), and the credential authority that a later start   *)
(* holds against the registry of its day.                                  *)
(*                                                                         *)
(* An input is a record of what is declared.  Its arms are those of        *)
(* arms/*.yaml, and ymlArms those of arms/*.yml, which the check reads and *)
(* a registration does not.  Generated ids are tuples:                     *)
(* their grammar makes the strings as distinct.  A cell, a slot and a      *)
(* reserve carry the place they were compiled for, so that two of one id   *)
(* are two.                                                                *)
(***************************************************************************)
EXTENDS Integers, Sequences, FiniteSets

CONSTANTS
  Inputs,   \* what is declared, and found at the refs
  Later,    \* the registries that a start may find
  Unset

VARIABLES
  input,
  planned,  \* the experiment, or why there is none
  registry, \* credentials.yaml at a later start
  started   \* whether that start went ahead

compVars == <<input, planned, registry, started>>

Overhead == 900  \* seconds
GlobalPool == "global"

MinOf(S) == CHOOSE x \in S : \A y \in S : x <= y
MaxOf(S) == CHOOSE x \in S : \A y \in S : y <= x
OneEach(S) == \A x, y \in S : x.id = y.id => x = y
Elements(s) == {s[j] : j \in DOMAIN s}

\* What the documents' schemas let through: counts and times are natural numbers, an
\* arm's agent is one that was loaded.
ASSUME CompilationAssumption ==
  \A i \in Inputs :
    /\ i.reserve \in Nat /\ i.maxTime \in Nat
    /\ i.comparisons \in Seq(Elements(i.comparisons)) /\ i.pairs \in Seq(Elements(i.pairs))
    /\ \A c \in Elements(i.comparisons) :
         /\ IsFiniteSet(Elements(c.arms)) /\ c.n \in Nat
         /\ \A s \in DOMAIN c.cells : c.cells[s] \in Nat
    /\ \A a \in DOMAIN i.arms : i.arms[a].agent \in DOMAIN i.agents
    /\ \A a \in DOMAIN i.ymlArms : i.ymlArms[a].agent \in DOMAIN i.agents
    /\ \A a \in DOMAIN i.agents : i.agents[a].maxTime \in Nat \cup {Unset}
    /\ \A s \in DOMAIN i.scenarios :
         i.scenarios[s].maxTime \in Nat \cup {Unset} /\ i.scenarios[s].assessment \in Nat

----
(* The suite. *)

\* A comparison of a template, once for each pair: the arms p1_baseline, ...
Materialized(i) ==
  IF i.pairs = <<>> THEN i.comparisons
  ELSE [x \in 1 .. Len(i.pairs) * Len(i.comparisons) |->
         LET c == i.comparisons[1 + ((x - 1) % Len(i.comparisons))]
             p == i.pairs[1 + ((x - 1) \div Len(i.comparisons))]
         IN  [arms |-> <<p.baseline, p.candidate>>, tier |-> c.tier, scenarios |-> c.scenarios,
              n |-> c.n, cells |-> c.cells]]

TemplateFits(i) ==
  i.pairs # <<>> =>
    \A c \in Elements(i.comparisons) : c.arms = <<"baseline", "candidate">>

\* expandExperimentSelector: the names as they stand, or all of a tier.
Selected(i, c) ==
  IF c.tier = Unset THEN c.scenarios
  ELSE LET S == {s \in DOMAIN i.scenarios : i.scenarios[s].tier = c.tier}
       IN  CHOOSE q \in [1 .. Cardinality(S) -> S] : Elements(q) = S

Comparisons(i) == Materialized(i)
Referenced(i) == UNION {Elements(c.arms) : c \in Elements(Comparisons(i))}
Active(i) == {i.arms[a].credential : a \in Referenced(i)} \cup {i.grader.credential}

----
(* The policy of the pools. *)

PoolOf(reg, n) == reg[n].pool
ActivePools(reg, names) == {PoolOf(reg, n) : n \in names \cap DOMAIN reg}
Aliases(reg, p) == {n \in DOMAIN reg : PoolOf(reg, n) = p}
Limits(reg, p) == {reg[n].limit : n \in Aliases(reg, p)} \ {Unset}
CapacityOf(reg, p) == MinOf(Limits(reg, p))
SpacingOf(reg, p) == MaxOf({0} \cup {reg[n].spacing : n \in Aliases(reg, p)})

KeyAllowance(reg, n) ==
  LET k == IF reg[n].pooled THEN Len(reg[n].keys) ELSE 1
  IN  (CapacityOf(reg, PoolOf(reg, n)) + k - 1) \div k

\* A key has one allowance, whichever alias grants it.
AllowancesAgree(reg, p) ==
  \A m, n \in Aliases(reg, p) :
    Elements(reg[m].keys) \cap Elements(reg[n].keys) # {} =>
      KeyAllowance(reg, m) = KeyAllowance(reg, n)

PolicyFits(reg, names) ==
  /\ names \subseteq DOMAIN reg
  /\ \A p \in ActivePools(reg, names) :
       p # GlobalPool /\ Limits(reg, p) # {} /\ AllowancesAgree(reg, p)

\* compileResourcePolicy.
Policy(reg, names) ==
  [p \in ActivePools(reg, names) |->
    [capacity |-> CapacityOf(reg, p), spacing |-> SpacingOf(reg, p)]]

\* blockDemandVector and assertFeasible.
Demand(i, arms, p) ==
  Cardinality({a \in arms : PoolOf(i.credentials, i.arms[a].credential) = p})
  + IF PoolOf(i.credentials, i.grader.credential) = p THEN Cardinality(arms) ELSE 0

Feasible(i, arms) ==
  /\ Cardinality(arms) <= i.cap
  /\ \A p \in ActivePools(i.credentials, Active(i)) :
       Demand(i, arms, p) <= CapacityOf(i.credentials, p)

----
(* The authority. *)

\* Mutant of Authority: only the credentials that are named.
AuthorityOfNamed(reg, names) == [n \in names |-> reg[n]]

\* credentialAuthorityProjection: every alias of an active pool, as it stands.
Authority(reg, names) ==
  [n \in {m \in DOMAIN reg : PoolOf(reg, m) \in ActivePools(reg, names)} |-> reg[n]]

----
(* The cells. *)

Admits(allowed, x) == allowed = Unset \/ x \in allowed

\* experimentCellRejection, of one arm.
ArmFits(i, s, a) ==
  LET arm == i.arms[a]
      cred == i.credentials[arm.credential]
      agent == i.agents[arm.agent]
      scenario == i.scenarios[s] IN
  /\ arm.os \in {Unset, i.os}
  /\ ~ (scenario.powers /\ arm.superpowers = "none")
  /\ agent.family \in cred.harnesses
  /\ Admits(agent.os, i.os) /\ Admits(cred.os, i.os) /\ Admits(scenario.os, i.os)
  /\ Admits(scenario.agents, arm.agent)
  /\ IF arm.superpowers = "none" THEN agent.none ELSE agent.ref

Eligible(i, s, arms) ==
  /\ s \in DOMAIN i.scenarios
  /\ \A a \in arms : ArmFits(i, s, a)
  /\ Feasible(i, arms)

\* The places where a scenario is declared: a comparison and a position.
Places(i) ==
  UNION {{<<k, j>> : j \in DOMAIN Selected(i, Comparisons(i)[k])} : k \in DOMAIN Comparisons(i)}
ScenarioAt(i, at) == Selected(i, Comparisons(i)[at[1]])[at[2]]
ArmsAt(i, at) == Elements(Comparisons(i)[at[1]].arms)

SizeOf(c, s) == IF s \in DOMAIN c.cells THEN c.cells[s] ELSE c.n

\* role_budgets: the first of the scenario's time, the agent's and ten minutes,
\* the assessment, and the headroom of the rest.
Needed(i, s, a) ==
  LET scenario == i.scenarios[s]
      ofAgent == i.agents[i.arms[a].agent].maxTime
      subject == IF scenario.maxTime # Unset THEN scenario.maxTime
                 ELSE IF ofAgent # Unset THEN ofAgent ELSE 600
  IN  subject + scenario.assessment + Overhead

Cells(i) ==
  { [at |-> at, id |-> <<at[1], ScenarioAt(i, at)>>, arms |-> ArmsAt(i, at),
     n |-> SizeOf(Comparisons(i)[at[1]], ScenarioAt(i, at))] :
      at \in {x \in Places(i) : Eligible(i, ScenarioAt(i, x), ArmsAt(i, x))} }
Excluded(i) ==
  { [at |-> at, id |-> <<at[1], ScenarioAt(i, at)>>] :
      at \in {x \in Places(i) : ~Eligible(i, ScenarioAt(i, x), ArmsAt(i, x))} }

\* A slot is an arm's sample; those of a replicate are a block.
SlotOf(c, a, r) ==
  [cell |-> c, arm |-> a, replicate |-> r, id |-> <<c.id, a, "r", r>>, block |-> <<c.id, "b", r>>]
CellSlots(c) == {SlotOf(c, x[1], x[2]) : x \in c.arms \X (1 .. c.n)}
AllSlots(i) == UNION {CellSlots(c) : c \in Cells(i)}
ReservesFor(i, c) == {[cell |-> c, id |-> <<c.id, "x", r>>] : r \in 1 .. i.reserve}
ReservesOf(i) == UNION {ReservesFor(i, c) : c \in Cells(i)}

Experiment(i) ==
  [cells |-> Cells(i), excluded |-> Excluded(i), slots |-> AllSlots(i),
   reserves |-> ReservesOf(i), surface |-> Referenced(i),
   policy |-> Policy(i.credentials, Active(i)),
   authority |-> Authority(i.credentials, Active(i)), active |-> Active(i)]

----
(* What is refused, before the schema. *)

ArmResolves(i, a) ==
  /\ a \in DOMAIN i.arms
  /\ (i.arms[a].superpowers = "none") <=> (i.arms[a].ref = Unset)
  /\ i.arms[a].effort \in i.agents[i.arms[a].agent].efforts \cup {Unset}

GraderFits(i) ==
  /\ i.grader.credential \in DOMAIN i.credentials
  /\ i.grader.model = i.credentials[i.grader.credential].model

\* prepareRegistration, from top to bottom.
Refusal(i) ==
  IF ~TemplateFits(i) THEN "template"
  ELSE IF i.os # "linux" \/ i.cap # i.declaredCap THEN "host"
  ELSE IF ~GraderFits(i) THEN "grader"
  ELSE IF \E a \in Referenced(i) : ~ArmResolves(i, a) THEN "arm"
  ELSE IF ~PolicyFits(i.credentials, Active(i)) THEN "policy"
  ELSE IF \E c \in Cells(i) : \E a \in c.arms : Needed(i, c.id[2], a) > i.maxTime THEN "bound"
  ELSE IF Cells(i) = {} THEN "empty"
  ELSE "none"

----
(* ExperimentSchema, the rules between its fields. *)

MembersOf(p, b) == {s \in p.slots : s.block = b}

InventoryFits(i, p) ==
  \A k \in DOMAIN Comparisons(i) :
    LET names == Selected(i, Comparisons(i)[k]) IN
    /\ \A j, l \in DOMAIN names : names[j] = names[l] => j = l
    /\ \A s \in Elements(names) :
         (\E c \in p.cells : c.id = <<k, s>>) <=> ~(\E x \in p.excluded : x.id = <<k, s>>)
    /\ \A c \in p.cells :
         c.id[1] = k =>
           /\ c.id[2] \in Elements(names) /\ c.arms = Elements(Comparisons(i)[k].arms)
           /\ c.n = (IF c.id[2] \in DOMAIN Comparisons(i)[k].cells
                     THEN Comparisons(i)[k].cells[c.id[2]] ELSE Comparisons(i)[k].n)

BlocksFit(p) ==
  \A s \in p.slots :
    LET members == MembersOf(p, s.block) IN
    /\ s.arm \in s.cell.arms /\ s.replicate <= s.cell.n
    /\ {m.arm : m \in members} = s.cell.arms
    /\ Cardinality(members) = Cardinality(s.cell.arms)
    /\ \A m \in members : m.cell.id = s.cell.id /\ m.replicate = s.replicate

CountsFit(i, p) ==
  \A c \in p.cells :
    /\ \A a \in c.arms :
         Cardinality({s \in p.slots : s.cell.id = c.id /\ s.arm = a}) = c.n /\ a \in p.surface
    /\ Cardinality({r \in p.reserves : r.cell.id = c.id}) = i.reserve

SchemaPasses(i, p) ==
  /\ OneEach(p.cells) /\ OneEach(p.slots) /\ OneEach(p.reserves)
  /\ InventoryFits(i, p) /\ BlocksFit(p) /\ CountsFit(i, p)
  /\ {r.id : r \in p.reserves} \cap {s.block : s \in p.slots} = {}

----
(* checkArmSuiteFiles, run over the same files beforehand. *)

ArmChecks(i, arm) ==
  /\ arm.credential \in DOMAIN i.credentials
  /\ i.agents[arm.agent].family \in i.credentials[arm.credential].harnesses
  /\ arm.effort \in i.agents[arm.agent].efforts \cup {Unset}

\* yamlFiles: the arms of both suffixes, each checked and each known to the suites.
CheckPasses(i) ==
  /\ \A a \in DOMAIN i.arms : ArmChecks(i, i.arms[a])
  /\ \A a \in DOMAIN i.ymlArms : ArmChecks(i, i.ymlArms[a])
  /\ GraderFits(i)
  /\ \A c \in Elements(i.comparisons) :
       Elements(c.arms) \subseteq DOMAIN i.arms \cup DOMAIN i.ymlArms

----
(* The behaviour: a registration, and a start some day. *)

CompInit ==
  /\ input \in Inputs
  /\ planned = Unset /\ registry = Unset /\ started = "no"

PlanFor(i) ==
  IF Refusal(i) # "none" THEN [refused |-> Refusal(i)]
  ELSE IF ~SchemaPasses(i, Experiment(i)) THEN [refused |-> "schema"]
  ELSE [refused |-> "none", experiment |-> Experiment(i)]

Compile ==
  /\ planned = Unset
  /\ planned' = PlanFor(input)
  /\ UNCHANGED <<input, registry, started>>

\* assertCredentialAuthority: a credential that went missing is an error as well.
SameAuthority(reg, frozen) ==
  frozen.active \subseteq DOMAIN reg /\ Authority(reg, frozen.active) = frozen.authority

StartLater ==
  /\ planned # Unset /\ planned.refused = "none" /\ started = "no"
  /\ registry' \in Later \cup {input.credentials}
  /\ started' = IF SameAuthority(registry', planned.experiment) THEN "started" ELSE "refused"
  /\ UNCHANGED <<input, planned>>

CompNext == Compile \/ StartLater

CompSpec == CompInit /\ [][CompNext]_compVars

----
(* Properties. *)

Compiled == planned # Unset /\ planned.refused = "none"
Repeats(i) ==
  \E c \in Elements(Comparisons(i)) :
    \E j, l \in DOMAIN Selected(i, c) : j # l /\ Selected(i, c)[j] = Selected(i, c)[l]

\* The compiler and the schema say the same: a scenario named twice in a selector
\* is all that the compiler lets through and the schema refuses.
CompilerAgreesWithSchema ==
  planned # Unset => (planned.refused = "schema" => Repeats(input))

\* What was compiled can be run: every block has its places when nothing else runs,
\* in the frozen policy and under the frozen cap, and every arm its time.
PlannedIsRunnable ==
  Compiled =>
    \A c \in planned.experiment.cells :
      /\ Cardinality(c.arms) <= input.declaredCap
      /\ \A p \in DOMAIN planned.experiment.policy :
           Demand(input, c.arms, p) <= planned.experiment.policy[p].capacity
      /\ \A a \in c.arms : Needed(input, c.id[2], a) <= input.maxTime

\* "Refuse a changed public credential authority before a new attempt starts": a
\* start that goes ahead finds the policy, and the allowance of every key, that
\* were frozen.
StartsAreAsFrozen ==
  started = "started" =>
    LET names == planned.experiment.active IN
    /\ Policy(registry, names) = planned.experiment.policy
    /\ \A n \in DOMAIN planned.experiment.authority :
         KeyAllowance(registry, n) = KeyAllowance(input.credentials, n)

\* "Mirroring registration's refusal so it surfaces before a paid register"
\* (arm-suite-check.ts 108-109): files that pass the check are not refused for the
\* grader, and for an arm only when the suite names one that a .yml file alone declares,
\* which the check accepts and for which it is always refused.
OnlyInYml(i, a) == a \in DOMAIN i.ymlArms \ DOMAIN i.arms
CheckedIsNotRefused ==
  planned # Unset /\ input.pairs = <<>> /\ CheckPasses(input)
    /\ (\A a \in DOMAIN input.arms : (input.arms[a].superpowers = "none") <=> (input.arms[a].ref = Unset))
  => /\ planned.refused # "grader"
     /\ planned.refused = "arm" => \E a \in Referenced(input) : OnlyInYml(input, a)
     /\ (\E a \in Referenced(input) : OnlyInYml(input, a)) => planned.refused # "none"

\* Invariant: what is compiled passes its schema, fits its policy and its time, and is what
\* a later start goes by; what was checked is refused for an arm only over the suffix of its
\* file (registration.ts 414, 844, 975, 1240, 311; ExperimentSchema; assertFeasible).
PlanIsExact ==
  CompilerAgreesWithSchema /\ PlannedIsRunnable /\ StartsAreAsFrozen /\ CheckedIsNotRefused
====
