---- MODULE ExecutionStateProofs ----
(***************************************************************************)
(* What the replay policy guarantees for every experiment: any number of   *)
(* primaries, slots, reserves, cells, attempts and containers; and what    *)
(* the report of such a journal says, whatever its attempts left.          *)
(***************************************************************************)
EXTENDS ComparisonReport, TLAPS, FiniteSetTheorems

LEMMA ExcludeType ==
  ASSUME TypeOK, NEW b \in Blocks, NEW cause \in Causes, Exclude(b, cause)
  PROVE  excluded' \in [Blocks -> Causes \cup {None}]
BY DEF TypeOK, Exclude, FirstReason

LEMMA BuryType ==
  ASSUME TypeOK, NEW a \in Attempts, NEW p \in StopProofs,
         NEW c \in Containers \cup {None}, NEW t \in Times, Bury(a, p, c, t)
  PROVE  /\ container' \in [Attempts -> Containers \cup {None}]
         /\ proof' \in [Attempts -> Proofs \cup {None}]
         /\ stoppedAt' \in [Attempts -> Times \cup {None}]
BY ConstantsAssumption DEF TypeOK, Bury

LEMMA TypeInit == Init => TypeOK
<1> SUFFICES ASSUME Init PROVE TypeOK
  OBVIOUS
<1>1. /\ registered \in BOOLEAN /\ terminated \in BOOLEAN
      /\ start \in StartIds \cup {None}
      /\ controller \in Processes \cup {None}
      /\ ended \in Outcomes \cup {None}
      /\ lastAt \in Times
      /\ consumed \subseteq Reserves
  BY ConstantsAssumption DEF Init
<1>2. /\ blockPrimary \in [Blocks -> Primaries \cup {None}]
      /\ selected \in [Primaries -> Blocks \cup {None}]
      /\ exhausted \in [Primaries -> ReplacementCauses \cup {None}]
      /\ excluded \in [Blocks -> Causes \cup {None}]
      /\ receipt \in [Blocks -> BOOLEAN]
      /\ invalidated \in [Blocks -> BOOLEAN]
  BY DEF Init
<1> QED
  BY <1>1, <1>2 DEF Init, TypeOK

LEMMA TypeStep == TypeOK /\ [Next]_vars => TypeOK'
<1> SUFFICES ASSUME TypeOK, [Next]_vars PROVE TypeOK'
  OBVIOUS
<1>1. CASE UNCHANGED vars
  BY <1>1 DEF TypeOK, vars, session, plan, audit, intents, binding, death, evidence
<1>2. ASSUME NEW at \in Times, Registered(at) PROVE TypeOK'
  BY <1>2 DEF TypeOK, Registered, Stamp, plan, audit, intents, binding, death, evidence
<1>3. ASSUME NEW at \in Times, NEW s \in StartIds, Started(s, at) PROVE TypeOK'
  BY <1>3 DEF TypeOK, Started, Stamp, plan, audit, intents, binding, death, evidence
<1>4. ASSUME NEW at \in Times, NEW s \in StartIds, NEW proc \in Processes,
             ControllerBound(s, proc, at)
      PROVE  TypeOK'
  BY <1>4 DEF TypeOK, ControllerBound, Stamp, plan, audit, intents, binding, death, evidence
<1>5. ASSUME NEW at \in Times, NEW p \in Primaries,
             NEW number \in [SlotsOf(p) -> 1..MaxAttempts], BlockActivated(p, number, at)
      PROVE  TypeOK'
  BY <1>5 DEF TypeOK, BlockActivated, Activate, Blocks, Stamp, session, audit, binding,
              death, evidence
<1>6. ASSUME NEW at \in Times, NEW p \in Primaries,
             NEW number \in [SlotsOf(p) -> 1..MaxAttempts],
             NEW r \in Reserves, NEW cause \in ReplacementCauses,
             BlockReplaced(p, r, cause, number, at)
      PROVE  TypeOK'
  <2>1. excluded' \in [Blocks -> Causes \cup {None}]
    BY <1>6, ExcludeType DEF BlockReplaced, CanReplace, TypeOK, Causes
  <2> QED
    BY <1>6, <2>1 DEF TypeOK, BlockReplaced, Activate, Blocks, Consume, Stamp, session,
                      binding, death, evidence
<1>7. ASSUME NEW at \in Times, NEW b \in Blocks, BlockValidated(b, at) PROVE TypeOK'
  BY <1>7 DEF TypeOK, BlockValidated, Stamp, session, plan, intents, binding, death, evidence
<1>8. ASSUME NEW at \in Times, NEW b \in Blocks, NEW cause \in ValidityCauses,
             BlockInvalidated(b, cause, at)
      PROVE  TypeOK'
  <2>1. excluded' \in [Blocks -> Causes \cup {None}]
    BY <1>8, ExcludeType DEF BlockInvalidated, Causes
  <2> QED
    BY <1>8, <2>1 DEF TypeOK, BlockInvalidated, Stamp, session, plan, intents, binding,
                      death, evidence
<1>9. ASSUME NEW at \in Times, NEW p \in Primaries, NEW cause \in ReplacementCauses,
             BlockExhausted(p, cause, at)
      PROVE  TypeOK'
  <2>1. excluded' \in [Blocks -> Causes \cup {None}]
    BY <1>9, ExcludeType DEF BlockExhausted, CanExhaust, TypeOK, Causes
  <2> QED
    BY <1>9, <2>1 DEF TypeOK, BlockExhausted, Stamp, session, intents, binding, death,
                      evidence
<1>10. ASSUME NEW at \in Times, NEW a \in Known, NEW c \in Containers, RuntimeBound(a, c, at)
       PROVE  TypeOK'
  BY <1>10 DEF TypeOK, RuntimeBound, Known, Stamp, session, plan, audit, intents, evidence
<1>11. ASSUME NEW at \in Times, NEW a \in Known, NEW t \in Times, RuntimeStarted(a, t, at)
       PROVE  TypeOK'
  BY <1>11 DEF TypeOK, RuntimeStarted, Known, Stamp, session, plan, audit, intents, death,
               evidence
<1>12. ASSUME NEW at \in Times, NEW a \in Known, NEW o \in Observations,
              NEW cause \in ValidityCauses \cup {None}, NEW r \in StopRecords,
              AttemptObserved(a, o, cause, r.proof, r.container, r.at, at)
       PROVE  TypeOK'
  <2>1. excluded' \in [Blocks -> Causes \cup {None}]
    BY <1>12, ExcludeType DEF AttemptObserved, TypeOK, Causes, Known
  <2>2. a \in Attempts /\ r.proof \in StopProofs /\ r.container \in Containers \cup {None}
        /\ r.at \in Times
    BY DEF Known, StopRecords
  <2> QED
    BY <1>12, <2>1, <2>2, BuryType
       DEF TypeOK, AttemptObserved, Stamp, session, plan, intents, binding
<1>13. ASSUME NEW at \in Times, NEW a \in Known, NEW r \in StopRecords,
              AccountingObserved(a, r.proof, r.container, r.at, at)
       PROVE  TypeOK'
  <2>1. a \in Attempts /\ r.proof \in StopProofs /\ r.container \in Containers \cup {None}
        /\ r.at \in Times
    BY DEF Known, StopRecords
  <2> QED
    BY <1>13, <2>1, BuryType
       DEF TypeOK, AccountingObserved, Stamp, session, plan, audit, intents, binding
<1>14. ASSUME NEW at \in Times, NEW outcome \in Outcomes, Ended(outcome, at) PROVE TypeOK'
  BY <1>14 DEF TypeOK, Ended, Stamp, plan, audit, intents, binding, death, evidence
<1>15. ASSUME NEW at \in Times, NEW s \in StartIds, NEW stops \in [Known -> StopRecords],
              TerminationVerified(s, stops, at)
       PROVE  TypeOK'
  BY <1>15, ConstantsAssumption
     DEF TypeOK, TerminationVerified, Known, StopRecords, Stamp, plan, audit, intents,
         binding, evidence
<1> QED
  BY <1>1, <1>2, <1>3, <1>4, <1>5, <1>6, <1>7, <1>8, <1>9, <1>10, <1>11, <1>12, <1>13,
     <1>14, <1>15 DEF Next, SessionStep, BlockStep, AttemptStep

\* Every journal the fold accepts keeps the projection well typed
\* (CampaignProjection, foldTransition).
THEOREM TypeCorrect == Spec => []TypeOK
BY TypeInit, TypeStep, PTL DEF Spec

----
(* What a step leaves alone.  Proofs about the plan look at activations only, *)
(* and every invariant uses that records are final.                           *)

ActivationStep ==
  \E at \in Times, p \in Primaries : \E number \in [SlotsOf(p) -> 1..MaxAttempts] :
    BlockActivated(p, number, at)

ReplacementStep ==
  \E at \in Times, p \in Primaries, r \in Reserves, cause \in ReplacementCauses :
    \E number \in [SlotsOf(p) -> 1..MaxAttempts] : BlockReplaced(p, r, cause, number, at)

\* Only an activation or a replacement changes the plan.
LEMMA PlanFrame ==
  ASSUME [Next]_vars
  PROVE  \/ UNCHANGED <<blockPrimary, selected, consumed, blockOf>>
         \/ ActivationStep
         \/ ReplacementStep
<1>1. CASE UNCHANGED vars
  BY <1>1 DEF vars, plan, intents
<1>2. CASE Next
  <2> DEFINE Same == UNCHANGED <<blockPrimary, selected, consumed, blockOf>>
  <2>1. \A at : /\ Registered(at) => Same
                /\ \A s : Started(s, at) => Same
                /\ \A s, proc : ControllerBound(s, proc, at) => Same
    BY DEF Registered, Started, ControllerBound, plan, intents
  <2>2. \A at : /\ \A b : BlockValidated(b, at) => Same
                /\ \A b, cause : BlockInvalidated(b, cause, at) => Same
                /\ \A p, cause : BlockExhausted(p, cause, at) => Same
    BY DEF BlockValidated, BlockInvalidated, BlockExhausted, plan, intents
  <2>3. \A at : /\ \A a, c : RuntimeBound(a, c, at) => Same
                /\ \A a, t : RuntimeStarted(a, t, at) => Same
    BY DEF RuntimeBound, RuntimeStarted, plan, intents
  <2>4. \A at, a, o, cause, p, c, t : AttemptObserved(a, o, cause, p, c, t, at) => Same
    BY DEF AttemptObserved, plan, intents
  <2>5. \A at, a, p, c, t : AccountingObserved(a, p, c, t, at) => Same
    BY DEF AccountingObserved, plan, intents
  <2>6. \A at : /\ \A outcome : Ended(outcome, at) => Same
                /\ \A s, stops : TerminationVerified(s, stops, at) => Same
    BY DEF Ended, TerminationVerified, plan, intents
  <2> HIDE DEF Same
  <2>7. Same \/ ActivationStep \/ ReplacementStep
    BY <1>2, <2>1, <2>2, <2>3, <2>4, <2>5, <2>6 DEF Next, SessionStep, BlockStep, AttemptStep,
       ActivationStep, ReplacementStep
  <2> QED
    BY <2>7 DEF Same
<1> QED
  BY <1>1, <1>2

BindingStep ==
  \E at \in Times, a \in Known, c \in Containers : RuntimeBound(a, c, at)

BurialStep ==
  \E at \in Times, a \in Known, r \in StopRecords :
    Dead(a, r.proof, r.container, r.at, at) /\ Bury(a, r.proof, r.container, r.at)

InventoryStep ==
  \E at \in Times, s \in StartIds : \E stops \in [Known -> StopRecords] :
    TerminationVerified(s, stops, at)

\* Only a binding, an observed death and the final inventory touch containers
\* and proofs of death.
LEMMA DeathFrame ==
  ASSUME [Next]_vars
  PROVE  UNCHANGED death \/ BindingStep \/ BurialStep \/ InventoryStep
<1>1. CASE UNCHANGED vars
  BY <1>1 DEF vars
<1>2. CASE Next
  <2> DEFINE Same == UNCHANGED death
  <2>1. \A at : /\ Registered(at) => Same
                /\ \A s : Started(s, at) => Same
                /\ \A s, proc : ControllerBound(s, proc, at) => Same
                /\ \A outcome : Ended(outcome, at) => Same
    BY DEF Registered, Started, ControllerBound, Ended
  <2>2. \A at : /\ \A p, number : BlockActivated(p, number, at) => Same
                /\ \A p, r, cause, number : BlockReplaced(p, r, cause, number, at) => Same
    BY DEF BlockActivated, BlockReplaced
  <2>3. \A at : /\ \A b : BlockValidated(b, at) => Same
                /\ \A b, cause : BlockInvalidated(b, cause, at) => Same
                /\ \A p, cause : BlockExhausted(p, cause, at) => Same
    BY DEF BlockValidated, BlockInvalidated, BlockExhausted
  <2>4. \A at, a, t : RuntimeStarted(a, t, at) => Same
    BY DEF RuntimeStarted
  <2>5. ASSUME NEW at, NEW a, NEW o, NEW cause, NEW p, NEW c, NEW t,
               AttemptObserved(a, o, cause, p, c, t, at)
        PROVE  Dead(a, p, c, t, at) /\ Bury(a, p, c, t)
    BY <2>5 DEF AttemptObserved, CanObserve
  <2>6. ASSUME NEW at, NEW a, NEW p, NEW c, NEW t, AccountingObserved(a, p, c, t, at)
        PROVE  Dead(a, p, c, t, at) /\ Bury(a, p, c, t)
    BY <2>6 DEF AccountingObserved, CanAccount
  <2> HIDE DEF Same
  <2>7. Same \/ BindingStep \/ BurialStep \/ InventoryStep
    BY <1>2, <2>1, <2>2, <2>3, <2>4, <2>5, <2>6
       DEF Next, SessionStep, BlockStep, AttemptStep, BindingStep, BurialStep, InventoryStep
  <2> QED
    BY <2>7 DEF Same
<1> QED
  BY <1>1, <1>2

LEMMA StopRecordType ==
  ASSUME NEW r \in StopRecords
  PROVE  /\ r.proof \in StopProofs /\ r.container \in Containers \cup {None} /\ r.at \in Times
         /\ r.proof # None /\ ProofNames(r.proof, r.container)
BY ConstantsAssumption, NoneAssumption DEF StopRecords

\* Proofs of death, memberships and activations are never taken back.
LEMMA LivesAreFinal ==
  ASSUME TypeOK, [Next]_vars
  PROVE  /\ \A a \in Attempts : Stopped(a) => Stopped(a)'
         /\ \A a \in Attempts : blockOf[a] # None => blockOf'[a] = blockOf[a]
         /\ \A b \in Blocks : blockPrimary[b] # None => blockPrimary'[b] = blockPrimary[b]
<1>1. \A a \in Attempts : Stopped(a) => Stopped(a)'
  <2>1. CASE UNCHANGED death
    BY <2>1 DEF Stopped, death
  <2>2. CASE BindingStep
    BY <2>2 DEF BindingStep, RuntimeBound, Stopped
  <2>3. CASE BurialStep
    BY <2>3, StopRecordType DEF BurialStep, Bury, Stopped, TypeOK
  <2>4. CASE InventoryStep
    BY <2>4, StopRecordType DEF InventoryStep, TerminationVerified, Stopped
  <2> QED
    BY <2>1, <2>2, <2>3, <2>4, DeathFrame
<1>2. CASE UNCHANGED <<blockPrimary, selected, consumed, blockOf>>
  BY <1>1, <1>2
<1>3. CASE ActivationStep
  BY <1>1, <1>3, NoneAssumption
     DEF TypeOK, ActivationStep, BlockActivated, CanBegin, Activate, CanActivate, Numbered,
     Attempts, SlotsOf, Blocks
<1>4. CASE ReplacementStep
  <2> PICK at \in Times, p \in Primaries, r \in Reserves, cause \in ReplacementCauses :
        \E number \in [SlotsOf(p) -> 1..MaxAttempts] : BlockReplaced(p, r, cause, number, at)
    BY <1>4 DEF ReplacementStep
  <2> PICK number \in [SlotsOf(p) -> 1..MaxAttempts] : BlockReplaced(p, r, cause, number, at)
    OBVIOUS
  <2>1. Activate(r, p, selected[p], number, at)
    BY DEF BlockReplaced
  <2>2. \A a \in Attempts : blockOf[a] # None => blockOf'[a] = blockOf[a]
    BY <2>1 DEF Activate, CanActivate, Numbered
  <2>3. \A b \in Blocks : blockPrimary[b] # None => blockPrimary'[b] = blockPrimary[b]
    BY <2>1 DEF TypeOK, Activate, CanActivate, Blocks
  <2> QED
    BY <1>1, <2>2, <2>3
<1> QED
  BY <1>2, <1>3, <1>4, PlanFrame

----
(* Containers. *)

\* No container is ever charged to two attempts.
THEOREM ContainersHaveOneOwner == Spec => []OneOwner
<1>1. Init => OneOwner
  BY DEF Init, OneOwner
<1>2. TypeOK /\ OneOwner /\ [Next]_vars => OneOwner'
  <2> SUFFICES ASSUME TypeOK, OneOwner, [Next]_vars PROVE OneOwner'
    OBVIOUS
  <2>1. CASE UNCHANGED death
    BY <2>1 DEF OneOwner, death
  <2>2. CASE BindingStep
    BY <2>2 DEF BindingStep, RuntimeBound, CanBind, OneOwner, TypeOK
  <2>3. CASE BurialStep
    <3> PICK at \in Times, a \in Known, r \in StopRecords :
          Dead(a, r.proof, r.container, r.at, at) /\ Bury(a, r.proof, r.container, r.at)
      BY <2>3 DEF BurialStep
    <3>1. \A o \in Attempts \ {a} :
            /\ container'[o] = container[o]
            /\ r.container # None => container[o] # r.container
      BY DEF Dead, Unowned, Bury, TypeOK
    <3>2. container'[a] = r.container
      BY DEF Bury, TypeOK, Known
    <3> QED
      BY <3>1, <3>2 DEF OneOwner
  <2>4. CASE InventoryStep
    <3> PICK at \in Times, s \in StartIds :
          \E stops \in [Known -> StopRecords] : TerminationVerified(s, stops, at)
      BY <2>4 DEF InventoryStep
    <3> PICK stops \in [Known -> StopRecords] : TerminationVerified(s, stops, at)
      OBVIOUS
    <3>1. \A a \in Known : \A o \in Attempts \ {a} :
            stops[a].container # None => container[o] # stops[a].container
      BY DEF TerminationVerified, CanTerminate, Dead, Unowned
    <3>2. \A a, o \in Known : a # o /\ stops[a].container # None
                               => stops[a].container # stops[o].container
      BY DEF TerminationVerified, CanTerminate
    <3>3. \A a \in Attempts :
            container'[a] = IF a \in Known THEN stops[a].container ELSE container[a]
      BY DEF TerminationVerified
    <3> SUFFICES ASSUME NEW a \in Attempts, NEW o \in Attempts, a # o, container'[a] # None
                 PROVE  container'[a] # container'[o]
      BY DEF OneOwner
    <3>4. CASE a \in Known /\ o \in Known
      BY <3>2, <3>3, <3>4
    <3>5. CASE a \in Known /\ o \notin Known
      BY <3>1, <3>3, <3>5
    <3>6. CASE a \notin Known /\ o \in Known
      BY <3>1, <3>3, <3>6
    <3>7. CASE a \notin Known /\ o \notin Known
      BY <3>3, <3>7 DEF OneOwner
    <3> QED
      BY <3>4, <3>5, <3>6, <3>7
  <2> QED
    BY <2>1, <2>2, <2>3, <2>4, DeathFrame
<1> QED
  BY <1>1, <1>2, TypeCorrect, PTL DEF Spec

----
(* Blocks. *)

\* A selected block is an activated block of its primary, and blocks are whole:
\* the inductive form of BlocksAreWhole.
PlanInv ==
  /\ BlocksAreWhole
  /\ \A p \in Primaries : selected[p] # None =>
       selected[p] \in Activated /\ blockPrimary[selected[p]] = p

\* A new block takes attempts that were nobody's, so the members of the others
\* stay what they were, and its own are the ids it numbered.
LEMMA ActivationMembers ==
  ASSUME TypeOK, NEW at \in Times, NEW p \in Primaries, NEW b \in Blocks, NEW pred,
         NEW number \in [SlotsOf(p) -> 1..MaxAttempts], PlanInv,
         Activate(b, p, pred, number, at)
  PROVE  /\ \A x \in Blocks \ {b} : Members(x)' = Members(x)
         /\ Members(b)' = {<<s, number[s]>> : s \in SlotsOf(p)}
         /\ Activated' = Activated \cup {b}
         /\ b \notin Activated
         /\ blockPrimary' = [blockPrimary EXCEPT ![b] = p]
         /\ \A q \in Primaries : selected'[q] = IF q = p THEN b ELSE selected[q]
         /\ \A a \in Known' : blockOf'[a] \in Activated'
<1> DEFINE ids == {<<s, number[s]>> : s \in SlotsOf(p)}
<1>1. ids \subseteq Attempts
  BY DEF Attempts, SlotsOf
<1>2. \A a \in ids : blockOf[a] = None
  BY DEF Activate, CanActivate, Numbered
<1>3. blockOf' = [a \in Attempts |-> IF a \in ids THEN b ELSE blockOf[a]]
  BY DEF Activate
<1>4. b \notin Activated
  BY DEF Activate, CanActivate, Activated
<1>5. \A a \in Attempts : blockOf[a] # b
  BY <1>4, NoneAssumption DEF PlanInv, BlocksAreWhole, Known
<1> HIDE DEF ids
<1>6. Members(b)' = ids
  BY <1>1, <1>3, <1>5 DEF Members
<1>7. \A x \in Blocks \ {b} : Members(x)' = Members(x)
  BY <1>2, <1>3, NoneAssumption DEF Members
<1>8. blockPrimary' = [blockPrimary EXCEPT ![b] = p] /\ selected' = [selected EXCEPT ![p] = b]
  BY DEF Activate
<1>9. Activated' = Activated \cup {b}
  BY <1>8, NoneAssumption DEF Activated, TypeOK, Blocks
<1>10. \A q \in Primaries : selected'[q] = IF q = p THEN b ELSE selected[q]
  BY <1>8 DEF TypeOK
<1>11. ASSUME NEW a \in Known' PROVE blockOf'[a] \in Activated'
  <2>1. a \in Attempts /\ blockOf'[a] = IF a \in ids THEN b ELSE blockOf[a]
    BY <1>3 DEF Known
  <2>2. CASE a \in ids
    BY <2>1, <2>2, <1>9
  <2>3. CASE a \notin ids
    BY <2>1, <2>3, <1>9 DEF Known, PlanInv, BlocksAreWhole
  <2> QED
    BY <2>2, <2>3
<1> QED
  BY <1>4, <1>6, <1>7, <1>8, <1>9, <1>10, <1>11 DEF ids

LEMMA PlanInvStep ==
  ASSUME TypeOK, PlanInv, [Next]_vars
  PROVE  PlanInv'
<1>1. CASE UNCHANGED <<blockPrimary, selected, consumed, blockOf>>
  BY <1>1 DEF PlanInv, BlocksAreWhole, Activated, Members, Known
<1>2. CASE ActivationStep
  <2> PICK at \in Times, p \in Primaries :
        \E number \in [SlotsOf(p) -> 1..MaxAttempts] : BlockActivated(p, number, at)
    BY <1>2 DEF ActivationStep
  <2> PICK number \in [SlotsOf(p) -> 1..MaxAttempts] : BlockActivated(p, number, at)
    OBVIOUS
  <2>1. p \in Blocks /\ p \notin Reserves /\ Activate(p, p, None, number, at)
    BY ConstantsAssumption DEF BlockActivated, Blocks
  <2>2. \A s \in SlotsOf(p) : number[s] = 1
    BY <2>1 DEF Activate, CanActivate, Numbered
  <2>3. Members(p)' = {<<s, 1>> : s \in SlotsOf(p)}
    BY <2>1, <2>2, ActivationMembers
  <2>4. consumed' = consumed
    BY DEF BlockActivated
  <2>5. 1 \in 1..MaxAttempts
    BY ConstantsAssumption
  <2>6. ASSUME NEW b \in Activated'
        PROVE  LET q == blockPrimary'[b] IN
               /\ selected'[q] # None
               /\ IF b \in Primaries THEN b = q ELSE CellOf[b] = CellOf[q]
               /\ \E n \in 1..MaxAttempts : /\ Members(b)' = {<<s, n>> : s \in SlotsOf(q)}
                                            /\ n = 1 <=> b = q
    <3>1. CASE b = p
      <4>1. blockPrimary'[b] = p /\ selected'[p] = p
        BY <3>1, <2>1, ActivationMembers DEF TypeOK
      <4> QED
        BY <3>1, <4>1, <2>3, <2>5, NoneAssumption, <2>1
    <3>2. CASE b # p
      <4>1. b \in Activated /\ b \in Blocks /\ Members(b)' = Members(b)
            /\ blockPrimary'[b] = blockPrimary[b]
        BY <3>2, <2>1, ActivationMembers DEF Activated, TypeOK
      <4>2. blockPrimary[b] \in Primaries
        BY <4>1 DEF Activated, TypeOK
      <4>3. selected'[blockPrimary[b]] # None
        <5>1. selected[blockPrimary[b]] # None
          BY <4>1 DEF PlanInv, BlocksAreWhole
        <5> QED
          BY <5>1, <4>2, <2>1, ActivationMembers, NoneAssumption
      <4> QED
        BY <4>1, <4>2, <4>3 DEF PlanInv, BlocksAreWhole
    <3> QED
      BY <3>1, <3>2
  <2>7. consumed' = (Activated \cap Reserves)'
    BY <2>1, <2>4, ActivationMembers DEF PlanInv, BlocksAreWhole
  <2>8. \A a \in Known' : blockOf'[a] \in Activated'
    BY <2>1, ActivationMembers
  <2>9. \A q \in Primaries : selected'[q] # None =>
          selected'[q] \in Activated' /\ blockPrimary'[selected'[q]] = q
    BY <2>1, ActivationMembers DEF PlanInv, TypeOK, Activated
  <2> QED
    BY <2>6, <2>7, <2>8, <2>9 DEF PlanInv, BlocksAreWhole
<1>3. CASE ReplacementStep
  <2> PICK at \in Times, p \in Primaries, r \in Reserves, cause \in ReplacementCauses :
        \E number \in [SlotsOf(p) -> 1..MaxAttempts] : BlockReplaced(p, r, cause, number, at)
    BY <1>3 DEF ReplacementStep
  <2> PICK number \in [SlotsOf(p) -> 1..MaxAttempts] : BlockReplaced(p, r, cause, number, at)
    OBVIOUS
  <2> DEFINE pred == selected[p]
  <2>1. /\ r \in Blocks /\ r \notin Primaries /\ r # p
        /\ Activate(r, p, pred, number, at)
        /\ pred # None /\ CellOf[r] = CellOf[p] /\ consumed' = consumed \cup {r}
    BY ConstantsAssumption DEF BlockReplaced, CanReplace, Blocks, Consume
  <2>2. pred \in Activated /\ pred \in Blocks /\ blockPrimary[pred] = p
    BY <2>1 DEF PlanInv, Activated
  <2>3. PICK n \in 1..MaxAttempts : Members(pred) = {<<s, n>> : s \in SlotsOf(p)}
    BY <2>2 DEF PlanInv, BlocksAreWhole
  <2>4. \A s \in SlotsOf(p) : number[s] = n + 1
    <3> SUFFICES ASSUME NEW s \in SlotsOf(p) PROVE number[s] = n + 1
      OBVIOUS
    <3>1. number[s] \in 1..MaxAttempts /\ number[s] > 1 /\ blockOf[<<s, number[s] - 1>>] = pred
      BY <2>1 DEF Activate, CanActivate, Numbered
    <3>2. <<s, number[s] - 1>> \in Attempts
      BY <3>1, ConstantsAssumption DEF Attempts, SlotsOf
    <3>3. <<s, number[s] - 1>> \in Members(pred)
      BY <3>1, <3>2 DEF Members
    <3> QED
      BY <2>3, <3>1, <3>3, ConstantsAssumption
  <2>5. Members(r)' = {<<s, n + 1>> : s \in SlotsOf(p)}
    BY <2>1, <2>4, ActivationMembers
  <2>6. n + 1 \in 1..MaxAttempts /\ n + 1 # 1
    <3>1. PICK s \in SlotsOf(p) : TRUE
      BY ConstantsAssumption
    <3>2. number[s] \in 1..MaxAttempts
      OBVIOUS
    <3> QED
      BY <3>1, <3>2, <2>4, ConstantsAssumption
  <2>7. ASSUME NEW b \in Activated'
        PROVE  LET q == blockPrimary'[b] IN
               /\ selected'[q] # None
               /\ IF b \in Primaries THEN b = q ELSE CellOf[b] = CellOf[q]
               /\ \E m \in 1..MaxAttempts : /\ Members(b)' = {<<s, m>> : s \in SlotsOf(q)}
                                            /\ m = 1 <=> b = q
    <3>1. CASE b = r
      <4>1. blockPrimary'[b] = p /\ selected'[p] = r
        BY <3>1, <2>1, ActivationMembers DEF TypeOK
      <4> QED
        BY <3>1, <4>1, <2>1, <2>5, <2>6, NoneAssumption
    <3>2. CASE b # r
      <4>1. b \in Activated /\ b \in Blocks /\ Members(b)' = Members(b)
            /\ blockPrimary'[b] = blockPrimary[b]
        BY <3>2, <2>1, ActivationMembers DEF Activated, TypeOK
      <4>2. blockPrimary[b] \in Primaries
        BY <4>1 DEF Activated, TypeOK
      <4>3. selected'[blockPrimary[b]] # None
        <5>1. selected[blockPrimary[b]] # None
          BY <4>1 DEF PlanInv, BlocksAreWhole
        <5> QED
          BY <5>1, <4>2, <2>1, ActivationMembers, NoneAssumption
      <4> QED
        BY <4>1, <4>2, <4>3 DEF PlanInv, BlocksAreWhole
    <3> QED
      BY <3>1, <3>2
  <2>8. consumed' = (Activated \cap Reserves)'
    BY <2>1, ActivationMembers DEF PlanInv, BlocksAreWhole
  <2>9. \A a \in Known' : blockOf'[a] \in Activated'
    BY <2>1, ActivationMembers
  <2>10. \A q \in Primaries : selected'[q] # None =>
           selected'[q] \in Activated' /\ blockPrimary'[selected'[q]] = q
    BY <2>1, ActivationMembers DEF PlanInv, TypeOK, Activated
  <2> QED
    BY <2>7, <2>8, <2>9, <2>10 DEF PlanInv, BlocksAreWhole
<1> QED
  BY <1>1, <1>2, <1>3, PlanFrame

LEMMA PlanInvariant == Spec => []PlanInv
<1>1. Init => PlanInv
  BY NoneAssumption DEF Init, PlanInv, BlocksAreWhole, Activated, Known
<1> QED
  BY <1>1, PlanInvStep, TypeCorrect, PTL DEF Spec

\* Blocks stay whole: every activated block has one attempt per slot, all of one
\* ordinal, and is its primary's own first block or a reserve of its cell.
THEOREM WholeBlocks == Spec => []BlocksAreWhole
<1>1. PlanInv => BlocksAreWhole
  BY DEF PlanInv
<1> QED
  BY <1>1, PlanInvariant, PTL

----
(* Records. *)

\* The first reason a block was excluded for stands.
LEMMA ExclusionKept ==
  ASSUME TypeOK, NEW b \in Blocks, NEW cause, Exclude(b, cause)
  PROVE  \A x \in Blocks : excluded[x] # None => excluded'[x] = excluded[x]
BY DEF Exclude, FirstReason, TypeOK

AuditKept ==
  /\ \A b \in Blocks : excluded[b] # None => excluded'[b] = excluded[b]
  /\ \A b \in Blocks : receipt[b] => receipt'[b]
  /\ \A b \in Blocks : invalidated[b] => invalidated'[b]

EvidenceKept ==
  \A a \in Attempts : /\ observation[a] # None => observation'[a] = observation[a]
                      /\ accounted[a] => accounted'[a]

OutcomeKept == ended # None => ended' = ended

ExhaustionKept ==
  \A p \in Primaries :
    exhausted[p] # None => exhausted'[p] = exhausted[p] /\ selected'[p] = selected[p]

\* Every step keeps what it finds recorded.
LEMMA RecordStep ==
  ASSUME TypeOK, [Next]_vars
  PROVE  AuditKept /\ EvidenceKept /\ OutcomeKept /\ ExhaustionKept
<1> DEFINE Kept == AuditKept /\ EvidenceKept /\ OutcomeKept /\ ExhaustionKept
<1> USE DEF AuditKept, EvidenceKept, OutcomeKept, ExhaustionKept
<1>1. CASE UNCHANGED vars
  BY <1>1 DEF vars, session, plan, audit, evidence
<1>2. \A at : /\ Registered(at) => Kept
              /\ \A s : Started(s, at) => Kept
              /\ \A s, proc : ControllerBound(s, proc, at) => Kept
              /\ \A outcome : Ended(outcome, at) => Kept
  BY DEF Registered, Started, ControllerBound, Ended, CanEnd, Admissible, plan, audit, evidence
<1>3. ASSUME NEW at, NEW p \in Primaries, NEW number, BlockActivated(p, number, at)
      PROVE  Kept
  BY <1>3 DEF BlockActivated, CanBegin, Activate, CanActivate, TypeOK, session, audit, evidence
<1>4. ASSUME NEW at, NEW p \in Primaries, NEW r, NEW cause, NEW number,
             BlockReplaced(p, r, cause, number, at)
      PROVE  Kept
  <2>1. selected[p] \in Blocks /\ Exclude(selected[p], cause)
    BY <1>4 DEF BlockReplaced, CanReplace, TypeOK
  <2>2. \A b \in Blocks : excluded[b] # None => excluded'[b] = excluded[b]
    BY <2>1, ExclusionKept
  <2> QED
    BY <1>4, <2>2 DEF BlockReplaced, CanReplace, Activate, CanActivate, TypeOK, session, evidence
<1>5. ASSUME NEW at, NEW b \in Blocks, BlockValidated(b, at) PROVE Kept
  BY <1>5 DEF BlockValidated, TypeOK, session, plan, evidence
<1>6. ASSUME NEW at, NEW b \in Blocks, NEW cause, BlockInvalidated(b, cause, at) PROVE Kept
  <2>1. \A x \in Blocks : excluded[x] # None => excluded'[x] = excluded[x]
    BY <1>6, ExclusionKept DEF BlockInvalidated
  <2> QED
    BY <1>6, <2>1 DEF BlockInvalidated, TypeOK, session, plan, evidence
<1>7. ASSUME NEW at, NEW p \in Primaries, NEW cause, BlockExhausted(p, cause, at) PROVE Kept
  <2>1. selected[p] \in Blocks /\ Exclude(selected[p], cause)
    BY <1>7 DEF BlockExhausted, CanExhaust, TypeOK
  <2>2. \A b \in Blocks : excluded[b] # None => excluded'[b] = excluded[b]
    BY <2>1, ExclusionKept
  <2> QED
    BY <1>7, <2>2 DEF BlockExhausted, CanExhaust, TypeOK, session, evidence
<1>8. \A at : /\ \A a, c : RuntimeBound(a, c, at) => Kept
              /\ \A a, t : RuntimeStarted(a, t, at) => Kept
  BY DEF RuntimeBound, RuntimeStarted, session, plan, audit, evidence
<1>9. ASSUME NEW at, NEW a \in Known, NEW o, NEW cause, NEW p, NEW c, NEW t,
             AttemptObserved(a, o, cause, p, c, t, at)
      PROVE  Kept
  <2>1. blockOf[a] \in Blocks /\ (UNCHANGED excluded \/ Exclude(blockOf[a], cause))
    BY <1>9 DEF AttemptObserved, Known, TypeOK
  <2>2. \A b \in Blocks : excluded[b] # None => excluded'[b] = excluded[b]
    BY <2>1, ExclusionKept
  <2>3. observation[a] = None /\ observation' = [observation EXCEPT ![a] = o]
        /\ UNCHANGED <<session, plan, receipt, invalidated, accounted>>
    BY <1>9 DEF AttemptObserved, CanObserve
  <2> QED
    BY <2>2, <2>3 DEF TypeOK, session, plan
<1>10. ASSUME NEW at, NEW a, NEW p, NEW c, NEW t, AccountingObserved(a, p, c, t, at)
       PROVE  Kept
  <2>1. accounted' = [accounted EXCEPT ![a] = TRUE]
        /\ UNCHANGED <<session, plan, audit, observation>>
    BY <1>10 DEF AccountingObserved
  <2>2. \A x \in Attempts : accounted[x] => accounted'[x]
    BY <2>1 DEF TypeOK
  <2> QED
    BY <2>1, <2>2 DEF session, plan, audit
<1>11. \A at, s, stops : TerminationVerified(s, stops, at) => Kept
  BY DEF TerminationVerified, plan, audit, evidence
<1> HIDE DEF Kept
<1>12. ASSUME Next PROVE Kept
  <2> PICK at \in Times : SessionStep(at) \/ BlockStep(at) \/ AttemptStep(at)
    BY <1>12 DEF Next
  <2>1. CASE SessionStep(at)
    BY <2>1, <1>2, <1>11 DEF SessionStep
  <2>2. CASE BlockStep(at)
    BY <2>2, <1>3, <1>4, <1>5, <1>6, <1>7 DEF BlockStep
  <2>3. CASE AttemptStep(at)
    BY <2>3, <1>8, <1>9, <1>10 DEF AttemptStep
  <2> QED
    BY <2>1, <2>2, <2>3
<1>13. Kept
  BY <1>1, <1>12 DEF Kept
<1> QED
  BY <1>13 DEF Kept

LEMMA ConsumedGrows ==
  ASSUME [Next]_vars PROVE consumed \subseteq consumed'
BY PlanFrame DEF ActivationStep, ReplacementStep, BlockActivated, BlockReplaced, Consume

\* No transition takes back or rewrites what an earlier one recorded.
THEOREM RecordsKept == Spec => RecordsAreFinal
<1>1. ASSUME TypeOK, [Next]_vars
      PROVE  /\ ended # None => ended' = ended
             /\ consumed \subseteq consumed'
             /\ \A a \in Attempts : /\ observation[a] # None => observation'[a] = observation[a]
                                    /\ accounted[a] => accounted'[a]
                                    /\ blockOf[a] # None => blockOf'[a] = blockOf[a]
             /\ \A b \in Blocks : /\ excluded[b] # None => excluded'[b] = excluded[b]
                                  /\ receipt[b] => receipt'[b]
                                  /\ invalidated[b] => invalidated'[b]
             /\ \A p \in Primaries : exhausted[p] # None =>
                  exhausted'[p] = exhausted[p] /\ selected'[p] = selected[p]
  <2>1. AuditKept /\ EvidenceKept /\ OutcomeKept /\ ExhaustionKept
    BY <1>1, RecordStep
  <2>2. consumed \subseteq consumed'
    BY <1>1, ConsumedGrows
  <2>3. \A a \in Attempts : blockOf[a] # None => blockOf'[a] = blockOf[a]
    BY <1>1, LivesAreFinal
  <2> QED
    BY <2>1, <2>2, <2>3 DEF AuditKept, EvidenceKept, OutcomeKept, ExhaustionKept
<1> QED
  BY <1>1, TypeCorrect, PTL DEF Spec, RecordsAreFinal

----
(* Superseded blocks. *)

LEMMA SupersededStep ==
  ASSUME TypeOK, PlanInv, SupersededIsOver, [Next]_vars
  PROVE  SupersededIsOver'
<1>1. \A b \in Blocks : excluded[b] # None => excluded'[b] # None
  BY RecordStep DEF AuditKept
<1>2. \A a \in Attempts : Stopped(a) => Stopped(a)'
  BY LivesAreFinal
<1>3. CASE UNCHANGED <<blockPrimary, selected, consumed, blockOf>>
  BY <1>1, <1>2, <1>3 DEF SupersededIsOver, Activated, Members
<1>4. ASSUME NEW at \in Times, NEW p \in Primaries, NEW b \in Blocks, NEW pred,
             NEW number \in [SlotsOf(p) -> 1..MaxAttempts], Activate(b, p, pred, number, at),
             selected[p] # None => /\ excluded'[selected[p]] # None
                                   /\ \A a \in Members(selected[p]) : Stopped(a)
      PROVE  SupersededIsOver'
  <2> SUFFICES ASSUME NEW x \in Activated', selected'[blockPrimary'[x]] # x
               PROVE  excluded'[x] # None /\ \A a \in Members(x)' : Stopped(a)'
    BY DEF SupersededIsOver
  <2>1. x \in Blocks /\ x # b
    BY <1>4, ActivationMembers DEF Activated, TypeOK
  <2>2. x \in Activated /\ blockPrimary'[x] = blockPrimary[x] /\ Members(x)' = Members(x)
        /\ blockPrimary[x] \in Primaries
    BY <1>4, <2>1, ActivationMembers DEF TypeOK, Activated
  <2>3. Members(x) \subseteq Attempts
    BY DEF Members
  <2>4. CASE selected[blockPrimary[x]] # x
    BY <1>1, <1>2, <2>1, <2>2, <2>3, <2>4 DEF SupersededIsOver
  <2>5. CASE selected[blockPrimary[x]] = x
    <3>1. blockPrimary[x] = p
      BY <1>4, <2>1, <2>2, <2>5, ActivationMembers
    <3> QED
      BY <1>2, <1>4, <2>1, <2>2, <2>3, <2>5, <3>1, NoneAssumption
  <2> QED
    BY <2>4, <2>5
<1>5. CASE ActivationStep
  BY <1>4, <1>5 DEF ActivationStep, BlockActivated, CanBegin, Blocks
<1>6. CASE ReplacementStep
  <2> PICK at \in Times, p \in Primaries, r \in Reserves, cause \in ReplacementCauses :
        \E number \in [SlotsOf(p) -> 1..MaxAttempts] : BlockReplaced(p, r, cause, number, at)
    BY <1>6 DEF ReplacementStep
  <2> PICK number \in [SlotsOf(p) -> 1..MaxAttempts] : BlockReplaced(p, r, cause, number, at)
    OBVIOUS
  <2>1. Activate(r, p, selected[p], number, at) /\ r \in Blocks
    BY DEF BlockReplaced, Blocks
  <2>2. \A a \in Members(selected[p]) : Stopped(a)
    BY DEF BlockReplaced, CanReplace, Replaceable
  <2>3. selected[p] \in Blocks /\ Exclude(selected[p], cause)
    BY DEF BlockReplaced, CanReplace, TypeOK
  <2>4. excluded'[selected[p]] # None
    BY <2>3, NoneAssumption DEF Exclude, FirstReason, TypeOK, Causes
  <2> QED
    BY <1>4, <2>1, <2>2, <2>4
<1> QED
  BY <1>3, <1>5, <1>6, PlanFrame

\* A block that is no longer its primary's selected one is out of the results,
\* and all its workers are proved dead.
THEOREM SupersededBlocksAreOver == Spec => []SupersededIsOver
<1>1. Init => SupersededIsOver
  BY DEF Init, SupersededIsOver, Activated
<1> QED
  BY <1>1, SupersededStep, TypeCorrect, PlanInvariant, PTL DEF Spec

----
(* Results. *)

ObservationStep ==
  \E at \in Times, a \in Known, r \in StopRecords, o \in Observations,
     cause \in ValidityCauses \cup {None} :
    AttemptObserved(a, o, cause, r.proof, r.container, r.at, at)
ValidationStep == \E at \in Times, b \in Blocks : BlockValidated(b, at)
ExhaustionStep ==
  \E at \in Times, p \in Primaries, cause \in ReplacementCauses : BlockExhausted(p, cause, at)
EndStep == \E at \in Times, outcome \in Outcomes : Ended(outcome, at)

\* Each record is written by one type of transition.
LEMMA RecordFrame ==
  ASSUME [Next]_vars
  PROVE  /\ UNCHANGED observation \/ ObservationStep
         /\ UNCHANGED receipt \/ ValidationStep
         /\ UNCHANGED exhausted \/ ExhaustionStep
         /\ UNCHANGED ended \/ EndStep
<1> DEFINE Frame == /\ UNCHANGED observation \/ ObservationStep
                    /\ UNCHANGED receipt \/ ValidationStep
                    /\ UNCHANGED exhausted \/ ExhaustionStep
                    /\ UNCHANGED ended \/ EndStep
           Same == UNCHANGED <<observation, receipt, exhausted, ended>>
<1>1. CASE UNCHANGED vars
  BY <1>1 DEF vars, session, plan, audit, evidence
<1>2. Same => Frame
  OBVIOUS
<1>3. ASSUME NEW at \in Times, SessionStep(at) PROVE Frame
  <2>1. \A s, proc : Registered(at) \/ Started(s, at) \/ ControllerBound(s, proc, at) => Same
    BY DEF Registered, Started, ControllerBound, plan, audit, evidence
  <2>2. \A s, stops : TerminationVerified(s, stops, at) => Same
    BY DEF TerminationVerified, plan, audit, evidence
  <2>3. \A outcome : Ended(outcome, at) => UNCHANGED <<observation, receipt, exhausted>>
    BY DEF Ended, plan, audit, evidence
  <2> QED
    BY <1>3, <2>1, <2>2, <2>3 DEF SessionStep, EndStep
<1>4. ASSUME NEW at \in Times, BlockStep(at) PROVE Frame
  <2>1. \A p, number : BlockActivated(p, number, at) => Same
    BY DEF BlockActivated, Activate, session, audit, evidence
  <2>2. \A p, r, cause, number : BlockReplaced(p, r, cause, number, at) => Same
    BY DEF BlockReplaced, Activate, session, evidence
  <2>3. \A b : BlockValidated(b, at) => UNCHANGED <<observation, exhausted, ended>>
    BY DEF BlockValidated, session, plan, evidence
  <2>4. \A b, cause : BlockInvalidated(b, cause, at) => Same
    BY DEF BlockInvalidated, session, plan, evidence
  <2>5. \A p, cause : BlockExhausted(p, cause, at) => UNCHANGED <<observation, receipt, ended>>
    BY DEF BlockExhausted, session, evidence
  <2> QED
    BY <1>4, <2>1, <2>2, <2>3, <2>4, <2>5 DEF BlockStep, ValidationStep, ExhaustionStep
<1>5. ASSUME NEW at \in Times, AttemptStep(at) PROVE Frame
  <2>1. \A a, c, t : RuntimeBound(a, c, at) \/ RuntimeStarted(a, t, at) => Same
    BY DEF RuntimeBound, RuntimeStarted, session, plan, audit, evidence
  <2>2. \A a, p, c, t : AccountingObserved(a, p, c, t, at) => Same
    BY DEF AccountingObserved, session, plan, audit
  <2>3. \A a, o, cause, p, c, t : AttemptObserved(a, o, cause, p, c, t, at)
                                   => UNCHANGED <<receipt, exhausted, ended>>
    BY DEF AttemptObserved, session, plan
  <2> QED
    BY <1>5, <2>1, <2>2, <2>3 DEF AttemptStep, ObservationStep
<1> QED
  BY <1>1, <1>2, <1>3, <1>4, <1>5 DEF Next

\* An observation is of a worker proved dead, and a receipt is of a block whose
\* members were all observed valid.
ResultInv ==
  /\ \A a \in Attempts : observation[a] # None => Stopped(a)
  /\ \A b \in Blocks : receipt[b] =>
       /\ b \in Activated
       /\ \A a \in Members(b) : observation[a] # None /\ observation[a].validity = "valid"

\* An activated block keeps its members.
LEMMA MembersKept ==
  ASSUME TypeOK, PlanInv, [Next]_vars, NEW b \in Activated
  PROVE  b \in Activated' /\ Members(b)' = Members(b) /\ blockPrimary'[b] = blockPrimary[b]
<1>1. b \in Blocks /\ b \in Activated'
  BY LivesAreFinal DEF Activated
<1>2. blockPrimary'[b] = blockPrimary[b]
  BY LivesAreFinal DEF Activated
<1>3. CASE UNCHANGED <<blockPrimary, selected, consumed, blockOf>>
  BY <1>1, <1>2, <1>3 DEF Members
<1>4. CASE ActivationStep
  <2>1. \A at \in Times, p \in Primaries : \A number \in [SlotsOf(p) -> 1..MaxAttempts] :
          BlockActivated(p, number, at) => p \in Blocks /\ Activate(p, p, None, number, at)
    BY DEF BlockActivated, Blocks
  <2> QED
    BY <1>1, <1>2, <1>4, <2>1, ActivationMembers DEF ActivationStep
<1>5. CASE ReplacementStep
  <2>1. \A at \in Times, p \in Primaries, r \in Reserves, cause \in ReplacementCauses :
          \A number \in [SlotsOf(p) -> 1..MaxAttempts] :
            BlockReplaced(p, r, cause, number, at)
              => r \in Blocks /\ Activate(r, p, selected[p], number, at)
    BY DEF BlockReplaced, Blocks
  <2> QED
    BY <1>1, <1>2, <1>5, <2>1, ActivationMembers DEF ReplacementStep
<1> QED
  BY <1>3, <1>4, <1>5, PlanFrame

LEMMA ResultStep ==
  ASSUME TypeOK, PlanInv, ResultInv, [Next]_vars
  PROVE  ResultInv'
<1>1. ASSUME NEW x \in Attempts, observation'[x] # None PROVE Stopped(x)'
  <2>1. CASE observation[x] # None
    BY <2>1, LivesAreFinal DEF ResultInv
  <2>2. CASE observation[x] = None
    <3>1. ObservationStep
      BY <1>1, <2>2, RecordFrame
    <3> PICK at \in Times, a \in Known, r \in StopRecords, o \in Observations,
             cause \in ValidityCauses \cup {None} :
               AttemptObserved(a, o, cause, r.proof, r.container, r.at, at)
      BY <3>1 DEF ObservationStep
    <3>2. x = a /\ proof' = [proof EXCEPT ![a] = r.proof]
      BY <1>1, <2>2 DEF AttemptObserved, Bury, TypeOK
    <3> QED
      BY <3>2, StopRecordType DEF Stopped, TypeOK
  <2> QED
    BY <2>1, <2>2
<1>2. ASSUME NEW b \in Blocks, receipt'[b]
      PROVE  /\ b \in Activated'
             /\ \A a \in Members(b)' : /\ observation'[a] # None
                                       /\ observation'[a].validity = "valid"
  <2>1. b \in Activated /\ \A a \in Members(b) : /\ observation[a] # None
                                                 /\ observation[a].validity = "valid"
    <3>1. CASE receipt[b]
      BY <3>1 DEF ResultInv
    <3>2. CASE ~receipt[b]
      <4>1. ValidationStep
        BY <1>2, <3>2, RecordFrame
      <4> PICK at \in Times, y \in Blocks : BlockValidated(y, at)
        BY <4>1 DEF ValidationStep
      <4>2. b = y
        BY <1>2, <3>2 DEF BlockValidated, TypeOK
      <4> QED
        BY <4>2 DEF BlockValidated, CanValidate
    <3> QED
      BY <3>1, <3>2
  <2>2. b \in Activated' /\ Members(b)' = Members(b) /\ Members(b) \subseteq Attempts
    BY <2>1, MembersKept DEF Members
  <2> QED
    BY <2>1, <2>2, RecordStep DEF EvidenceKept
<1> QED
  BY <1>1, <1>2 DEF ResultInv

LEMMA ResultInvariant == Spec => []ResultInv
<1>1. Init => ResultInv
  BY DEF Init, ResultInv, Activated
<1> QED
  BY <1>1, ResultStep, TypeCorrect, PlanInvariant, PTL DEF Spec

\* What exhaustion found: nothing of the primary runs, counts or can be replaced.
GivenUp(p) ==
  /\ selected[p] # None
  /\ excluded[selected[p]] # None
  /\ \A a \in Members(selected[p]) : Stopped(a)
  /\ ~Allowance(selected[p])

\* The allowance of a block that is selected and given up cannot come back.
LEMMA ExhaustionStays ==
  ASSUME TypeOK, PlanInv, ExhaustionIsFinal, [Next]_vars
  PROVE  ExhaustionIsFinal'
<1> SUFFICES ASSUME NEW p \in Primaries, exhausted'[p] # None PROVE GivenUp(p)'
  BY DEF ExhaustionIsFinal, GivenUp
<1>1. ASSUME NEW b \in Activated, selected'[p] = b, ~Allowance(b),
             \A a \in Members(b) : Stopped(a), excluded'[b] # None
      PROVE  GivenUp(p)'
  <2>1. Members(b)' = Members(b) /\ blockPrimary'[b] = blockPrimary[b] /\ b \in Blocks
    BY <1>1, MembersKept DEF Activated
  <2>2. ~Allowance(b)'
    BY <1>1, <2>1, ConsumedGrows DEF Allowance
  <2>3. \A a \in Members(b)' : Stopped(a)'
    BY <1>1, <2>1, LivesAreFinal DEF Members
  <2> QED
    BY <1>1, <2>1, <2>2, <2>3, NoneAssumption DEF GivenUp
<1>2. CASE exhausted[p] # None
  <2>1. GivenUp(p)
    BY <1>2 DEF ExhaustionIsFinal, GivenUp
  <2>2. selected[p] \in Activated /\ selected'[p] = selected[p]
    BY <1>2, <2>1, RecordStep DEF PlanInv, ExhaustionKept, GivenUp
  <2>3. excluded'[selected[p]] # None
    BY <2>1, <2>2, RecordStep DEF AuditKept, Activated, GivenUp
  <2> QED
    BY <1>1, <2>1, <2>2, <2>3 DEF GivenUp
<1>3. CASE exhausted[p] = None
  <2>1. ExhaustionStep
    BY <1>3, RecordFrame
  <2> PICK at \in Times, q \in Primaries, cause \in ReplacementCauses :
        BlockExhausted(q, cause, at)
    BY <2>1 DEF ExhaustionStep
  <2>2. q = p
    BY <1>3 DEF BlockExhausted, TypeOK
  <2>3. /\ selected[p] # None /\ selected' = selected /\ ~Allowance(selected[p])
        /\ \A a \in Members(selected[p]) : Stopped(a)
        /\ Exclude(selected[p], cause)
    BY <2>2 DEF BlockExhausted, CanExhaust, Replaceable
  <2>4. selected[p] \in Activated /\ selected[p] \in Blocks
    BY <2>3 DEF PlanInv, Activated
  <2>5. excluded'[selected[p]] # None
    BY <2>3, <2>4, NoneAssumption DEF Exclude, FirstReason, TypeOK, Causes
  <2> QED
    BY <1>1, <2>3, <2>4, <2>5
<1> QED
  BY <1>2, <1>3

\* A primary is given up only when nothing could replace it, and that stays so.
THEOREM ExhaustionHolds == Spec => []ExhaustionIsFinal
<1>1. Init => ExhaustionIsFinal
  BY DEF Init, ExhaustionIsFinal
<1> QED
  BY <1>1, ExhaustionStays, TypeCorrect, PlanInvariant, PTL DEF Spec

\* Once the outcome is fixed only accounts and proofs of death still change.
LEMMA EndFreezes ==
  ASSUME ended # None, [Next]_vars
  PROVE  UNCHANGED <<plan, audit, intents, observation>>
<1> DEFINE Frozen == UNCHANGED <<plan, audit, intents, observation>>
<1>1. CASE UNCHANGED vars
  BY <1>1 DEF vars, evidence
<1>2. ASSUME NEW at \in Times, SessionStep(at) PROVE Frozen
  <2>1. \A s, proc, outcome : /\ ~Registered(at) /\ ~Started(s, at)
                              /\ ~ControllerBound(s, proc, at) /\ ~Ended(outcome, at)
    BY DEF Registered, Started, ControllerBound, Ended, CanEnd, Admissible
  <2>2. \A s, stops : TerminationVerified(s, stops, at) => Frozen
    BY DEF TerminationVerified, evidence
  <2> QED
    BY <1>2, <2>1, <2>2 DEF SessionStep
<1>3. ASSUME NEW at \in Times, BlockStep(at) PROVE Frozen
  BY <1>3 DEF BlockStep, BlockActivated, CanBegin, BlockReplaced, CanReplace, BlockValidated,
     CanValidate, BlockInvalidated, CanInvalidate,
              BlockExhausted, CanExhaust, Admissible
<1>4. ASSUME NEW at \in Times, AttemptStep(at) PROVE Frozen
  <2>1. \A a, o, cause, p, c, t : /\ ~RuntimeBound(a, c, at) /\ ~RuntimeStarted(a, t, at)
                                  /\ ~AttemptObserved(a, o, cause, p, c, t, at)
    BY DEF RuntimeBound, CanBind, RuntimeStarted, CanStart, AttemptObserved, CanObserve, Admissible
  <2>2. \A a, p, c, t : AccountingObserved(a, p, c, t, at) => Frozen
    BY DEF AccountingObserved
  <2> QED
    BY <1>4, <2>1, <2>2 DEF AttemptStep
<1> QED
  BY <1>1, <1>2, <1>3, <1>4 DEF Next

\* What completion checked stays true: the inductive form of CompletedIsSound.
CompletedInv ==
  ended = "completed" =>
    (\A p \in Primaries : Resolved(p)) /\ (\A a \in Known : Stopped(a))

LEMMA CompletedStep ==
  ASSUME TypeOK, CompletedInv, [Next]_vars
  PROVE  CompletedInv'
<1> SUFFICES ASSUME ended' = "completed"
             PROVE  (\A p \in Primaries : Resolved(p)')
                    /\ (\A a \in Known' : Stopped(a)')
  BY DEF CompletedInv
<1>1. CASE ended = "completed"
  <2>1. UNCHANGED <<plan, audit, intents, observation>>
    BY <1>1, EndFreezes, NoneAssumption DEF Outcomes
  <2>2. \A p \in Primaries : Resolved(p)'
    BY <1>1, <2>1 DEF CompletedInv, Resolved, plan, audit
  <2>3. \A a \in Known' : a \in Known /\ a \in Attempts
    BY <2>1 DEF Known, intents
  <2> QED
    BY <1>1, <2>2, <2>3, LivesAreFinal DEF CompletedInv
<1>2. CASE ended # "completed"
  <2>1. EndStep
    BY <1>2, RecordFrame
  <2> PICK at \in Times, outcome \in Outcomes : Ended(outcome, at)
    BY <2>1 DEF EndStep
  <2>2. outcome = "completed"
    BY DEF Ended
  <2> QED
    BY <2>2 DEF Ended, CanEnd, Resolved, Known, Stopped, plan, audit, intents, death
<1> QED
  BY <1>1, <1>2

\* A campaign that says it completed has an audited result or a justified
\* exhaustion for every planned pair, with every worker dead.
THEOREM CompletedCampaignsAreSound == Spec => []CompletedIsSound
<1>1. Init => CompletedInv
  BY NoneAssumption DEF Init, CompletedInv, Outcomes
<1>2. Spec => []CompletedInv
  BY <1>1, CompletedStep, TypeCorrect, PTL DEF Spec
<1>3. TypeOK /\ PlanInv /\ ResultInv /\ ExhaustionIsFinal /\ CompletedInv => CompletedIsSound
  <2> SUFFICES ASSUME TypeOK, PlanInv, ResultInv, ExhaustionIsFinal, CompletedInv,
                      ended = "completed", NEW p \in Primaries
               PROVE  LET b == selected[p] IN
                      /\ b \in Activated
                      /\ \A a \in Members(b) : Stopped(a)
                      /\ IF exhausted[p] # None THEN excluded[b] # None /\ ~Allowance(b)
                         ELSE /\ excluded[b] = None
                              /\ \A s \in SlotsOf(p) : \E a \in Members(b) :
                                   /\ Sample(a) = s
                                   /\ observation[a] # None
                                   /\ observation[a].validity = "valid"
    BY DEF CompletedIsSound
  <2> DEFINE b == selected[p]
  <2>1. Resolved(p) /\ \A a \in Known : Stopped(a)
    BY DEF CompletedInv
  <2>2. b \in Activated /\ b \in Blocks /\ blockPrimary[b] = p
    BY <2>1 DEF PlanInv, Resolved, Activated
  <2>3. \A a \in Members(b) : Stopped(a)
    BY <2>1, <2>2, NoneAssumption DEF Members, Known
  <2>4. CASE exhausted[p] # None
    BY <2>2, <2>3, <2>4 DEF ExhaustionIsFinal
  <2>5. CASE exhausted[p] = None
    <3>1. receipt[b] /\ excluded[b] = None
      BY <2>1, <2>5 DEF Resolved
    <3>2. \A a \in Members(b) : observation[a] # None /\ observation[a].validity = "valid"
      BY <2>2, <3>1 DEF ResultInv
    <3>3. PICK n \in 1..MaxAttempts : Members(b) = {<<s, n>> : s \in SlotsOf(p)}
      BY <2>2 DEF PlanInv, BlocksAreWhole
    <3>4. \A s \in SlotsOf(p) : <<s, n>> \in Members(b) /\ Sample(<<s, n>>) = s
      BY <3>3 DEF Sample
    <3>5. \A s \in SlotsOf(p) : \E a \in Members(b) :
            Sample(a) = s /\ observation[a] # None /\ observation[a].validity = "valid"
      BY <3>2, <3>4
    <3> QED
      BY <2>2, <2>3, <2>5, <3>1, <3>5
  <2> QED
    BY <2>4, <2>5
<1> QED
  BY <1>2, <1>3, TypeCorrect, PlanInvariant, ResultInvariant, ExhaustionHolds, PTL

\* The blocks of a pair are whole, and those that were replaced are over.
THEOREM BlocksSound == Spec => []BlocksAreSound
  BY SupersededBlocksAreOver, WholeBlocks, PTL DEF BlocksAreSound

\* A pair that was given up stays without an allowance, and a campaign that
\* completed has a result for every other.
THEOREM EndsSound == Spec => []EndsAreSound
  BY ExhaustionHolds, CompletedCampaignsAreSound, PTL DEF EndsAreSound
----
(* Times. *)

\* What a step may do to the instants of one attempt: nothing, or one of these.
Prepares(a) ==
  /\ blockOf[a] = None /\ blockOf'[a] # None /\ preparedAt'[a] = lastAt'
  /\ boundAt'[a] = boundAt[a] /\ startedAt'[a] = startedAt[a] /\ stoppedAt'[a] = stoppedAt[a]
  /\ proof'[a] = proof[a] /\ container'[a] = container[a]

Binds(a) ==
  /\ blockOf[a] # None /\ container[a] = None /\ proof[a] = None
  /\ container'[a] # None /\ boundAt'[a] = lastAt'
  /\ blockOf'[a] = blockOf[a] /\ preparedAt'[a] = preparedAt[a]
  /\ startedAt'[a] = startedAt[a] /\ stoppedAt'[a] = stoppedAt[a] /\ proof'[a] = proof[a]

Starts(a) ==
  /\ blockOf[a] # None /\ boundAt[a] # None /\ proof[a] = None
  /\ startedAt'[a] \in Times /\ boundAt[a] <= startedAt'[a] /\ startedAt'[a] <= lastAt'
  /\ blockOf'[a] = blockOf[a] /\ preparedAt'[a] = preparedAt[a] /\ boundAt'[a] = boundAt[a]
  /\ stoppedAt'[a] = stoppedAt[a] /\ proof'[a] = proof[a] /\ container'[a] = container[a]

Dies(a) ==
  /\ blockOf[a] # None /\ (container[a] = None \/ container'[a] = container[a])
  /\ stoppedAt'[a] \in Times /\ Floor(a) <= stoppedAt'[a] /\ stoppedAt'[a] <= lastAt'
  /\ proof'[a] # None
  /\ blockOf'[a] = blockOf[a] /\ preparedAt'[a] = preparedAt[a]
  /\ boundAt'[a] = boundAt[a] /\ startedAt'[a] = startedAt[a]

Rests(a) ==
  /\ blockOf'[a] = blockOf[a] /\ preparedAt'[a] = preparedAt[a] /\ boundAt'[a] = boundAt[a]
  /\ startedAt'[a] = startedAt[a] /\ stoppedAt'[a] = stoppedAt[a] /\ proof'[a] = proof[a]
  /\ container'[a] = container[a]

Moves(a) == Rests(a) \/ Prepares(a) \/ Binds(a) \/ Starts(a) \/ Dies(a)

LEMMA ActivationMoves ==
  ASSUME TypeOK, NEW at \in Times, NEW b \in Blocks, NEW p, NEW pred, NEW number,
         Activate(b, p, pred, number, at), Stamp(at), UNCHANGED <<binding, death>>
  PROVE  \A a \in Attempts : Rests(a) \/ Prepares(a)
<1> SUFFICES ASSUME NEW a \in Attempts PROVE Rests(a) \/ Prepares(a)
  OBVIOUS
<1> DEFINE ids == {<<s, number[s]>> : s \in SlotsOf(p)}
<1>1. /\ blockOf'[a] = IF a \in ids THEN b ELSE blockOf[a]
      /\ preparedAt'[a] = IF a \in ids THEN at ELSE preparedAt[a]
      /\ a \in ids => blockOf[a] = None
  BY DEF Activate, CanActivate, Numbered
<1> HIDE DEF ids
<1>2. b # None
  BY NoneAssumption
<1> QED
  BY <1>1, <1>2 DEF Rests, Prepares, Stamp, binding, death

LEMMA BurialMoves ==
  ASSUME TypeOK, NEW at \in Times, NEW a \in Known, NEW r \in StopRecords,
         Dead(a, r.proof, r.container, r.at, at), Bury(a, r.proof, r.container, r.at),
         Stamp(at), UNCHANGED <<intents, binding>>
  PROVE  \A o \in Attempts : Rests(o) \/ Dies(o)
<1>1. a \in Attempts /\ blockOf[a] # None
  BY DEF Known
<1>2. Dies(a)
  BY <1>1, StopRecordType
     DEF Dead, SameContainer, Bury, Stamp, Dies, TypeOK, intents, binding
<1>3. \A o \in Attempts \ {a} : Rests(o)
  BY <1>1 DEF Bury, Rests, TypeOK, intents, binding
<1> QED
  BY <1>2, <1>3

\* Every step moves time on and each attempt by at most one of its instants.
LEMMA TimeFrame ==
  ASSUME TypeOK, [Next]_vars
  PROVE  lastAt <= lastAt' /\ \A a \in Attempts : Moves(a)
<1>0. Times \subseteq Nat /\ lastAt \in Times
  BY ConstantsAssumption DEF TypeOK
<1> DEFINE Same == UNCHANGED <<intents, binding, death>>
           On == lastAt <= lastAt'
           Fine == On /\ \A a \in Attempts : Moves(a)
<1>1. CASE On /\ Same
  BY <1>1 DEF Moves, Rests, intents, binding, death
<1>2. CASE UNCHANGED vars
  BY <1>0, <1>1, <1>2 DEF vars
<1>3. ASSUME NEW at \in Times, SessionStep(at) PROVE Fine
  <2>1. CASE \E s \in StartIds, stops \in [Known -> StopRecords] : TerminationVerified(s, stops, at)
    <3> PICK s \in StartIds, stops \in [Known -> StopRecords] : TerminationVerified(s, stops, at)
      BY <2>1
    <3>1. On /\ lastAt' = at
      BY DEF TerminationVerified, CanTerminate, Admissible, Stamp
    <3>2. ASSUME NEW a \in Attempts, a \in Known PROVE Dies(a)
      <4>1. stops[a] \in StopRecords
        BY <3>2
      <4>2. Dead(a, stops[a].proof, stops[a].container, stops[a].at, at)
        BY <3>2 DEF TerminationVerified, CanTerminate
      <4>3. /\ container'[a] = stops[a].container /\ proof'[a] = stops[a].proof
            /\ stoppedAt'[a] = stops[a].at /\ UNCHANGED <<intents, binding>>
        BY <3>2 DEF TerminationVerified
      <4> QED
        BY <3>1, <3>2, <4>1, <4>2, <4>3, StopRecordType
           DEF Dead, SameContainer, Dies, Known, intents, binding
    <3>3. ASSUME NEW a \in Attempts, a \notin Known PROVE Rests(a)
      BY <3>3 DEF TerminationVerified, Rests, intents, binding
    <3> QED
      BY <3>1, <3>2, <3>3 DEF Moves
  <2>2. ASSUME Registered(at) PROVE On /\ Same
    BY <2>2 DEF Registered, Stamp
  <2>3. ASSUME NEW s, Started(s, at) PROVE On /\ Same
    BY <2>3 DEF Started, Admissible, Stamp
  <2>4. ASSUME NEW s, NEW proc, ControllerBound(s, proc, at) PROVE On /\ Same
    BY <2>4 DEF ControllerBound, Admissible, Stamp
  <2>5. ASSUME NEW outcome, Ended(outcome, at) PROVE On /\ Same
    BY <2>5 DEF Ended, CanEnd, Admissible, Stamp
  <2> QED
    BY <1>1, <1>3, <2>1, <2>2, <2>3, <2>4, <2>5 DEF SessionStep
<1>4. ASSUME NEW at \in Times, BlockStep(at) PROVE Fine
  <2>1. ASSUME NEW p \in Primaries, NEW number, BlockActivated(p, number, at) PROVE Fine
    <3>1. On /\ Activate(p, p, None, number, at) /\ Stamp(at) /\ UNCHANGED <<binding, death>>
      BY <2>1 DEF BlockActivated, CanBegin, Admissible, Stamp
    <3> QED
      BY <3>1, ActivationMoves DEF Moves, Blocks
  <2>2. ASSUME NEW p \in Primaries, NEW r \in Reserves, NEW cause, NEW number,
               BlockReplaced(p, r, cause, number, at)
        PROVE  Fine
    <3>1. On /\ Activate(r, p, selected[p], number, at) /\ Stamp(at) /\ UNCHANGED <<binding, death>>
      BY <2>2 DEF BlockReplaced, CanReplace, Admissible, Stamp
    <3> QED
      BY <3>1, ActivationMoves DEF Moves, Blocks
  <2>3. ASSUME NEW b, BlockValidated(b, at) PROVE On /\ Same
    BY <2>3 DEF BlockValidated, CanValidate, Admissible, Stamp
  <2>4. ASSUME NEW b, NEW cause, BlockInvalidated(b, cause, at) PROVE On /\ Same
    BY <2>4 DEF BlockInvalidated, CanInvalidate, Admissible, Stamp
  <2>5. ASSUME NEW p, NEW cause, BlockExhausted(p, cause, at) PROVE On /\ Same
    BY <2>5 DEF BlockExhausted, CanExhaust, Admissible, Stamp
  <2> QED
    BY <1>1, <1>4, <2>1, <2>2, <2>3, <2>4, <2>5 DEF BlockStep
<1>5. ASSUME NEW at \in Times, AttemptStep(at) PROVE Fine
  <2> PICK a \in Known :
        \/ \E c \in Containers : RuntimeBound(a, c, at)
        \/ \E t \in Times : RuntimeStarted(a, t, at)
        \/ \E r \in StopRecords :
             \/ \E o \in Observations, cause \in ValidityCauses \cup {None} :
                  AttemptObserved(a, o, cause, r.proof, r.container, r.at, at)
             \/ AccountingObserved(a, r.proof, r.container, r.at, at)
    BY <1>5 DEF AttemptStep
  <2>1. a \in Attempts /\ blockOf[a] # None
    BY DEF Known
  <2>2. ASSUME NEW c \in Containers, RuntimeBound(a, c, at) PROVE Fine
    <3>1. On /\ Binds(a)
      BY <2>1, <2>2, NoneAssumption
         DEF RuntimeBound, CanBind, Admissible, Stamp, Binds, Stopped, TypeOK, intents
    <3>2. \A o \in Attempts \ {a} : Rests(o)
      BY <2>1, <2>2 DEF RuntimeBound, Rests, TypeOK, intents
    <3> QED
      BY <3>1, <3>2 DEF Moves
  <2>3. ASSUME NEW t \in Times, RuntimeStarted(a, t, at) PROVE Fine
    <3>1. On /\ Starts(a)
      BY <2>1, <2>3 DEF RuntimeStarted, CanStart, Admissible, Stamp, Starts, Stopped, TypeOK,
         intents, death
    <3>2. \A o \in Attempts \ {a} : Rests(o)
      BY <2>1, <2>3 DEF RuntimeStarted, Rests, TypeOK, intents, death
    <3> QED
      BY <3>1, <3>2 DEF Moves
  <2>4. ASSUME NEW r \in StopRecords,
               \/ \E o \in Observations, cause \in ValidityCauses \cup {None} :
                    AttemptObserved(a, o, cause, r.proof, r.container, r.at, at)
               \/ AccountingObserved(a, r.proof, r.container, r.at, at)
        PROVE  Fine
    <3>1. /\ On /\ Dead(a, r.proof, r.container, r.at, at) /\ Bury(a, r.proof, r.container, r.at)
          /\ Stamp(at) /\ UNCHANGED <<intents, binding>>
      BY <2>4 DEF AttemptObserved, CanObserve, AccountingObserved, CanAccount, Admissible, Stamp
    <3> QED
      BY <3>1, BurialMoves DEF Moves
  <2> QED
    BY <2>2, <2>3, <2>4
<1> QED
  BY <1>2, <1>3, <1>4, <1>5 DEF Next

\* The instants of one attempt, with what says that none is overwritten.
Ordered(t, u) == t # None /\ u # None => t <= u

InLine(a) ==
  /\ blockOf[a] # None <=> preparedAt[a] # None
  /\ blockOf[a] = None => boundAt[a] = None /\ stoppedAt[a] = None
  /\ proof[a] # None <=> stoppedAt[a] # None
  /\ boundAt[a] # None => container[a] # None
  /\ startedAt[a] # None => boundAt[a] # None
  /\ Ordered(preparedAt[a], lastAt) /\ Ordered(boundAt[a], lastAt)
  /\ Ordered(startedAt[a], lastAt) /\ Ordered(stoppedAt[a], lastAt)
  /\ Ordered(preparedAt[a], boundAt[a]) /\ Ordered(boundAt[a], startedAt[a])
  /\ Ordered(preparedAt[a], stoppedAt[a]) /\ Ordered(boundAt[a], stoppedAt[a])
  /\ Ordered(startedAt[a], stoppedAt[a])

LinesInv == \A a \in Attempts : InLine(a)

LEMMA InLineKept ==
  ASSUME TypeOK, TypeOK', NEW a \in Attempts, InLine(a), Moves(a), lastAt <= lastAt'
  PROVE  InLine(a)'
<1>1. Times \subseteq Nat /\ None \notin Nat
  BY ConstantsAssumption, NoneAssumption
<1>2. /\ preparedAt[a] \in Nat \cup {None} /\ boundAt[a] \in Nat \cup {None}
      /\ startedAt[a] \in Nat \cup {None} /\ stoppedAt[a] \in Nat \cup {None}
      /\ preparedAt'[a] \in Nat \cup {None} /\ boundAt'[a] \in Nat \cup {None}
      /\ startedAt'[a] \in Nat \cup {None} /\ stoppedAt'[a] \in Nat \cup {None}
      /\ lastAt \in Nat /\ lastAt' \in Nat
  BY <1>1 DEF TypeOK
<1>3. CASE Rests(a)
  BY <1>1, <1>2, <1>3 DEF Rests, InLine, Ordered
<1>4. CASE Prepares(a)
  BY <1>1, <1>2, <1>4 DEF Prepares, InLine, Ordered
<1>5. CASE Binds(a)
  BY <1>1, <1>2, <1>5 DEF Binds, InLine, Ordered
<1>6. CASE Starts(a)
  BY <1>1, <1>2, <1>6 DEF Starts, InLine, Ordered
<1>7. CASE Dies(a)
  <2>1. /\ Floor(a) \in Nat /\ preparedAt[a] # None
        /\ Ordered(preparedAt[a], Floor(a)) /\ Ordered(boundAt[a], Floor(a))
        /\ Ordered(startedAt[a], Floor(a))
    BY <1>1, <1>2, <1>7 DEF Dies, Floor, InLine, Ordered
  <2>2. /\ Floor(a) <= stoppedAt'[a] /\ stoppedAt'[a] <= lastAt' /\ stoppedAt'[a] \in Nat
        /\ blockOf[a] # None /\ proof'[a] # None
        /\ (container[a] = None \/ container'[a] = container[a])
        /\ blockOf'[a] = blockOf[a] /\ preparedAt'[a] = preparedAt[a]
        /\ boundAt'[a] = boundAt[a] /\ startedAt'[a] = startedAt[a]
    BY <1>1, <1>7 DEF Dies
  <2> QED
    BY <1>1, <1>2, <2>1, <2>2 DEF InLine, Ordered
<1> QED
  BY <1>3, <1>4, <1>5, <1>6, <1>7 DEF Moves

\* TimesOrdered: whatever a worker skipped (a binding, a start) and however often its
\* death was told, its recorded instants are in the order of its life and none is
\* later than the journal's last transition (execution-state.ts, death and the guards
\* of attempt.runtime_bound and attempt.runtime_started).
THEOREM InstantsOrdered == Spec => []TimesOrdered
<1>1. Init => LinesInv
  BY DEF Init, LinesInv, InLine, Ordered
<1>2. TypeOK /\ TypeOK' /\ LinesInv /\ [Next]_vars => LinesInv'
  BY TimeFrame, InLineKept DEF LinesInv
<1>3. LinesInv => TimesOrdered
  BY DEF LinesInv, InLine, Ordered, TimesOrdered, Known
<1> QED
  BY <1>1, <1>2, <1>3, TypeCorrect, PTL DEF Spec

----
(* The replay policy implements the promise of WorkerLedger: every transition the *)
(* fold accepts is one of the ledger's steps or changes nothing the ledger sees.   *)

StartStep ==
  \E at \in Times, a \in Known, t \in Times : RuntimeStarted(a, t, at)

\* A burial is one attempt's, and touches neither its binding nor its block.
LoneBurialStep == BurialStep /\ UNCHANGED <<intents, binding>>

\* Who changes an attempt's block, binding or container.
LEMMA LifeFrame ==
  ASSUME [Next]_vars
  PROVE  \/ UNCHANGED <<intents, binding, death>>
         \/ ActivationStep \/ ReplacementStep
         \/ BindingStep \/ StartStep \/ LoneBurialStep \/ InventoryStep
<1> DEFINE Same == UNCHANGED <<intents, binding, death>>
           Frame == \/ Same \/ ActivationStep \/ ReplacementStep
                    \/ BindingStep \/ StartStep \/ LoneBurialStep \/ InventoryStep
<1>1. CASE UNCHANGED vars
  BY <1>1 DEF vars
<1>2. ASSUME NEW at \in Times, SessionStep(at) PROVE Frame
  <2>1. \A s, proc, outcome : Registered(at) \/ Started(s, at) \/ ControllerBound(s, proc, at)
                                \/ Ended(outcome, at) => Same
    BY DEF Registered, Started, ControllerBound, Ended
  <2> HIDE DEF Same
  <2> QED
    BY <1>2, <2>1 DEF SessionStep, InventoryStep
<1>3. ASSUME NEW at \in Times, BlockStep(at) PROVE Frame
  <2>1. \A b, p, cause : BlockValidated(b, at) \/ BlockInvalidated(b, cause, at)
                           \/ BlockExhausted(p, cause, at) => Same
    BY DEF BlockValidated, BlockInvalidated, BlockExhausted
  <2> HIDE DEF Same
  <2> QED
    BY <1>3, <2>1 DEF BlockStep, ActivationStep, ReplacementStep
<1>4. ASSUME NEW at \in Times, AttemptStep(at) PROVE Frame
  <2>1. ASSUME NEW a, NEW o, NEW cause, NEW p, NEW c, NEW t,
               AttemptObserved(a, o, cause, p, c, t, at)
        PROVE  Dead(a, p, c, t, at) /\ Bury(a, p, c, t) /\ UNCHANGED <<intents, binding>>
    BY <2>1 DEF AttemptObserved, CanObserve
  <2>2. ASSUME NEW a, NEW p, NEW c, NEW t, AccountingObserved(a, p, c, t, at)
        PROVE  Dead(a, p, c, t, at) /\ Bury(a, p, c, t) /\ UNCHANGED <<intents, binding>>
    BY <2>2 DEF AccountingObserved, CanAccount
  <2> HIDE DEF Same
  <2> QED
    BY <1>4, <2>1, <2>2 DEF AttemptStep, BindingStep, StartStep, LoneBurialStep, BurialStep
<1> QED
  BY <1>1, <1>2, <1>3, <1>4 DEF Next

\* What an attempt has at each point of its life.
LifeInv ==
  \A a \in Attempts :
    /\ blockOf[a] = None => /\ container[a] = None /\ boundAt[a] = None
                            /\ startedAt[a] = None /\ proof[a] = None
    /\ startedAt[a] # None => boundAt[a] # None
    /\ boundAt[a] # None => container[a] # None
    /\ ~Stopped(a) /\ boundAt[a] = None => container[a] = None

\* The attempts a plan step prepares were nobody's before it.
LEMMA Prepared ==
  ASSUME TypeOK, ActivationStep \/ ReplacementStep
  PROVE  /\ UNCHANGED <<binding, death>>
         /\ \E W \in SUBSET Attempts :
              /\ \A a \in W : blockOf[a] = None /\ blockOf'[a] # None
              /\ \A a \in Attempts \ W : blockOf'[a] = blockOf[a]
<1>1. ASSUME NEW at \in Times, NEW p \in Primaries, NEW b \in Blocks, NEW pred,
             NEW number \in [SlotsOf(p) -> 1..MaxAttempts], Activate(b, p, pred, number, at)
      PROVE  \E W \in SUBSET Attempts :
               /\ \A a \in W : blockOf[a] = None /\ blockOf'[a] # None
               /\ \A a \in Attempts \ W : blockOf'[a] = blockOf[a]
  <2> DEFINE ids == {<<s, number[s]>> : s \in SlotsOf(p)}
  <2>1. ids \in SUBSET Attempts
    BY DEF Attempts, SlotsOf
  <2>2. \A a \in ids : blockOf[a] = None
    BY <1>1 DEF Activate, CanActivate, Numbered
  <2>3. blockOf' = [a \in Attempts |-> IF a \in ids THEN b ELSE blockOf[a]]
    BY <1>1 DEF Activate
  <2> HIDE DEF ids
  <2> QED
    BY <2>1, <2>2, <2>3, NoneAssumption
<1>2. CASE ActivationStep
  <2> PICK at \in Times, p \in Primaries :
        \E number \in [SlotsOf(p) -> 1..MaxAttempts] : BlockActivated(p, number, at)
    BY <1>2 DEF ActivationStep
  <2> PICK number \in [SlotsOf(p) -> 1..MaxAttempts] : BlockActivated(p, number, at)
    OBVIOUS
  <2>1. p \in Blocks /\ Activate(p, p, None, number, at) /\ UNCHANGED <<binding, death>>
    BY DEF BlockActivated, Blocks
  <2> QED
    BY <1>1, <2>1
<1>3. CASE ReplacementStep
  <2> PICK at \in Times, p \in Primaries, r \in Reserves, cause \in ReplacementCauses :
        \E number \in [SlotsOf(p) -> 1..MaxAttempts] : BlockReplaced(p, r, cause, number, at)
    BY <1>3 DEF ReplacementStep
  <2> PICK number \in [SlotsOf(p) -> 1..MaxAttempts] : BlockReplaced(p, r, cause, number, at)
    OBVIOUS
  <2>1. r \in Blocks /\ Activate(r, p, selected[p], number, at) /\ UNCHANGED <<binding, death>>
    BY DEF BlockReplaced, Blocks
  <2> QED
    BY <1>1, <2>1
<1> QED
  BY <1>2, <1>3

LEMMA LifeStep ==
  ASSUME TypeOK, LifeInv, [Next]_vars
  PROVE  LifeInv'
<1>1. CASE UNCHANGED <<intents, binding, death>>
  BY <1>1 DEF LifeInv, Stopped, intents, binding, death
<1>2. CASE ActivationStep \/ ReplacementStep
  BY <1>2, Prepared DEF LifeInv, Stopped, binding, death
<1>3. CASE BindingStep
  <2> PICK at \in Times, a \in Known, c \in Containers : RuntimeBound(a, c, at)
    BY <1>3 DEF BindingStep
  <2>1. a \in Attempts /\ at # None /\ c # None
    BY ConstantsAssumption, NoneAssumption DEF Known
  <2> QED
    BY <2>1 DEF RuntimeBound, LifeInv, TypeOK, Stopped, Known, intents
<1>4. CASE StartStep
  <2> PICK at \in Times, a \in Known, t \in Times : RuntimeStarted(a, t, at)
    BY <1>4 DEF StartStep
  <2> QED
    BY DEF RuntimeStarted, CanStart, LifeInv, TypeOK, Stopped, Known, intents, death
<1>5. CASE LoneBurialStep
  <2> PICK at \in Times, a \in Known, r \in StopRecords :
        Dead(a, r.proof, r.container, r.at, at) /\ Bury(a, r.proof, r.container, r.at)
    BY <1>5 DEF LoneBurialStep, BurialStep
  <2>1. a \in Attempts /\ blockOf[a] # None /\ r.proof # None
    BY StopRecordType DEF Known
  <2> QED
    BY <1>5, <2>1 DEF Dead, SameContainer, Bury, LoneBurialStep, LifeInv, TypeOK, Stopped,
                      intents, binding
<1>6. CASE InventoryStep
  <2> PICK at \in Times, s \in StartIds :
        \E stops \in [Known -> StopRecords] : TerminationVerified(s, stops, at)
    BY <1>6 DEF InventoryStep
  <2> PICK stops \in [Known -> StopRecords] : TerminationVerified(s, stops, at)
    OBVIOUS
  <2>1. \A a \in Known : /\ stops[a].proof # None
                         /\ container[a] # None => stops[a].container = container[a]
    BY StopRecordType DEF TerminationVerified, CanTerminate, Dead, SameContainer
  <2> QED
    BY <2>1 DEF TerminationVerified, LifeInv, TypeOK, Stopped, Known, intents, binding
<1> QED
  BY <1>1, <1>2, <1>3, <1>4, <1>5, <1>6, LifeFrame

LEMMA LifeInvariant == Spec => []LifeInv
<1>1. Init => LifeInv
  BY DEF Init, LifeInv
<1> QED
  BY <1>1, LifeStep, TypeCorrect, PTL DEF Spec

\* The attempts a plan step prepares go from absent to prepared.
LEMMA RefinesPrepare ==
  ASSUME TypeOK, LifeInv, ActivationStep \/ ReplacementStep
  PROVE  Ledger!LedgerNext
<1> PICK W \in SUBSET Attempts :
      /\ UNCHANGED <<binding, death>>
      /\ \A a \in W : blockOf[a] = None /\ blockOf'[a] # None
      /\ \A a \in Attempts \ W : blockOf'[a] = blockOf[a]
  BY Prepared
<1>1. \A a \in W : Phase(a) = "absent" /\ Phase(a)' = "prepared"
  BY DEF Phase, LifeInv, Stopped, binding, death
<1>2. \A a \in Attempts \ W : Phase(a)' = Phase(a)
  BY DEF Phase, Stopped, binding, death
<1>3. UNCHANGED container
  BY DEF death
<1>4. Ledger!Prepare(W)
  BY <1>1, <1>2, <1>3 DEF Ledger!Prepare
<1> QED
  BY <1>4 DEF Ledger!LedgerNext

LEMMA RefinesBind ==
  ASSUME TypeOK, LifeInv, BindingStep
  PROVE  Ledger!LedgerNext
<1> PICK at \in Times, a \in Known, c \in Containers : RuntimeBound(a, c, at)
  BY DEF BindingStep
<1>1. a \in Attempts /\ at # None /\ blockOf[a] # None
  BY ConstantsAssumption, NoneAssumption DEF Known
<1>2. Phase(a) = "prepared" /\ Phase(a)' = "bound"
  BY <1>1 DEF RuntimeBound, CanBind, Phase, LifeInv, TypeOK, Stopped, intents
<1>3. \A o \in Attempts \ {a} : Phase(o)' = Phase(o)
  BY <1>1 DEF RuntimeBound, Phase, TypeOK, Stopped, intents
<1>4. /\ \A o \in Attempts : container[o] # c
      /\ container' = [container EXCEPT ![a] = c]
  BY DEF RuntimeBound, CanBind
<1>5. Ledger!Bind(a, c)
  BY <1>1, <1>2, <1>3, <1>4 DEF Ledger!Bind
<1> QED
  BY <1>1, <1>5 DEF Ledger!LedgerNext

LEMMA RefinesRun ==
  ASSUME TypeOK, LifeInv, StartStep
  PROVE  Ledger!LedgerNext
<1> PICK at \in Times, a \in Known, t \in Times : RuntimeStarted(a, t, at)
  BY DEF StartStep
<1>1. a \in Attempts /\ t # None /\ blockOf[a] # None
  BY ConstantsAssumption, NoneAssumption DEF Known
<1>2. Phase(a) = "bound" /\ Phase(a)' = "running"
  BY <1>1 DEF RuntimeStarted, CanStart, Phase, TypeOK, Stopped, intents, death
<1>3. \A o \in Attempts \ {a} : Phase(o)' = Phase(o)
  BY <1>1 DEF RuntimeStarted, Phase, TypeOK, Stopped, intents, death
<1>4. UNCHANGED container
  BY DEF RuntimeStarted, death
<1>5. Ledger!Run(a)
  BY <1>1, <1>2, <1>3, <1>4 DEF Ledger!Run
<1> QED
  BY <1>1, <1>5 DEF Ledger!LedgerNext

\* What a proof of death may say of an attempt's container.
LEMMA DeathKeepsContainer ==
  ASSUME LifeInv, NEW a \in Attempts, NEW p, NEW c, NEW t, NEW at, Dead(a, p, c, t, at)
  PROVE  /\ Phase(a) # "absent"
         /\ Phase(a) # "prepared" => c = container[a]
         /\ c # None => \A o \in Attempts \ {a} : container[o] # c
  BY DEF Dead, Known, Phase, LifeInv, SameContainer, Unowned

LEMMA RefinesLoneDeath ==
  ASSUME TypeOK, LifeInv, LoneBurialStep
  PROVE  Ledger!LedgerNext
<1> PICK at \in Times, a \in Known, r \in StopRecords :
      Dead(a, r.proof, r.container, r.at, at) /\ Bury(a, r.proof, r.container, r.at)
  BY DEF LoneBurialStep, BurialStep
<1> DEFINE found == [x \in {a} |-> r.container]
<1>1. /\ a \in Attempts /\ blockOf[a] # None /\ r.proof # None
      /\ r.container \in Containers \cup {None}
  BY StopRecordType DEF Known
<1>2. /\ Phase(a) # "absent"
      /\ Phase(a) # "prepared" => found[a] = container[a]
      /\ found[a] # None => \A o \in Attempts \ {a} : container[o] # found[a]
  BY <1>1, DeathKeepsContainer
<1>3. Phase(a)' = "dead"
  BY <1>1 DEF Bury, Phase, Stopped, TypeOK, LoneBurialStep, intents
<1>4. \A o \in Attempts \ {a} : Phase(o)' = Phase(o)
  BY <1>1 DEF Bury, Phase, Stopped, TypeOK, LoneBurialStep, intents, binding
<1>5. container' = [x \in Attempts |-> IF x \in {a} THEN found[x] ELSE container[x]]
  BY <1>1 DEF Bury, TypeOK
<1>6. {a} \in SUBSET Attempts /\ found \in [{a} -> Containers \cup {None}]
  BY <1>1
<1> HIDE DEF found
<1>7. Ledger!Die({a}, found)
  BY <1>1, <1>2, <1>3, <1>4, <1>5 DEF Ledger!Die
<1> QED
  BY <1>6, <1>7 DEF Ledger!LedgerNext

LEMMA RefinesInventory ==
  ASSUME TypeOK, LifeInv, InventoryStep
  PROVE  Ledger!LedgerNext
<1> PICK at \in Times, s \in StartIds :
      \E stops \in [Known -> StopRecords] : TerminationVerified(s, stops, at)
  BY DEF InventoryStep
<1> PICK stops \in [Known -> StopRecords] : TerminationVerified(s, stops, at)
  OBVIOUS
<1> DEFINE found == [a \in Known |-> stops[a].container]
<1>1. \A a \in Known : /\ a \in Attempts /\ stops[a].proof # None
                       /\ stops[a].container \in Containers \cup {None}
                       /\ Dead(a, stops[a].proof, stops[a].container, stops[a].at, at)
  BY StopRecordType DEF TerminationVerified, CanTerminate, Known
<1>2. \A a \in Known :
        /\ Phase(a) # "absent"
        /\ Phase(a) # "prepared" => found[a] = container[a]
        /\ found[a] # None => \A o \in Attempts \ {a} : container[o] # found[a]
  BY <1>1, DeathKeepsContainer
<1>3. \A a, o \in Known : a # o /\ found[a] # None => found[a] # found[o]
  BY DEF TerminationVerified, CanTerminate
<1>4. \A a \in Known : Phase(a)' = "dead"
  BY <1>1 DEF TerminationVerified, Phase, Stopped, Known, intents
<1>5. \A a \in Attempts \ Known : Phase(a)' = "absent" /\ Phase(a) = "absent"
  BY DEF TerminationVerified, Phase, Known, intents
<1>6. container' = [x \in Attempts |-> IF x \in Known THEN found[x] ELSE container[x]]
  BY DEF TerminationVerified
<1>7. Known \in SUBSET Attempts /\ found \in [Known -> Containers \cup {None}]
  BY <1>1 DEF Known
<1> HIDE DEF found
<1>8. \A a \in Known : \A o \in Attempts \ {a} :
        found[a] # None => found[a] # (IF o \in Known THEN found[o] ELSE container[o])
  BY <1>2, <1>3
<1>9. Ledger!Die(Known, found)
  BY <1>2, <1>4, <1>5, <1>6, <1>7, <1>8 DEF Ledger!Die
<1> QED
  BY <1>7, <1>9 DEF Ledger!LedgerNext

LEMMA LedgerStep ==
  ASSUME TypeOK, LifeInv, [Next]_vars
  PROVE  [Ledger!LedgerNext]_<<[a \in Attempts |-> Phase(a)], container>>
<1>1. CASE UNCHANGED <<intents, binding, death>>
  <2>1. \A a \in Attempts : Phase(a)' = Phase(a)
    BY <1>1 DEF Phase, Stopped, intents, binding, death
  <2>2. UNCHANGED container
    BY <1>1 DEF death
  <2> QED
    BY <2>1, <2>2
<1> QED
  BY <1>1, LifeFrame, RefinesPrepare, RefinesBind, RefinesRun, RefinesLoneDeath,
     RefinesInventory

\* The replay policy implements WorkerLedger: whatever journal the fold
\* accepts, of a campaign of any size, a dead worker never binds or starts and
\* a container never changes hands (execution-state.ts 120-164, 435-475).
THEOREM LedgerImplemented == Spec => ImplementsLedger
<1>1. Init => Ledger!LedgerInit
  BY DEF Init, Ledger!LedgerInit, Phase
<1> QED
  BY <1>1, LedgerStep, TypeCorrect, LifeInvariant, PTL
     DEF Spec, ImplementsLedger, Ledger!LedgerSpec

----
(* What is reported of the journal. *)

\* What one finding is.
LEMMA FoundType ==
  ASSUME NEW e \in Found
  PROVE  /\ e.readable \subseteq Blocks
         /\ e = [left |-> e.left, readable |-> e.readable]
         /\ e.left \in [Attempts -> [valid : BOOLEAN, outcome : Results \cup {None},
                                     cost : Nat \cup {None}, exact : BOOLEAN,
                                     criterion : Results \cup {None}]]
  BY ReportAssumption

\* A finding that says the contrary differs in outcomes and criteria only.
LEMMA ContraryKeeps ==
  ASSUME NEW e \in Found, NEW a \in Attempts
  PROVE  LET f == ContraryFound(e) IN
         /\ f.readable = e.readable
         /\ f.left[a].valid = e.left[a].valid
         /\ f.left[a].cost = e.left[a].cost
         /\ f.left[a].exact = e.left[a].exact
         /\ [f.left[a] EXCEPT !.outcome = None, !.criterion = None]
              = [e.left[a] EXCEPT !.outcome = None, !.criterion = None]
<1>1. ContraryFound(e).readable = e.readable
  BY FoundType DEF ContraryFound
<1>2. ContraryFound(e).left[a]
        = [e.left[a] EXCEPT !.outcome = Other(e.left[a].outcome),
                            !.criterion = Other(e.left[a].criterion)]
  BY FoundType DEF ContraryFound
<1>3. e.left[a] \in [valid : BOOLEAN, outcome : Results \cup {None}, cost : Nat \cup {None},
                     exact : BOOLEAN, criterion : Results \cup {None}]
  BY FoundType
<1> QED
  BY <1>1, <1>2, <1>3

\* ... and an observation is there or not, whatever it says.
LEMMA ContraryThere ==
  ASSUME TypeOK, NEW a \in Attempts
  PROVE  (Contrary(observation)[a] = None) <=> (observation[a] = None)
<1>1. Contrary(observation)[a] = IF observation[a] = None THEN None
                                 ELSE [observation[a] EXCEPT !.outcome = Other(@)]
  BY DEF Contrary
<1>2. CASE observation[a] = None
  BY <1>1, <1>2
<1>3. CASE observation[a] # None
  <2>1. observation[a] \in Observations
    BY <1>3 DEF TypeOK
  <2>2. Other(observation[a].outcome) \in Results
    BY <2>1, ReportAssumption DEF Other, Results
  <2>3. [observation[a] EXCEPT !.outcome = Other(observation[a].outcome)] # None
    BY <2>1, <2>2, ReportAssumption
  <2> QED
    BY <1>1, <1>3, <2>3
<1> QED
  BY <1>2, <1>3

\* The report of a campaign that goes on reads of an observation only whether it
\* is there, and of a finding neither outcome nor criterion.
LEMMA HiddenWhileActive == TypeOK => BehaviorIsHidden
<1> SUFFICES ASSUME TypeOK, ended = None, NEW e \in Found
             PROVE  ReportOf(observation, e, FALSE)
                      = ReportOf(Contrary(observation), ContraryFound(e), FALSE)
  BY DEF BehaviorIsHidden
<1> DEFINE c == Contrary(observation)
           f == ContraryFound(e)
<1>1. \A a \in Attempts : (c[a] = None) <=> (observation[a] = None)
  BY ContraryThere
<1>2. \A a \in Attempts :
        /\ f.left[a].cost = e.left[a].cost /\ f.left[a].exact = e.left[a].exact
        /\ [f.left[a] EXCEPT !.outcome = None, !.criterion = None]
             = [e.left[a] EXCEPT !.outcome = None, !.criterion = None]
  BY ContraryKeeps
<1> HIDE DEF c, f
<1>3. \A a \in Attempts : Measured(f.left[a]) = Measured(e.left[a])
  BY <1>2 DEF Measured
<1>4. \A a \in Known : /\ ~Usable(a, observation, e, FALSE) /\ ~Usable(a, c, f, FALSE)
                       /\ Row(a, observation, e, FALSE) = Row(a, c, f, FALSE)
  <2> TAKE a \in Known
  <2>1. ~Usable(a, observation, e, FALSE) /\ ~Usable(a, c, f, FALSE)
    BY DEF Usable, SourceValid
  <2>2. a \in Attempts
    BY DEF Known
  <2>3. Usable(a, observation, e, FALSE) = FALSE /\ Usable(a, c, f, FALSE) = FALSE
    BY <2>1, Zenon DEF Usable, SourceValid
  <2>4. /\ Row(a, observation, e, FALSE)
             = [attempt |-> a, block |-> blockOf[a], selected |-> Chosen(a), accepted |-> None,
                usable |-> FALSE,
                evidence |-> [e.left[a] EXCEPT !.outcome = None, !.criterion = None]]
        /\ Row(a, c, f, FALSE)
             = [attempt |-> a, block |-> blockOf[a], selected |-> Chosen(a), accepted |-> None,
                usable |-> FALSE,
                evidence |-> [f.left[a] EXCEPT !.outcome = None, !.criterion = None]]
    BY <2>3 DEF Row
  <2>5. Row(a, observation, e, FALSE) = Row(a, c, f, FALSE)
    BY <1>2, <2>2, <2>4
  <2> QED
    BY <2>1, <2>5
<1>5. {Row(a, observation, e, FALSE) : a \in Known} = {Row(a, c, f, FALSE) : a \in Known}
  BY <1>4
<1>6. \A S \in SUBSET Attempts : Account(S, e) = Account(S, f)
  <2> TAKE S \in SUBSET Attempts
  <2>1. {a \in S : e.left[a].cost # None} = {a \in S : f.left[a].cost # None}
    BY <1>2
  <2>2. {a \in S : Measured(e.left[a]) # None} = {a \in S : Measured(f.left[a]) # None}
    BY <1>3
  <2>3. (\A a \in S : Measured(e.left[a]) # None) <=> (\A a \in S : Measured(f.left[a]) # None)
    BY <1>3
  <2>4. (\A a \in S : Measured(e.left[a]) # None) = (\A a \in S : Measured(f.left[a]) # None)
    BY <2>3
  <2> QED
    BY <2>1, <2>2, <2>4 DEF Account
<1>7. Accounting(observation, e, FALSE) = Accounting(c, f, FALSE)
  <2>1. Known \subseteq Attempts
    BY DEF Known
  <2>2. {a \in Known : observation[a] = None} = {a \in Known : c[a] = None}
    BY <1>1, <2>1
  <2>3. {a \in Known : ~Usable(a, observation, e, FALSE)} = {a \in Known : ~Usable(a, c, f, FALSE)}
    BY <1>4
  <2>4. \A S \in SUBSET Known : Account(S, e) = Account(S, f)
    BY <1>6, <2>1
  <2>5. /\ Account(Known, e) = Account(Known, f)
        /\ Account({a \in Known : ~Chosen(a)}, e) = Account({a \in Known : ~Chosen(a)}, f)
        /\ Account({a \in Known : observation[a] = None}, e)
             = Account({a \in Known : c[a] = None}, f)
        /\ Account({a \in Known : ~Usable(a, observation, e, FALSE)}, e)
             = Account({a \in Known : ~Usable(a, c, f, FALSE)}, f)
    BY <2>2, <2>3, <2>4
  <2> QED
    BY <2>5 DEF Accounting
<1>8. Comparisons(observation, e, FALSE) = Comparisons(c, f, FALSE)
  BY DEF Comparisons
<1>9. ReportOf(observation, e, FALSE) = ReportOf(c, f, FALSE)
  BY <1>5, <1>7, <1>8 DEF ReportOf
<1> QED
  BY <1>9 DEF c, f

\* What is valid is counted, and it is read where a finding is trimmed to the
\* counted attempts as it was.
LEMMA TrimmedSame ==
  ASSUME NEW e \in Found, NEW a \in Known
  PROVE  LET t == Trimmed(e, Counted(e)) IN
         /\ SourceValid(a, observation, e, TRUE) => a \in Counted(e)
         /\ a \in Counted(e) => t.left[a] = e.left[a]
         /\ SourceValid(a, observation, t, TRUE) <=> SourceValid(a, observation, e, TRUE)
         /\ Usable(a, observation, t, TRUE) <=> Usable(a, observation, e, TRUE)
<1> DEFINE t == Trimmed(e, Counted(e))
<1>1. a \in Attempts
  BY DEF Known
<1>2. /\ t.readable = e.readable
      /\ t.left[a] = IF a \in Counted(e) THEN e.left[a] ELSE Missing
  BY <1>1, FoundType DEF Trimmed
<1>3. SourceValid(a, observation, e, TRUE) => a \in Counted(e)
  BY DEF SourceValid, Counted, Chosen, ValidityAvailable
<1>4. ~Missing.valid
  BY DEF Missing
<1> HIDE DEF t
<1>5. SourceValid(a, observation, t, TRUE) <=> SourceValid(a, observation, e, TRUE)
  <2>1. CASE a \in Counted(e)
    BY <1>2, <2>1 DEF SourceValid, ValidityAvailable
  <2>2. CASE a \notin Counted(e)
    BY <1>2, <1>3, <1>4, <2>2 DEF SourceValid
  <2> QED
    BY <2>1, <2>2
<1>6. Usable(a, observation, t, TRUE) <=> Usable(a, observation, e, TRUE)
  BY <1>2, <1>3, <1>5 DEF Usable, Supported
<1> QED
  BY <1>2, <1>3, <1>5, <1>6 DEF t

\* Comparisons read a finding at measured attempts only.
LEMMA TrimmedCompares ==
  ASSUME NEW e \in Found
  PROVE  LET t == Trimmed(e, Counted(e))
             U == AllUsable(observation, e)
             M == AllMeasured(observation, e) IN
         /\ AllUsable(observation, t) = U
         /\ AllMeasured(observation, t) = M
         /\ \A s \in Samples : /\ Quantity(M, s, t) = Quantity(M, s, e)
                               /\ Criterion(M, s, t) = Criterion(M, s, e)
<1> DEFINE t == Trimmed(e, Counted(e))
           M == AllMeasured(observation, e)
<1>1. \A a \in Known :
        /\ SourceValid(a, observation, e, TRUE) => t.left[a] = e.left[a]
        /\ SourceValid(a, observation, t, TRUE) <=> SourceValid(a, observation, e, TRUE)
        /\ Usable(a, observation, t, TRUE) <=> Usable(a, observation, e, TRUE)
  BY TrimmedSame
<1> HIDE DEF t
<1>2. AllUsable(observation, t) = AllUsable(observation, e)
  BY <1>1 DEF AllUsable
<1>3. AllMeasured(observation, t) = M
  BY <1>1 DEF AllMeasured
<1>4. \A a \in M : t.left[a] = e.left[a]
  BY <1>1 DEF AllMeasured
<1> HIDE DEF M
<1>5. \A s \in Samples :
        Quantity(M, s, t) = Quantity(M, s, e) /\ Criterion(M, s, t) = Criterion(M, s, e)
  <2> TAKE s \in Samples
  <2>1. CASE OfSample(M, s) = {}
    BY <2>1 DEF Quantity, Criterion
  <2>2. CASE OfSample(M, s) # {}
    <3>1. OnlyOf(M, s) \in OfSample(M, s)
      BY <2>2 DEF OnlyOf
    <3>2. t.left[OnlyOf(M, s)] = e.left[OnlyOf(M, s)]
      BY <1>4, <3>1 DEF OfSample
    <3> QED
      BY <3>2 DEF Quantity, Criterion
  <2> QED
    BY <2>1, <2>2
<1> QED
  BY <1>2, <1>3, <1>5 DEF t, M

\* Whatever the attempts of other blocks left, no comparison of the report changes
\* (foldComparisonReport, report.ts 337-406), in any state of a journal.
THEOREM ComparisonsAreOfSelected ==
  ASSUME NEW e \in Found
  PROVE  Comparisons(observation, Trimmed(e, Counted(e)), TRUE) = Comparisons(observation, e, TRUE)
<1> DEFINE t == Trimmed(e, Counted(e))
           U == AllUsable(observation, e)
           M == AllMeasured(observation, e)
<1>1. AllUsable(observation, t) = U /\ AllMeasured(observation, t) = M
  BY TrimmedCompares
<1>2. \A s \in Samples :
        Quantity(M, s, t) = Quantity(M, s, e) /\ Criterion(M, s, t) = Criterion(M, s, e)
  BY TrimmedCompares
<1>3. \A p : SlotsOf(p) \subseteq Samples
  BY DEF SlotsOf
<1> HIDE DEF t, U, M
<1>4. \A arm : ArmOf(arm, U, M, observation, t) = ArmOf(arm, U, M, observation, e)
  <2> TAKE arm
  <2>1. Of(arm) \subseteq Samples
    BY DEF Of
  <2>2. /\ {<<s, Criterion(M, s, t)>> : s \in Of(arm)} = {<<s, Criterion(M, s, e)>> : s \in Of(arm)}
        /\ {s \in Of(arm) : Quantity(M, s, t) # None} = {s \in Of(arm) : Quantity(M, s, e) # None}
    BY <1>2, <2>1
  <2> QED
    BY <2>2 DEF ArmOf
<1>5. {p \in CohortOf(M) : \A s \in SlotsOf(p) : Quantity(M, s, t) # None}
        = {p \in CohortOf(M) : \A s \in SlotsOf(p) : Quantity(M, s, e) # None}
  BY <1>2, <1>3
<1>6. {ArmOf(arm, U, M, observation, t) : arm \in Arms}
        = {ArmOf(arm, U, M, observation, e) : arm \in Arms}
  BY <1>4
<1>7. ComparisonsOf(U, M, observation, t) = ComparisonsOf(U, M, observation, e)
  BY <1>5, <1>6 DEF ComparisonsOf
<1> QED
  BY <1>1, <1>7 DEF Comparisons, t, U, M

LEMMA SelectedOnly == OnlyTheSelectedCount
  BY TrimmedCompares DEF OnlyTheSelectedCount

\* Two parts that share nothing count what their union does, and so do four.
LEMMA TwoParts ==
  ASSUME NEW A, NEW B, IsFiniteSet(A), IsFiniteSet(B), A \cap B = {}
  PROVE  IsFiniteSet(A \cup B) /\ Cardinality(A \cup B) = Cardinality(A) + Cardinality(B)
<1>1. /\ IsFiniteSet(A \cup B)
      /\ Cardinality(A \cup B) = Cardinality(A) + Cardinality(B) - Cardinality(A \cap B)
  BY FS_Union
<1>2. Cardinality(A \cap B) = 0
  BY FS_EmptySet
<1>3. Cardinality(A) \in Nat /\ Cardinality(B) \in Nat
  BY FS_CardinalityType
<1>4. \A i, j \in Nat : i + j - 0 = i + j
  OBVIOUS
<1>5. Cardinality(A) + Cardinality(B) - 0 = Cardinality(A) + Cardinality(B)
  BY <1>3, <1>4
<1>6. Cardinality(A \cup B) = Cardinality(A) + Cardinality(B)
  BY <1>1, <1>2, <1>5, Zenon
<1> QED
  BY <1>1, <1>6

LEMMA FourParts ==
  ASSUME NEW S, IsFiniteSet(S), NEW A \in SUBSET S, NEW B \in SUBSET S, NEW C \in SUBSET S,
         NEW D \in SUBSET S, S = A \cup B \cup C \cup D,
         A \cap B = {}, A \cap C = {}, A \cap D = {}, B \cap C = {}, B \cap D = {}, C \cap D = {}
  PROVE  Cardinality(A) + Cardinality(B) + Cardinality(C) + Cardinality(D) = Cardinality(S)
<1>1. IsFiniteSet(A) /\ IsFiniteSet(B) /\ IsFiniteSet(C) /\ IsFiniteSet(D)
  BY FS_Subset
<1>2. IsFiniteSet(A \cup B) /\ Cardinality(A \cup B) = Cardinality(A) + Cardinality(B)
  BY <1>1, TwoParts
<1>3. (A \cup B) \cap C = {} /\ ((A \cup B) \cup C) \cap D = {} /\ ((A \cup B) \cup C) \cup D = S
  OBVIOUS
<1>4. /\ IsFiniteSet((A \cup B) \cup C)
      /\ Cardinality((A \cup B) \cup C) = Cardinality(A \cup B) + Cardinality(C)
  BY <1>1, <1>2, <1>3, TwoParts
<1>5. Cardinality(((A \cup B) \cup C) \cup D) = Cardinality((A \cup B) \cup C) + Cardinality(D)
  BY <1>1, <1>3, <1>4, TwoParts
<1> QED
  BY <1>2, <1>3, <1>4, <1>5, Zenon

\* A sample is measured at most once: at its attempt in the selected block.
LEMMA MeasuredOnce ==
  ASSUME PlanInv, NEW a \in Known, NEW o \in Known, Chosen(a), Chosen(o), Sample(a) = Sample(o)
  PROVE  a = o
<1> DEFINE p == PrimaryOf[Sample(a)]
<1>1. Sample(a) \in Samples /\ p \in Primaries
  BY ConstantsAssumption DEF Known, Attempts, Sample
<1>2. selected[p] # None /\ a \in Members(selected[p]) /\ o \in Members(selected[p])
  BY DEF Chosen, Known, Members
<1>3. selected[p] \in Activated
  BY <1>1, <1>2 DEF PlanInv
<1>4. PICK n \in 1..MaxAttempts :
        Members(selected[p]) = {<<s, n>> : s \in SlotsOf(blockPrimary[selected[p]])}
  BY <1>3 DEF PlanInv, BlocksAreWhole
<1> QED
  BY <1>2, <1>4 DEF Sample

\* Of the results of an arm each sample has exactly one, or none.
LEMMA ArmIsWhole ==
  ASSUME TypeOK, PlanInv, NEW e \in Found, NEW arm, NEW M
  PROVE  LET r == ArmOf(arm, AllUsable(observation, e), M, observation, e) IN
         Cardinality(r.pass) + Cardinality(r.fail) + Cardinality(r.indeterminate)
           + Cardinality(r.none) = r.denominator
<1> DEFINE U == AllUsable(observation, e)
           with(x) == {s \in Of(arm) : \E a \in OfSample(U, s) : observation[a].outcome = x}
           none == {s \in Of(arm) : OfSample(U, s) = {}}
<1>1. \A s \in Samples : \A a, o \in OfSample(U, s) : a = o
  <2> TAKE s \in Samples
  <2> TAKE a, o \in OfSample(U, s)
  <2>1. /\ a \in Known /\ o \in Known /\ Chosen(a) /\ Chosen(o)
        /\ Sample(a) = Sample(o)
    BY DEF OfSample, AllUsable, Usable, SourceValid
  <2> QED
    BY <2>1, MeasuredOnce
<1>2. \A a \in U : observation[a].outcome \in Results
  <2> TAKE a \in U
  <2>1. a \in Attempts /\ observation[a] # None
    BY DEF AllUsable, Usable, Supported, Known
  <2>2. observation[a] \in Observations
    BY <2>1 DEF TypeOK
  <2> QED
    BY <2>2, ReportAssumption
<1>3. IsFiniteSet(Of(arm))
  BY FS_Subset, ReportAssumption DEF Of
<1>4. Of(arm) \subseteq Samples
  BY DEF Of
<1> HIDE DEF U
<1>5. \A s : OfSample(U, s) \subseteq U
  BY DEF OfSample
<1>6. /\ with("pass") \cap with("fail") = {} /\ with("pass") \cap with("indeterminate") = {}
      /\ with("fail") \cap with("indeterminate") = {}
  BY <1>1, <1>4
<1>7. \A x : with(x) \cap none = {}
  OBVIOUS
<1>8. Of(arm) = with("pass") \cup with("fail") \cup with("indeterminate") \cup none
  <2> SUFFICES ASSUME NEW s \in Of(arm), s \notin none
               PROVE  s \in with("pass") \cup with("fail") \cup with("indeterminate")
    OBVIOUS
  <2>1. PICK a \in OfSample(U, s) : TRUE
    OBVIOUS
  <2>2. observation[a].outcome \in Results
    BY <1>2, <1>5
  <2> QED
    BY <2>1, <2>2 DEF Results
<1>9. /\ with("pass") \in SUBSET Of(arm) /\ with("fail") \in SUBSET Of(arm)
      /\ with("indeterminate") \in SUBSET Of(arm) /\ none \in SUBSET Of(arm)
  OBVIOUS
<1>10. LET r == ArmOf(arm, U, M, observation, e) IN
       /\ r.pass = with("pass") /\ r.fail = with("fail")
       /\ r.indeterminate = with("indeterminate") /\ r.none = none
       /\ r.denominator = Cardinality(Of(arm))
  BY DEF ArmOf
<1>11. /\ with("pass") \cap none = {} /\ with("fail") \cap none = {}
       /\ with("indeterminate") \cap none = {}
  BY <1>7
<1> HIDE DEF with, none
<1>12. Cardinality(with("pass")) + Cardinality(with("fail")) + Cardinality(with("indeterminate"))
         + Cardinality(none) = Cardinality(Of(arm))
  BY <1>3, <1>6, <1>8, <1>9, <1>11, FourParts
<1> QED
  BY <1>10, <1>12 DEF U

\* A complete report has both arms of every pair in one block, the selected one,
\* and a pair that was given up has none.
LEMMA CompleteIsWhole ==
  ASSUME TypeOK, PlanInv, ExhaustionIsFinal, NEW e \in Found,
         Whole(AllUsable(observation, e)), NEW p \in Primaries
  PROVE  exhausted[p] = None /\ p \in CohortOf(AllMeasured(observation, e))
<1> DEFINE U == AllUsable(observation, e)
           M == AllMeasured(observation, e)
<1>1. \A s \in SlotsOf(p) : \E a \in OfSample(M, s) :
        blockOf[a] = selected[p] /\ selected[p] \in Blocks /\ excluded[selected[p]] = None
  <2> TAKE s \in SlotsOf(p)
  <2>1. s \in Samples /\ PrimaryOf[s] = p
    BY DEF SlotsOf
  <2>2. PICK a \in OfSample(U, s) : TRUE
    BY <2>1 DEF Whole
  <2>3. a \in Known /\ Sample(a) = s /\ SourceValid(a, observation, e, TRUE)
    BY DEF OfSample, AllUsable, Usable
  <2>4. a \in OfSample(M, s)
    BY <2>3 DEF OfSample, AllMeasured
  <2>5. selected[p] = blockOf[a] /\ excluded[blockOf[a]] = None
    BY <2>1, <2>3 DEF SourceValid, Chosen
  <2>6. blockOf[a] \in Blocks
    BY <2>3 DEF Known, TypeOK
  <2> QED
    BY <2>4, <2>5, <2>6
<1>2. SlotsOf(p) # {}
  BY ConstantsAssumption
<1>3. selected[p] \in Blocks /\ excluded[selected[p]] = None
  BY <1>1, <1>2
<1>4. exhausted[p] = None
  BY <1>3 DEF ExhaustionIsFinal
<1> HIDE DEF M
<1>5. p \in CohortOf(M)
  BY <1>1, <1>3 DEF CohortOf
<1> QED
  BY <1>4, <1>5 DEF M

LEMMA WholeCounts == TypeOK /\ PlanInv /\ ExhaustionIsFinal => CountsAreWhole
  BY ArmIsWhole, CompleteIsWhole DEF CountsAreWhole

\* What a campaign's report says, whatever the attempts left: nothing of the results
\* while the campaign goes on, comparisons of selected, unexcluded, authenticated
\* blocks only, and counts that add up to the plan (foldComparisonReport, report.ts
\* 84-469).
THEOREM ReportIsHonestAlways == Spec => []ReportIsHonest
<1>1. TypeOK /\ PlanInv /\ ExhaustionIsFinal => ReportIsHonest
  BY HiddenWhileActive, SelectedOnly, WholeCounts DEF ReportIsHonest
<1> QED
  BY <1>1, TypeCorrect, PlanInvariant, ExhaustionHolds, PTL
====
