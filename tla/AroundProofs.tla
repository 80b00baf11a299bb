---- MODULE AroundProofs ----
(***************************************************************************)
(* What lies before and after a session is sound for any session, any      *)
(* suite and any logs: what a registration compiles is what its schema,    *)
(* its policy and a later start go by; what is captured of an attempt is   *)
(* its own, in order, and judged on what is there; the checks of its calls *)
(* and those of its files say what they mean; the score of its review is   *)
(* earned; and a scenario's run is judged when its checks answered, one    *)
(* for one, what was declared.                                             *)
(*                                                                         *)
(* Most of it is about data: that places, cells and slots have ids of      *)
(* their own and are as many as was declared, that a sorted set has each   *)
(* member at one place, and that what holds up to a row holds up to the    *)
(* next.                                                                   *)
(***************************************************************************)
EXTENDS Compilation, Capture, TraceChecks, BrainstormingReview, Checks, WorkChecks,
  SequenceTheorems, FiniteSetTheorems, WellFoundedInduction, TLAPS

(* What is compiled. *)

\* A comparison has finitely many arms and natural sizes, whether it stands in the suite or
\* was made of a template and a pair.
LEMMA ComparisonsAreTyped ==
  ASSUME NEW i \in Inputs, NEW k \in DOMAIN Comparisons(i)
  PROVE  /\ IsFiniteSet(Elements(Comparisons(i)[k].arms))
         /\ Comparisons(i)[k].n \in Nat
         /\ \A s \in DOMAIN Comparisons(i)[k].cells : Comparisons(i)[k].cells[s] \in Nat
<1> DEFINE L == Len(i.comparisons)
           P == Len(i.pairs)
<1>1. i.comparisons \in Seq(Elements(i.comparisons)) /\ i.pairs \in Seq(Elements(i.pairs))
  BY CompilationAssumption
<1>2. L \in Nat /\ P \in Nat /\ DOMAIN i.comparisons = 1 .. L
  BY <1>1
<1>3. \A c \in Elements(i.comparisons) :
        IsFiniteSet(Elements(c.arms)) /\ c.n \in Nat /\ \A s \in DOMAIN c.cells : c.cells[s] \in Nat
  BY CompilationAssumption
<1>4. CASE i.pairs = <<>>
  <2>1. Comparisons(i) = i.comparisons
    BY <1>4 DEF Comparisons, Materialized
  <2>2. Comparisons(i)[k] \in Elements(i.comparisons)
    BY <2>1 DEF Elements
  <2> QED
    BY <1>3, <2>2
<1>5. CASE i.pairs # <<>>
  <2> DEFINE c == i.comparisons[1 + ((k - 1) % L)]
             p == i.pairs[1 + ((k - 1) \div L)]
  <2>1. k \in 1 .. P * L
    BY <1>5 DEF Comparisons, Materialized
  <2>2. Comparisons(i)[k] = [arms |-> <<p.baseline, p.candidate>>, tier |-> c.tier,
                             scenarios |-> c.scenarios, n |-> c.n, cells |-> c.cells]
    BY <1>5, <2>1 DEF Comparisons, Materialized
  <2>3. c \in Elements(i.comparisons)
    <3>1. L # 0 /\ k - 1 \in Nat
      <4> HIDE DEF L, P
      <4>1. L = 0 => P * L = 0
        BY <1>2
      <4> QED
        BY <1>2, <2>1, <4>1
    <3>2. (k - 1) % L \in 0 .. L - 1
      <4> HIDE DEF L
      <4> QED
        BY <1>2, <3>1
    <3>3. 1 + ((k - 1) % L) \in 1 .. L
      <4> HIDE DEF L
      <4> QED
        BY <1>2, <3>2
    <3> HIDE DEF L
    <3> QED
      BY <1>2, <3>3 DEF Elements
  <2>4. IsFiniteSet(Elements(<<p.baseline, p.candidate>>))
    <3>1. Elements(<<p.baseline, p.candidate>>) = {p.baseline, p.candidate}
      <4> HIDE DEF p
      <4> QED
        BY DEF Elements
    <3>2. IsFiniteSet({p.baseline} \cup {p.candidate})
      BY FS_Singleton, FS_Union
    <3>3. {p.baseline} \cup {p.candidate} = {p.baseline, p.candidate}
      OBVIOUS
    <3> QED
      BY <3>1, <3>2, <3>3
  <2> HIDE DEF c, p
  <2> QED
    BY <1>3, <2>2, <2>3, <2>4
<1> QED
  BY <1>4, <1>5

\* A cell is what its place declares.
LEMMA CellIs ==
  ASSUME NEW i \in Inputs, NEW c \in Cells(i)
  PROVE  /\ c.at \in Places(i) /\ Eligible(i, ScenarioAt(i, c.at), ArmsAt(i, c.at))
         /\ c = [at |-> c.at, id |-> <<c.at[1], ScenarioAt(i, c.at)>>, arms |-> ArmsAt(i, c.at),
                 n |-> SizeOf(Comparisons(i)[c.at[1]], ScenarioAt(i, c.at))]
<1>1. PICK at \in {x \in Places(i) : Eligible(i, ScenarioAt(i, x), ArmsAt(i, x))} :
        c = [at |-> at, id |-> <<at[1], ScenarioAt(i, at)>>, arms |-> ArmsAt(i, at),
             n |-> SizeOf(Comparisons(i)[at[1]], ScenarioAt(i, at))]
  BY DEF Cells
<1>2. c.at = at
  BY <1>1
<1> QED
  BY <1>1, <1>2

\* A place is a comparison and a position in what it selects.
LEMMA PlaceIs ==
  ASSUME NEW i, NEW at \in Places(i)
  PROVE  /\ at = <<at[1], at[2]>>
         /\ at[1] \in DOMAIN Comparisons(i) /\ at[2] \in DOMAIN Selected(i, Comparisons(i)[at[1]])
         /\ ScenarioAt(i, at) = Selected(i, Comparisons(i)[at[1]])[at[2]]
         /\ ArmsAt(i, at) = Elements(Comparisons(i)[at[1]].arms)
<1>1. PICK k \in DOMAIN Comparisons(i) :
        at \in {<<k, j>> : j \in DOMAIN Selected(i, Comparisons(i)[k])}
  BY DEF Places
<1>2. PICK j \in DOMAIN Selected(i, Comparisons(i)[k]) : at = <<k, j>>
  BY <1>1
<1> QED
  BY <1>2 DEF ScenarioAt, ArmsAt

\* A cell's arms are finitely many, and so are its samples.
LEMMA CellIsTyped ==
  ASSUME NEW i \in Inputs, NEW c \in Cells(i)
  PROVE  IsFiniteSet(c.arms) /\ c.n \in Nat /\ c.id = <<c.at[1], ScenarioAt(i, c.at)>>
         /\ c.arms = ArmsAt(i, c.at) /\ c.n = SizeOf(Comparisons(i)[c.at[1]], ScenarioAt(i, c.at))
<1>1. /\ c.at \in Places(i)
      /\ c.arms = ArmsAt(i, c.at) /\ c.n = SizeOf(Comparisons(i)[c.at[1]], ScenarioAt(i, c.at))
      /\ c.id = <<c.at[1], ScenarioAt(i, c.at)>>
  BY CellIs
<1>2. c.at[1] \in DOMAIN Comparisons(i) /\ ArmsAt(i, c.at) = Elements(Comparisons(i)[c.at[1]].arms)
  BY <1>1, PlaceIs
<1> QED
  BY <1>1, <1>2, ComparisonsAreTyped DEF SizeOf

\* Unless a selector names a scenario twice, a name stands for one place.
LEMMA PlacesAreDistinct ==
  ASSUME NEW i \in Inputs, ~Repeats(i), NEW x \in Places(i), NEW y \in Places(i),
         x[1] = y[1], ScenarioAt(i, x) = ScenarioAt(i, y)
  PROVE  x = y
<1>1. /\ x = <<x[1], x[2]>> /\ y = <<y[1], y[2]>> /\ x[1] \in DOMAIN Comparisons(i)
      /\ x[2] \in DOMAIN Selected(i, Comparisons(i)[x[1]])
      /\ y[2] \in DOMAIN Selected(i, Comparisons(i)[x[1]])
      /\ Selected(i, Comparisons(i)[x[1]])[x[2]] = Selected(i, Comparisons(i)[x[1]])[y[2]]
  BY PlaceIs
<1>2. Comparisons(i)[x[1]] \in Elements(Comparisons(i))
  BY <1>1 DEF Elements
<1>3. x[2] = y[2]
  BY <1>1, <1>2 DEF Repeats
<1> QED
  BY <1>1, <1>3

\* No two cells have one id.
LEMMA CellsAreDistinct ==
  ASSUME NEW i \in Inputs, ~Repeats(i), NEW c \in Cells(i), NEW d \in Cells(i), c.id = d.id
  PROVE  c = d
<1>1. c.at \in Places(i) /\ d.at \in Places(i)
  BY CellIs
<1>2. c.at[1] = d.at[1] /\ ScenarioAt(i, c.at) = ScenarioAt(i, d.at)
  BY CellIsTyped
<1>3. c.at = d.at
  BY <1>1, <1>2, PlacesAreDistinct
<1> QED
  BY <1>3, CellIs

\* Every name of a comparison is a cell or excluded, and not both.
LEMMA InventoryOfPlan ==
  ASSUME NEW i \in Inputs, ~Repeats(i)
  PROVE  InventoryFits(i, Experiment(i))
<1> SUFFICES ASSUME NEW k \in DOMAIN Comparisons(i)
             PROVE
               LET names == Selected(i, Comparisons(i)[k]) IN
               /\ \A j, l \in DOMAIN names : names[j] = names[l] => j = l
               /\ \A s \in Elements(names) :
                    (\E c \in Cells(i) : c.id = <<k, s>>) <=> ~(\E x \in Excluded(i) : x.id = <<k, s>>)
               /\ \A c \in Cells(i) :
                    c.id[1] = k =>
                      /\ c.id[2] \in Elements(names) /\ c.arms = Elements(Comparisons(i)[k].arms)
                      /\ c.n = (IF c.id[2] \in DOMAIN Comparisons(i)[k].cells
                                THEN Comparisons(i)[k].cells[c.id[2]] ELSE Comparisons(i)[k].n)
  BY DEF InventoryFits, Experiment
<1> DEFINE names == Selected(i, Comparisons(i)[k])
           fits(x) == Eligible(i, ScenarioAt(i, x), ArmsAt(i, x))
<1>1. \A j, l \in DOMAIN names : names[j] = names[l] => j = l
  <2>1. Comparisons(i)[k] \in Elements(Comparisons(i))
    BY DEF Elements
  <2> QED
    BY <2>1 DEF Repeats
<1>2. ASSUME NEW s \in Elements(names)
      PROVE  (\E c \in Cells(i) : c.id = <<k, s>>) <=> ~(\E x \in Excluded(i) : x.id = <<k, s>>)
  <2>1. PICK j \in DOMAIN names : s = names[j]
    BY DEF Elements
  <2> DEFINE at == <<k, j>>
  <2>2. at \in Places(i)
    BY DEF Places
  <2>3. ScenarioAt(i, at) = s
    BY <2>1 DEF ScenarioAt
  <2>4. ASSUME NEW x \in Places(i), x[1] = k, ScenarioAt(i, x) = s PROVE x = at
    <3>1. x[1] = at[1] /\ ScenarioAt(i, x) = ScenarioAt(i, at)
      BY <2>3, <2>4
    <3> HIDE DEF at
    <3> QED
      BY <2>2, <2>4, <3>1, PlacesAreDistinct
  <2>5. (\E c \in Cells(i) : c.id = <<k, s>>) <=> fits(at)
    <3>1. ASSUME NEW c \in Cells(i), c.id = <<k, s>> PROVE fits(at)
      <4>1. c.at \in Places(i) /\ fits(c.at) /\ c.id = <<c.at[1], ScenarioAt(i, c.at)>>
        BY CellIs, CellIsTyped
      <4>2. c.at = at
        BY <2>4, <3>1, <4>1
      <4> QED
        BY <4>1, <4>2
    <3>2. ASSUME fits(at) PROVE \E c \in Cells(i) : c.id = <<k, s>>
      <4> DEFINE c == [at |-> at, id |-> <<at[1], ScenarioAt(i, at)>>, arms |-> ArmsAt(i, at),
                       n |-> SizeOf(Comparisons(i)[at[1]], ScenarioAt(i, at))]
      <4>1. c \in Cells(i)
        BY <2>2, <3>2 DEF Cells
      <4>2. c.id = <<k, s>>
        BY <2>3
      <4> QED
        BY <4>1, <4>2
    <3> QED
      BY <3>1, <3>2
  <2>6. (\E x \in Excluded(i) : x.id = <<k, s>>) <=> ~fits(at)
    <3>1. ASSUME NEW x \in Excluded(i), x.id = <<k, s>> PROVE ~fits(at)
      <4>1. PICK y \in {z \in Places(i) : ~fits(z)} : x = [at |-> y, id |-> <<y[1], ScenarioAt(i, y)>>]
        BY DEF Excluded
      <4>2. y[1] = k /\ ScenarioAt(i, y) = s
        BY <3>1, <4>1
      <4>3. y = at
        BY <2>4, <4>1, <4>2
      <4> QED
        BY <4>1, <4>3
    <3>2. ASSUME ~fits(at) PROVE \E x \in Excluded(i) : x.id = <<k, s>>
      <4> DEFINE x == [at |-> at, id |-> <<at[1], ScenarioAt(i, at)>>]
      <4>1. x \in Excluded(i)
        BY <2>2, <3>2 DEF Excluded
      <4>2. x.id = <<k, s>>
        BY <2>3
      <4> QED
        BY <4>1, <4>2
    <3> QED
      BY <3>1, <3>2
  <2> HIDE DEF fits
  <2> QED
    BY <2>5, <2>6
<1>3. ASSUME NEW c \in Cells(i), c.id[1] = k
      PROVE  /\ c.id[2] \in Elements(names) /\ c.arms = Elements(Comparisons(i)[k].arms)
             /\ c.n = (IF c.id[2] \in DOMAIN Comparisons(i)[k].cells
                       THEN Comparisons(i)[k].cells[c.id[2]] ELSE Comparisons(i)[k].n)
  <2>1. /\ c.id = <<c.at[1], ScenarioAt(i, c.at)>> /\ c.arms = ArmsAt(i, c.at)
        /\ c.n = SizeOf(Comparisons(i)[c.at[1]], ScenarioAt(i, c.at)) /\ c.at \in Places(i)
    BY CellIs, CellIsTyped
  <2>2. c.at[1] = k /\ c.id[2] = ScenarioAt(i, c.at)
    BY <1>3, <2>1
  <2>3. /\ c.at[2] \in DOMAIN names /\ ScenarioAt(i, c.at) = names[c.at[2]]
        /\ ArmsAt(i, c.at) = Elements(Comparisons(i)[k].arms)
    BY <2>1, <2>2, PlaceIs
  <2> QED
    BY <2>1, <2>2, <2>3 DEF Elements, SizeOf
<1> QED
  BY <1>1, <1>2, <1>3

\* Every slot is a cell's, for an arm and a sample of it,
LEMMA SlotIs ==
  ASSUME NEW i, NEW s \in AllSlots(i)
  PROVE  \E c \in Cells(i) : \E a \in c.arms : \E r \in 1 .. c.n : s = SlotOf(c, a, r)
<1>1. PICK c \in Cells(i) : s \in CellSlots(c)
  BY DEF AllSlots
<1>2. PICK x \in c.arms \X (1 .. c.n) : s = SlotOf(c, x[1], x[2])
  BY <1>1 DEF CellSlots
<1> QED
  BY <1>2

\* and there is one for each.
LEMMA IsSlot ==
  ASSUME NEW i, NEW c \in Cells(i), NEW a \in c.arms, NEW r \in 1 .. c.n
  PROVE  SlotOf(c, a, r) \in AllSlots(i)
<1>1. <<a, r>> \in c.arms \X (1 .. c.n)
  OBVIOUS
<1>2. SlotOf(c, <<a, r>>[1], <<a, r>>[2]) = SlotOf(c, a, r)
  OBVIOUS
<1> QED
  BY <1>1, <1>2 DEF AllSlots, CellSlots

\* A block has one slot for each of its cell's arms.
LEMMA BlocksOfPlan ==
  ASSUME NEW i \in Inputs, ~Repeats(i)
  PROVE  BlocksFit(Experiment(i))
<1> SUFFICES ASSUME NEW s \in AllSlots(i)
             PROVE
               LET members == {m \in AllSlots(i) : m.block = s.block} IN
               /\ s.arm \in s.cell.arms /\ s.replicate <= s.cell.n
               /\ {m.arm : m \in members} = s.cell.arms
               /\ Cardinality(members) = Cardinality(s.cell.arms)
               /\ \A m \in members : m.cell.id = s.cell.id /\ m.replicate = s.replicate
  BY DEF BlocksFit, Experiment, MembersOf
<1> DEFINE members == {m \in AllSlots(i) : m.block = s.block}
<1>1. PICK c \in Cells(i), a \in UNION {d.arms : d \in Cells(i)}, r \in Nat :
        a \in c.arms /\ r \in 1 .. c.n /\ s = SlotOf(c, a, r)
  <2>1. PICK c \in Cells(i) : \E a \in c.arms : \E r \in 1 .. c.n : s = SlotOf(c, a, r)
    BY SlotIs
  <2>2. c.n \in Nat
    BY CellIsTyped
  <2> QED
    BY <2>1, <2>2
<1>2. s.cell = c /\ s.arm = a /\ s.replicate = r /\ s.block = <<c.id, "b", r>>
  BY <1>1 DEF SlotOf
<1>3. IsFiniteSet(c.arms) /\ c.n \in Nat
  BY CellIsTyped
<1> DEFINE f == [b \in c.arms |-> SlotOf(c, b, r)]
<1>4. ASSUME NEW m \in members PROVE m.arm \in c.arms /\ m = f[m.arm] /\ m.cell = c /\ m.replicate = r
  <2>1. PICK d \in Cells(i) : \E b \in d.arms : \E q \in 1 .. d.n : m = SlotOf(d, b, q)
    BY SlotIs
  <2>2. PICK b \in d.arms : \E q \in 1 .. d.n : m = SlotOf(d, b, q)
    BY <2>1
  <2>3. PICK q \in 1 .. d.n : m = SlotOf(d, b, q)
    BY <2>2
  <2>4. <<d.id, "b", q>> = <<c.id, "b", r>>
    BY <1>2, <2>3 DEF SlotOf
  <2>5. d = c /\ q = r
    BY <2>4, CellsAreDistinct
  <2> QED
    BY <2>3, <2>5 DEF SlotOf
<1>5. ASSUME NEW b \in c.arms PROVE f[b] \in members /\ f[b].arm = b
  BY <1>1, <1>2, IsSlot DEF SlotOf
<1>6. f \in Bijection(c.arms, members)
  <2>1. f \in [c.arms -> members]
    BY <1>5
  <2>2. \A b, d \in c.arms : f[b] = f[d] => b = d
    BY <1>5
  <2>3. \A m \in members : \E b \in c.arms : f[b] = m
    BY <1>4
  <2> HIDE DEF f, members
  <2> QED
    BY <2>1, <2>2, <2>3 DEF Bijection, Injection, Surjection, IsInjective
<1>7. Cardinality(members) = Cardinality(c.arms)
  <2>1. ExistsBijection(c.arms, members)
    BY <1>6 DEF ExistsBijection
  <2> HIDE DEF members
  <2> QED
    BY <1>3, <2>1, FS_Bijection
<1>8. {m.arm : m \in members} = c.arms
  <2>1. \A m \in members : m.arm \in c.arms
    BY <1>4
  <2>2. \A b \in c.arms : \E m \in members : m.arm = b
    BY <1>5
  <2> HIDE DEF members
  <2> QED
    BY <2>1, <2>2
<1>9. s.arm \in s.cell.arms /\ s.replicate <= s.cell.n
  BY <1>1, <1>2, <1>3
<1>10. {m.arm : m \in members} = s.cell.arms /\ Cardinality(members) = Cardinality(s.cell.arms)
  BY <1>2, <1>7, <1>8
<1>11. \A m \in members : m.cell.id = s.cell.id /\ m.replicate = s.replicate
  BY <1>2, <1>4
<1> QED
  BY <1>9, <1>10, <1>11

\* A cell has as many slots of each arm as it was declared samples, and as many reserves
\* as the campaign keeps.
LEMMA CountsOfPlan ==
  ASSUME NEW i \in Inputs, ~Repeats(i)
  PROVE  CountsFit(i, Experiment(i))
<1> SUFFICES ASSUME NEW c \in Cells(i)
             PROVE  /\ \A a \in c.arms :
                         /\ Cardinality({s \in AllSlots(i) : s.cell.id = c.id /\ s.arm = a}) = c.n
                         /\ a \in Referenced(i)
                    /\ Cardinality({r \in ReservesOf(i) : r.cell.id = c.id}) = i.reserve
  BY DEF CountsFit, Experiment
<1>1. c.n \in Nat /\ i.reserve \in Nat
  BY CellIsTyped, CompilationAssumption
<1>2. \A n \in Nat : IsFiniteSet(1 .. n) /\ Cardinality(1 .. n) = n
  <2> TAKE n \in Nat
  <2>1. 1 \in Int /\ n \in Int /\ (IF 1 > n THEN 0 ELSE n - 1 + 1) = n
    OBVIOUS
  <2> QED
    BY <2>1, FS_Interval
<1>3. ASSUME NEW a \in c.arms
      PROVE  Cardinality({s \in AllSlots(i) : s.cell.id = c.id /\ s.arm = a}) = c.n
  <2> DEFINE S == {s \in AllSlots(i) : s.cell.id = c.id /\ s.arm = a}
             f == [r \in 1 .. c.n |-> SlotOf(c, a, r)]
  <2>1. \A r \in 1 .. c.n : f[r] \in S /\ f[r].replicate = r
    BY IsSlot DEF SlotOf
  <2>2. ASSUME NEW s \in S PROVE s.replicate \in 1 .. c.n /\ f[s.replicate] = s
    <3>1. PICK d \in Cells(i) : \E b \in d.arms : \E q \in 1 .. d.n : s = SlotOf(d, b, q)
      BY SlotIs
    <3>2. PICK b \in d.arms : \E q \in 1 .. d.n : s = SlotOf(d, b, q)
      BY <3>1
    <3>3. PICK q \in 1 .. d.n : s = SlotOf(d, b, q)
      BY <3>2
    <3>4. d.id = c.id /\ b = a
      BY <3>3 DEF SlotOf
    <3>5. d = c
      BY <3>4, CellsAreDistinct
    <3> QED
      BY <3>3, <3>4, <3>5 DEF SlotOf
  <2>3. f \in Bijection(1 .. c.n, S)
    <3>1. f \in [1 .. c.n -> S]
      BY <2>1
    <3> HIDE DEF f, S
    <3> QED
      BY <2>1, <2>2, <3>1 DEF Bijection, Injection, Surjection, IsInjective
  <2>4. ExistsBijection(1 .. c.n, S)
    BY <2>3 DEF ExistsBijection
  <2> HIDE DEF S
  <2>5. Cardinality(S) = c.n
    BY <1>1, <1>2, <2>4, FS_Bijection
  <2> QED
    BY <2>5 DEF S
<1>4. ASSUME NEW a \in c.arms PROVE a \in Referenced(i)
  <2>1. c.at \in Places(i) /\ c.arms = ArmsAt(i, c.at)
    BY CellIs, CellIsTyped
  <2>2. c.at[1] \in DOMAIN Comparisons(i) /\ a \in Elements(Comparisons(i)[c.at[1]].arms)
    BY <2>1, PlaceIs
  <2> QED
    BY <2>2 DEF Referenced, Elements
<1>5. Cardinality({r \in ReservesOf(i) : r.cell.id = c.id}) = i.reserve
  <2> DEFINE S == {x \in ReservesOf(i) : x.cell.id = c.id}
             f == [r \in 1 .. i.reserve |-> [cell |-> c, id |-> <<c.id, "x", r>>]]
  <2>1. \A r \in 1 .. i.reserve : f[r] \in S /\ f[r].id[3] = r
    BY DEF ReservesOf, ReservesFor
  <2>2. ASSUME NEW x \in S PROVE \E r \in 1 .. i.reserve : f[r] = x
    <3>1. PICK d \in Cells(i) : x \in ReservesFor(i, d)
      BY DEF ReservesOf
    <3>2. PICK r \in 1 .. i.reserve : x = [cell |-> d, id |-> <<d.id, "x", r>>]
      BY <3>1 DEF ReservesFor
    <3>3. d = c
      BY <3>2, CellsAreDistinct
    <3> QED
      BY <3>2, <3>3
  <2>3. f \in Bijection(1 .. i.reserve, S)
    <3>1. f \in [1 .. i.reserve -> S]
      BY <2>1
    <3>2. \A q, r \in 1 .. i.reserve : f[q] = f[r] => q = r
      BY <2>1
    <3> HIDE DEF f, S
    <3> QED
      BY <2>2, <3>1, <3>2 DEF Bijection, Injection, Surjection, IsInjective
  <2>4. ExistsBijection(1 .. i.reserve, S)
    BY <2>3 DEF ExistsBijection
  <2> HIDE DEF S
  <2>5. Cardinality(S) = i.reserve
    BY <1>1, <1>2, <2>4, FS_Bijection
  <2> QED
    BY <2>5 DEF S
<1> QED
  BY <1>3, <1>4, <1>5

\* Only a name that is declared twice keeps what is compiled from passing its schema.
LEMMA PlanPasses ==
  ASSUME NEW i \in Inputs, ~Repeats(i)
  PROVE  SchemaPasses(i, Experiment(i))
<1>1. OneEach(Cells(i))
  BY CellsAreDistinct DEF OneEach
<1>2. OneEach(AllSlots(i))
  <2> SUFFICES ASSUME NEW s \in AllSlots(i), NEW t \in AllSlots(i), s.id = t.id PROVE s = t
    BY DEF OneEach
  <2>1. PICK c \in Cells(i) : \E a \in c.arms : \E r \in 1 .. c.n : s = SlotOf(c, a, r)
    BY SlotIs
  <2>2. PICK d \in Cells(i) : \E b \in d.arms : \E q \in 1 .. d.n : t = SlotOf(d, b, q)
    BY SlotIs
  <2>3. PICK a \in c.arms : \E r \in 1 .. c.n : s = SlotOf(c, a, r)
    BY <2>1
  <2>4. PICK b \in d.arms : \E q \in 1 .. d.n : t = SlotOf(d, b, q)
    BY <2>2
  <2>5. PICK r \in 1 .. c.n : s = SlotOf(c, a, r)
    BY <2>3
  <2>6. PICK q \in 1 .. d.n : t = SlotOf(d, b, q)
    BY <2>4
  <2>7. <<c.id, a, "r", r>> = <<d.id, b, "r", q>>
    BY <2>5, <2>6 DEF SlotOf
  <2>8. c = d /\ a = b /\ r = q
    BY <2>7, CellsAreDistinct
  <2> QED
    BY <2>5, <2>6, <2>8
<1>3. ASSUME NEW x \in ReservesOf(i)
      PROVE  \E c \in Cells(i) : \E r \in 1 .. i.reserve : x = [cell |-> c, id |-> <<c.id, "x", r>>]
  <2>1. PICK c \in Cells(i) : x \in ReservesFor(i, c)
    BY DEF ReservesOf
  <2> QED
    BY <2>1 DEF ReservesFor
<1>4. OneEach(ReservesOf(i))
  <2> SUFFICES ASSUME NEW x \in ReservesOf(i), NEW y \in ReservesOf(i), x.id = y.id PROVE x = y
    BY DEF OneEach
  <2>1. PICK c \in Cells(i) : \E r \in 1 .. i.reserve : x = [cell |-> c, id |-> <<c.id, "x", r>>]
    BY <1>3
  <2>2. PICK d \in Cells(i) : \E r \in 1 .. i.reserve : y = [cell |-> d, id |-> <<d.id, "x", r>>]
    BY <1>3
  <2>3. PICK r \in 1 .. i.reserve : x = [cell |-> c, id |-> <<c.id, "x", r>>]
    BY <2>1
  <2>4. PICK q \in 1 .. i.reserve : y = [cell |-> d, id |-> <<d.id, "x", q>>]
    BY <2>2
  <2>5. <<c.id, "x", r>> = <<d.id, "x", q>>
    BY <2>3, <2>4
  <2>6. c = d
    BY <2>5, CellsAreDistinct
  <2> QED
    BY <2>3, <2>4, <2>5, <2>6
<1>5. {r.id : r \in ReservesOf(i)} \cap {s.block : s \in AllSlots(i)} = {}
  <2> SUFFICES ASSUME NEW x \in ReservesOf(i), NEW s \in AllSlots(i), x.id = s.block PROVE FALSE
    OBVIOUS
  <2>1. PICK c \in Cells(i) : \E r \in 1 .. i.reserve : x = [cell |-> c, id |-> <<c.id, "x", r>>]
    BY <1>3
  <2>2. PICK d \in Cells(i) : \E b \in d.arms : \E q \in 1 .. d.n : s = SlotOf(d, b, q)
    BY SlotIs
  <2>3. x.id[2] = "x" /\ s.block[2] = "b"
    BY <2>1, <2>2 DEF SlotOf
  <2> QED
    BY <2>3
<1> QED
  BY <1>1, <1>2, <1>4, <1>5, InventoryOfPlan, BlocksOfPlan, CountsOfPlan DEF SchemaPasses, Experiment

\* What is refused is refused for one of the reasons that the registration has.
LEMMA RefusalIs ==
  ASSUME NEW i
  PROVE  /\ Refusal(i) # "schema"
         /\ Refusal(i) = "grader" => ~GraderFits(i)
         /\ Refusal(i) = "arm" => \E a \in Referenced(i) : ~ArmResolves(i, a)
         /\ Refusal(i) = "none" =>
              /\ i.cap = i.declaredCap
              /\ \A a \in Referenced(i) : ArmResolves(i, a)
              /\ PolicyFits(i.credentials, Active(i))
              /\ \A c \in Cells(i) : \A a \in c.arms : ~(Needed(i, c.id[2], a) > i.maxTime)
  BY DEF Refusal

\* What an input compiles to follows from why it is refused, or from the schema.
LEMMA PlanIs ==
  ASSUME NEW i
  PROVE  /\ PlanFor(i).refused = "schema" <=> Refusal(i) = "none" /\ ~SchemaPasses(i, Experiment(i))
         /\ PlanFor(i).refused \in {"grader", "arm"} => PlanFor(i).refused = Refusal(i)
         /\ PlanFor(i).refused = "none" => Refusal(i) = "none" /\ PlanFor(i).experiment = Experiment(i)
<1>1. CASE Refusal(i) # "none"
  <2>1. PlanFor(i) = [refused |-> Refusal(i)]
    BY <1>1 DEF PlanFor
  <2> QED
    BY <1>1, <2>1, RefusalIs
<1>2. CASE Refusal(i) = "none" /\ ~SchemaPasses(i, Experiment(i))
  <2>1. PlanFor(i) = [refused |-> "schema"]
    BY <1>2 DEF PlanFor
  <2> QED
    BY <1>2, <2>1
<1>3. CASE Refusal(i) = "none" /\ SchemaPasses(i, Experiment(i))
  <2>1. PlanFor(i) = [refused |-> "none", experiment |-> Experiment(i)]
    BY <1>3 DEF PlanFor
  <2> QED
    BY <1>3, <2>1
<1> QED
  BY <1>1, <1>2, <1>3

\* The time that an arm needs is a number.
LEMMA NeededIsTyped ==
  ASSUME NEW i \in Inputs, NEW s \in DOMAIN i.scenarios, NEW a \in DOMAIN i.arms
  PROVE  Needed(i, s, a) \in Nat
<1>1. /\ i.scenarios[s].maxTime \in Nat \cup {Unset} /\ i.scenarios[s].assessment \in Nat
      /\ i.agents[i.arms[a].agent].maxTime \in Nat \cup {Unset}
  BY CompilationAssumption
<1> QED
  BY <1>1 DEF Needed, Overhead

\* What is compiled fits: assertFeasible goes by the pools and the cap that are frozen.
LEMMA CompiledFits ==
  ASSUME NEW i \in Inputs, Refusal(i) = "none", NEW c \in Cells(i)
  PROVE  /\ Cardinality(c.arms) <= i.declaredCap
         /\ \A p \in DOMAIN Policy(i.credentials, Active(i)) :
              Demand(i, c.arms, p) <= Policy(i.credentials, Active(i))[p].capacity
         /\ \A a \in c.arms : Needed(i, c.id[2], a) <= i.maxTime
<1>1. /\ c.at \in Places(i) /\ c.arms = ArmsAt(i, c.at) /\ c.id[2] = ScenarioAt(i, c.at)
      /\ Eligible(i, c.id[2], c.arms)
  BY CellIs
<1>2. c.id[2] \in DOMAIN i.scenarios /\ Feasible(i, c.arms)
  BY <1>1 DEF Eligible
<1>3. Cardinality(c.arms) <= i.declaredCap
  BY <1>2, RefusalIs DEF Feasible
<1>4. ASSUME NEW p \in DOMAIN Policy(i.credentials, Active(i))
      PROVE  Demand(i, c.arms, p) <= Policy(i.credentials, Active(i))[p].capacity
  BY <1>2 DEF Feasible, Policy
<1>5. ASSUME NEW a \in c.arms PROVE Needed(i, c.id[2], a) <= i.maxTime
  <2>1. c.at[1] \in DOMAIN Comparisons(i) /\ a \in Elements(Comparisons(i)[c.at[1]].arms)
    BY <1>1, PlaceIs
  <2>2. a \in Referenced(i)
    BY <2>1 DEF Referenced, Elements
  <2>3. a \in DOMAIN i.arms
    BY <2>2, RefusalIs DEF ArmResolves
  <2>4. Needed(i, c.id[2], a) \in Nat /\ i.maxTime \in Nat
    BY <1>2, <2>3, NeededIsTyped, CompilationAssumption
  <2>5. ~(Needed(i, c.id[2], a) > i.maxTime)
    BY RefusalIs
  <2> QED
    BY <2>4, <2>5
<1> QED
  BY <1>3, <1>4, <1>5

\* Registries with one authority over the same names have one policy, and one
\* allowance of each key.
LEMMA AuthorityDecides ==
  ASSUME NEW r, NEW q, NEW names, names \subseteq DOMAIN r, names \subseteq DOMAIN q,
         Authority(r, names) = Authority(q, names)
  PROVE  /\ Policy(r, names) = Policy(q, names)
         /\ \A n \in DOMAIN Authority(q, names) : KeyAllowance(r, n) = KeyAllowance(q, n)
<1> DEFINE D == DOMAIN Authority(q, names)
<1>1. /\ D = {m \in DOMAIN r : PoolOf(r, m) \in ActivePools(r, names)}
      /\ D = {m \in DOMAIN q : PoolOf(q, m) \in ActivePools(q, names)}
  BY DEF Authority
<1>2. \A n \in D : Authority(r, names)[n] = r[n] /\ Authority(q, names)[n] = q[n]
  BY <1>1 DEF Authority
<1>3. \A n \in D : r[n] = q[n]
  BY <1>2
<1>4. names \subseteq D
  BY <1>1 DEF ActivePools
<1>5. \A n \in D : PoolOf(r, n) = PoolOf(q, n)
  BY <1>3 DEF PoolOf
<1>6. ActivePools(r, names) = ActivePools(q, names)
  BY <1>4, <1>5 DEF ActivePools
<1>7. ASSUME NEW p \in ActivePools(q, names)
      PROVE  /\ Aliases(r, p) = Aliases(q, p) /\ Aliases(q, p) \subseteq D
  BY <1>1, <1>5, <1>6, <1>7 DEF Aliases
<1> HIDE DEF D
<1>8. ASSUME NEW p \in ActivePools(q, names)
      PROVE  CapacityOf(r, p) = CapacityOf(q, p) /\ SpacingOf(r, p) = SpacingOf(q, p)
  <2>1. Aliases(r, p) = Aliases(q, p) /\ \A n \in Aliases(q, p) : r[n] = q[n]
    BY <1>3, <1>7
  <2>2. {r[n].limit : n \in Aliases(q, p)} = {q[n].limit : n \in Aliases(q, p)}
    BY <2>1
  <2>3. {r[n].spacing : n \in Aliases(q, p)} = {q[n].spacing : n \in Aliases(q, p)}
    BY <2>1
  <2>4. Limits(r, p) = Limits(q, p)
    BY <2>1, <2>2 DEF Limits
  <2> QED
    BY <2>1, <2>3, <2>4 DEF CapacityOf, SpacingOf
<1>9. Policy(r, names) = Policy(q, names)
  BY <1>6, <1>8 DEF Policy
<1>10. ASSUME NEW n \in D PROVE KeyAllowance(r, n) = KeyAllowance(q, n)
  <2>1. r[n] = q[n] /\ PoolOf(r, n) = PoolOf(q, n) /\ PoolOf(q, n) \in ActivePools(q, names)
    BY <1>1, <1>3, <1>5
  <2>2. CapacityOf(r, PoolOf(r, n)) = CapacityOf(q, PoolOf(q, n))
    BY <1>8, <2>1
  <2> QED
    BY <2>1, <2>2 DEF KeyAllowance
<1> QED
  BY <1>9, <1>10 DEF D

\* A file that passes the check has all that the registration asks of its arms, unless
\* only a .yml file declares one.
LEMMA CheckedResolves ==
  ASSUME NEW i, i.pairs = <<>>, CheckPasses(i),
         \A a \in DOMAIN i.arms : (i.arms[a].superpowers = "none") <=> (i.arms[a].ref = Unset)
  PROVE  /\ GraderFits(i)
         /\ \A a \in Referenced(i) : ArmResolves(i, a) <=> ~OnlyInYml(i, a)
<1>1. \A a \in Referenced(i) : a \in DOMAIN i.arms \cup DOMAIN i.ymlArms
  BY DEF Referenced, Comparisons, Materialized, CheckPasses
<1> QED
  BY <1>1 DEF CheckPasses, ArmChecks, ArmResolves, OnlyInYml

\* The plan is what the input compiles to, and what went ahead was held against it.
CompInv ==
  /\ input \in Inputs
  /\ planned = Unset \/ planned = PlanFor(input)
  /\ started = "started" =>
       /\ planned # Unset /\ planned.refused = "none"
       /\ SameAuthority(registry, planned.experiment)

\* A plan that was compiled under this invariant is exact.
LEMMA InvariantIsExact ==
  ASSUME CompInv
  PROVE  PlanIsExact
<1>1. ASSUME planned # Unset PROVE planned = PlanFor(input)
  BY <1>1 DEF CompInv
<1>2. input \in Inputs
  BY DEF CompInv
<1>3. CompilerAgreesWithSchema
  BY <1>1, <1>2, PlanIs, PlanPasses DEF CompilerAgreesWithSchema
<1>4. ASSUME Compiled PROVE Refusal(input) = "none" /\ planned.experiment = Experiment(input)
  BY <1>1, <1>4, PlanIs DEF Compiled
<1>5. PlannedIsRunnable
  <2> SUFFICES ASSUME Compiled, NEW c \in planned.experiment.cells
               PROVE  /\ Cardinality(c.arms) <= input.declaredCap
                      /\ \A p \in DOMAIN planned.experiment.policy :
                           Demand(input, c.arms, p) <= planned.experiment.policy[p].capacity
                      /\ \A a \in c.arms : Needed(input, c.id[2], a) <= input.maxTime
    BY DEF PlannedIsRunnable
  <2>1. /\ planned.experiment.cells = Cells(input)
        /\ planned.experiment.policy = Policy(input.credentials, Active(input))
    BY <1>4 DEF Experiment
  <2> QED
    BY <1>2, <1>4, <2>1, CompiledFits
<1>6. StartsAreAsFrozen
  <2> SUFFICES ASSUME started = "started"
               PROVE  LET names == planned.experiment.active IN
                      /\ Policy(registry, names) = planned.experiment.policy
                      /\ \A n \in DOMAIN planned.experiment.authority :
                           KeyAllowance(registry, n) = KeyAllowance(input.credentials, n)
    BY DEF StartsAreAsFrozen
  <2>1. Compiled /\ SameAuthority(registry, planned.experiment)
    BY DEF CompInv, Compiled
  <2>2. /\ planned.experiment.active = Active(input)
        /\ planned.experiment.policy = Policy(input.credentials, Active(input))
        /\ planned.experiment.authority = Authority(input.credentials, Active(input))
    BY <1>4, <2>1 DEF Experiment
  <2>3. Active(input) \subseteq DOMAIN input.credentials
    BY <1>4, <2>1, RefusalIs DEF PolicyFits
  <2>4. /\ Active(input) \subseteq DOMAIN registry
        /\ Authority(registry, Active(input)) = Authority(input.credentials, Active(input))
    BY <2>1, <2>2 DEF SameAuthority
  <2> QED
    BY <2>2, <2>3, <2>4, AuthorityDecides
<1>7. CheckedIsNotRefused
  <2> SUFFICES ASSUME planned # Unset, input.pairs = <<>>, CheckPasses(input),
                      \A a \in DOMAIN input.arms :
                        (input.arms[a].superpowers = "none") <=> (input.arms[a].ref = Unset)
               PROVE  /\ planned.refused # "grader"
                      /\ planned.refused = "arm" => \E a \in Referenced(input) : OnlyInYml(input, a)
                      /\ (\E a \in Referenced(input) : OnlyInYml(input, a)) => planned.refused # "none"
    BY DEF CheckedIsNotRefused
  <2>1. /\ GraderFits(input)
        /\ \A a \in Referenced(input) : ArmResolves(input, a) <=> ~OnlyInYml(input, a)
    BY CheckedResolves
  <2> QED
    BY <1>1, <2>1, PlanIs, RefusalIs
<1> QED
  BY <1>3, <1>5, <1>6, <1>7 DEF PlanIsExact

\* What is compiled passes its schema unless a name is declared twice, can be run in the
\* frozen policy, and is what a later start goes by, whatever is declared.
THEOREM PlanIsExactAlways == CompSpec => []PlanIsExact
<1>1. CompInit => CompInv
  BY DEF CompInit, CompInv
<1>2. CompInv /\ [CompNext]_compVars => CompInv'
  <2> SUFFICES ASSUME CompInv, [CompNext]_compVars PROVE CompInv'
    OBVIOUS
  <2>1. CASE Compile
    <3>1. planned = Unset /\ planned' = PlanFor(input) /\ UNCHANGED <<input, registry, started>>
      BY <2>1 DEF Compile
    <3>2. started # "started"
      BY <3>1 DEF CompInv
    <3> QED
      BY <3>1, <3>2 DEF CompInv
  <2>2. CASE StartLater
    BY <2>2 DEF StartLater, CompInv
  <2>3. CASE UNCHANGED compVars
    BY <2>3 DEF compVars, CompInv
  <2> QED
    BY <2>1, <2>2, <2>3 DEF CompNext
<1>3. CompInv => PlanIsExact
  BY InvariantIsExact
<1> QED
  BY <1>1, <1>2, <1>3, PTL DEF CompSpec

----
(* What is captured. *)

Steps == [log : Logs, k : 1 .. 2, time : Nat]

\* The order of the steps is a strict and total one.
LEMMA EarlierIsStrict ==
  ASSUME NEW a \in Steps, NEW b \in Steps
  PROVE  /\ ~Earlier(a, a)
         /\ a # b => Earlier(a, b) \/ Earlier(b, a)
         /\ \A c \in Steps : Earlier(a, b) /\ Earlier(b, c) => Earlier(a, c)
<1> USE CaptureAssumption DEF Steps, Earlier
<1>1. ~Earlier(a, a)
  OBVIOUS
<1>2. ASSUME a # b PROVE Earlier(a, b) \/ Earlier(b, a)
  <2>1. a.log # b.log \/ a.k # b.k \/ a.time # b.time
    BY <1>2
  <2>2. /\ a.log \in Logs /\ b.log \in Logs /\ a.k \in 1 .. 2 /\ b.k \in 1 .. 2
        /\ a.time \in Nat /\ b.time \in Nat
        /\ Place[a.log] \in Nat /\ Place[b.log] \in Nat
        /\ Place[a.log] = Place[b.log] => a.log = b.log
    OBVIOUS
  <2> QED
    BY <2>1, <2>2
<1>3. ASSUME NEW c \in Steps, Earlier(a, b), Earlier(b, c) PROVE Earlier(a, c)
  <2>1. /\ a.k \in 1 .. 2 /\ b.k \in 1 .. 2 /\ c.k \in 1 .. 2
        /\ a.time \in Nat /\ b.time \in Nat /\ c.time \in Nat
        /\ Place[a.log] \in Nat /\ Place[b.log] \in Nat /\ Place[c.log] \in Nat
    OBVIOUS
  <2>2. CASE a.time = b.time /\ b.time = c.time
    BY <1>3, <2>1, <2>2
  <2>3. CASE a.time # b.time \/ b.time # c.time
    BY <1>3, <2>1, <2>3
  <2> QED
    BY <2>2, <2>3
<1> QED
  BY <1>1, <1>2, <1>3

\* Steps are sorted by how many are earlier: no two have as many, so that there is one for
\* each place.
LEMMA SortedIsInOrder ==
  ASSUME NEW S \in SUBSET Steps, IsFiniteSet(S)
  PROVE  /\ Sorted(S) \in [1 .. Cardinality(S) -> S]
         /\ \A i, j \in 1 .. Cardinality(S) : i < j => Earlier(Sorted(S)[i], Sorted(S)[j])
<1> DEFINE Below(s) == {t \in S : Earlier(t, s)}
           R(s) == Cardinality(Below(s))
           N == Cardinality(S)
           f == [s \in S |-> R(s)]
<1>1. N \in Nat
  BY FS_CardinalityType
<1>2. ASSUME NEW s \in S PROVE IsFiniteSet(Below(s)) /\ R(s) \in Nat
  <2>1. IsFiniteSet(Below(s))
    BY FS_Subset
  <2> QED
    BY <2>1, FS_CardinalityType
<1>3. ASSUME NEW s \in S, NEW t \in S, Earlier(s, t) PROVE R(s) < R(t)
  <2>1. s \notin Below(s) /\ s \in Below(t)
    BY <1>3, EarlierIsStrict
  <2>2. Below(s) \subseteq Below(t)
    BY <1>3, EarlierIsStrict
  <2>3. Below(s) # Below(t)
    BY <2>1
  <2> HIDE DEF Below
  <2> QED
    BY <1>2, <2>2, <2>3, FS_Subset
<1>4. ASSUME NEW s \in S PROVE R(s) \in 0 .. N - 1
  <2>1. Below(s) \subseteq S /\ Below(s) # S
    BY EarlierIsStrict
  <2>2. Cardinality(Below(s)) <= N /\ (N = Cardinality(Below(s)) => S = Below(s))
    BY FS_Subset
  <2> HIDE DEF Below, N
  <2> QED
    BY <1>1, <1>2, <2>1, <2>2
<1>5. f \in Injection(S, 0 .. N - 1)
  <2>1. f \in [S -> 0 .. N - 1]
    BY <1>4
  <2>2. ASSUME NEW s \in S, NEW t \in S, s # t PROVE R(s) # R(t)
    <3>1. Earlier(s, t) \/ Earlier(t, s)
      BY <2>2, EarlierIsStrict
    <3> QED
      BY <1>2, <1>3, <3>1
  <2> HIDE DEF R
  <2> QED
    BY <2>1, <2>2 DEF Injection, IsInjective
<1>6. IsFiniteSet(0 .. N - 1) /\ Cardinality(0 .. N - 1) = N
  <2> HIDE DEF N
  <2> QED
    BY <1>1, FS_Interval
<1>7. f \in Surjection(S, 0 .. N - 1)
  <2> HIDE DEF f
  <2> QED
    BY <1>5, <1>6, FS_Injection
<1>8. ASSUME NEW n \in 1 .. N PROVE Sorted(S)[n] \in S /\ R(Sorted(S)[n]) = n - 1
  <2>1. \E s \in S : R(s) = n - 1
    <3>1. n - 1 \in 0 .. N - 1
      BY <1>1
    <3> QED
      BY <1>7, <3>1 DEF Surjection
  <2>2. Sorted(S)[n] = CHOOSE s \in S : R(s) = n - 1
    BY DEF Sorted
  <2> HIDE DEF R
  <2> QED
    BY <2>1, <2>2
<1>9. ASSUME NEW i \in 1 .. N, NEW j \in 1 .. N, i < j
      PROVE  Earlier(Sorted(S)[i], Sorted(S)[j])
  <2> DEFINE a == Sorted(S)[i]
             b == Sorted(S)[j]
  <2>1. a \in S /\ R(a) = i - 1 /\ b \in S /\ R(b) = j - 1
    BY <1>8
  <2> HIDE DEF a, b, R
  <2>2. a # b
    BY <1>1, <1>9, <2>1
  <2>3. ~Earlier(b, a)
    BY <1>1, <1>3, <1>9, <2>1
  <2>4. Earlier(a, b)
    BY <2>1, <2>2, <2>3, EarlierIsStrict
  <2> QED
    BY <2>4 DEF a, b
<1>10. Sorted(S) \in [1 .. N -> S]
  <2>1. Sorted(S) = [n \in 1 .. N |-> CHOOSE s \in S : R(s) = n - 1]
    BY DEF Sorted
  <2>2. \A n \in 1 .. N : Sorted(S)[n] \in S
    BY <1>8
  <2> HIDE DEF R, N
  <2> QED
    BY <2>1, <2>2
<1> QED
  BY <1>9, <1>10

\* The effective time of a step is a natural number, 0 if its log has none.
LEMMA TimesAreNumbers ==
  ASSUME setting.times \in Timings, NEW l \in Logs, NEW k \in StepsOf(l)
  PROVE  k \in 1 .. 2 /\ EffectiveTime(l, k) \in Nat
<1> DEFINE timed == {i \in StepsOf(l) : setting.times[l][i] # 0}
           before == {i \in timed : i <= k}
<1>1. StepsOf(l) \subseteq 1 .. 2
  BY DEF StepsOf
<1>2. \A i \in 1 .. 2 : setting.times[l][i] \in Nat
  BY CaptureAssumption
<1>3. ASSUME NEW T \in SUBSET (1 .. 2), T # {}
      PROVE  /\ (CHOOSE i \in T : \A j \in T : i <= j) \in 1 .. 2
             /\ (CHOOSE i \in T : \A j \in T : j <= i) \in 1 .. 2
  <2>0. \A i \in T : i = 1 \/ i = 2
    BY <1>3
  <2>1. CASE T = {1}
    BY <2>1
  <2>2. CASE T = {2}
    BY <2>2
  <2>3. CASE 1 \in T /\ 2 \in T
    <3>1. 1 \in T /\ (\A j \in T : 1 <= j) /\ 2 \in T /\ (\A j \in T : j <= 2)
      BY <2>0, <2>3
    <3> QED
      BY <2>0, <3>1
  <2> QED
    BY <1>3, <2>0, <2>1, <2>2, <2>3
<1>4. timed \in SUBSET (1 .. 2) /\ before \in SUBSET (1 .. 2)
  BY <1>1
<1>5. EffectiveTime(l, k)
        = IF timed = {} THEN 0
          ELSE setting.times[l][IF before = {} THEN CHOOSE i \in timed : \A j \in timed : i <= j
                                ELSE CHOOSE i \in before : \A j \in before : j <= i]
  BY DEF EffectiveTime
<1>6. timed # {} => EffectiveTime(l, k) \in Nat
  <2> HIDE DEF timed, before
  <2>1. CASE before = {}
    BY <1>2, <1>3, <1>4, <1>5, <2>1
  <2>2. CASE before # {}
    BY <1>2, <1>3, <1>4, <1>5, <2>2
  <2> QED
    BY <2>1, <2>2
<1>7. timed = {} => EffectiveTime(l, k) = 0
  BY <1>5
<1> HIDE DEF timed
<1> QED
  BY <1>1, <1>6, <1>7

\* What is taken of finitely many logs are finitely many steps.
LEMMA TakenAreSteps ==
  ASSUME setting.times \in Timings, NEW logs \in SUBSET Logs
  PROVE  LET S == UNION {Taken(l) : l \in logs}
         IN  S \in SUBSET Steps /\ IsFiniteSet(S)
<1> DEFINE S == UNION {Taken(l) : l \in logs}
           f == [s \in S |-> <<s.log, s.k>>]
<1>1. ASSUME NEW s \in S
      PROVE  s \in Steps /\ s.time = EffectiveTime(s.log, s.k)
  <2>0. PICK l \in logs : s \in Taken(l)
    OBVIOUS
  <2>1. PICK k \in StepsOf(l) : s = [log |-> l, k |-> k, time |-> EffectiveTime(l, k)]
    BY <2>0 DEF Taken
  <2>2. k \in 1 .. 2 /\ EffectiveTime(l, k) \in Nat
    BY TimesAreNumbers
  <2> QED
    BY <2>1, <2>2 DEF Steps
<1>2. f \in Injection(S, Logs \X (1 .. 2))
  <2>1. f \in [S -> Logs \X (1 .. 2)]
    BY <1>1 DEF Steps
  <2>2. ASSUME NEW s \in S, NEW t \in S, f[s] = f[t] PROVE s = t
    <3>1. s.log = t.log /\ s.k = t.k
      BY <2>2
    <3>2. s.time = t.time
      BY <1>1, <3>1
    <3> QED
      BY <1>1, <3>1, <3>2 DEF Steps
  <2> HIDE DEF S
  <2> QED
    BY <2>1, <2>2 DEF Injection, IsInjective
<1>3. IsFiniteSet(Logs \X (1 .. 2))
  <2>1. IsFiniteSet(1 .. 2)
    <3>1. 1 \in Int /\ 2 \in Int
      OBVIOUS
    <3> QED
      BY <3>1, FS_Interval, Zenon
  <2> QED
    BY <2>1, CaptureAssumption, FS_Product
<1>4. IsFiniteSet(S)
  <2> HIDE DEF S, f
  <2> QED
    BY <1>2, <1>3, FS_Injection
<1> QED
  BY <1>1, <1>4

\* What the last attempt captured is new and of this session, and what is on disk is of
\* that attempt; nothing is captured once the usage was told, and nothing is judged before.
CaptureInv ==
  /\ setting.times \in Timings
  /\ captured.logs \cap setting.snapshot = {}
  /\ setting.normalizer \in Filtered => \A l \in captured.logs : setting.cwd[l] = "launch"
  /\ trajectory.written => DOMAIN trajectory.said = captured.logs /\ InOrder
  /\ captured.availability = "available" => trajectory.written /\ captured.logs # {}
  /\ captured.rows # 0 => ShowsACall
  /\ tokenUsage.told => tokenUsage.of = trajectory
  /\ judgement # "none" => tokenUsage.told
  /\ JudgedOnEvidence /\ BlamedForCause

\* A try leaves what is new and of this session, in order, and says so of it truly.
LEMMA NewestCapture ==
  ASSUME CaptureInv, CaptureToolCalls, UNCHANGED setting
  PROVE  /\ (captured.logs \cap setting.snapshot = {})'
         /\ (setting.normalizer \in Filtered => \A l \in captured.logs : setting.cwd[l] = "launch")'
         /\ (trajectory.written => DOMAIN trajectory.said = captured.logs /\ InOrder)'
         /\ (captured.availability = "available" => trajectory.written /\ captured.logs # {})'
         /\ (captured.rows # 0 => ShowsACall)'
<1> DEFINE logs == CapturedLogs
           meaningful == \E l \in logs : Reached(l, "said")
           priceable == \E l \in logs : Reached(l, "priced")
           calling == {l \in logs : Reached(l, "called")}
<1>1. /\ captured'.logs = logs
      /\ captured'.rows = Cardinality(calling)
      /\ captured'.availability = "available" => meaningful
      /\ meaningful \/ priceable => trajectory' = [written |-> TRUE, steps |-> Merge(logs),
                                                   said |-> [l \in logs |-> file[l].stage]]
      /\ ~(meaningful \/ priceable) => trajectory' = [written |-> FALSE]
  BY DEF CaptureToolCalls, NoTrajectory
<1>2. /\ logs \in SUBSET Logs /\ logs \cap setting.snapshot = {}
      /\ setting.normalizer \in Filtered => \A l \in logs : setting.cwd[l] = "launch"
  BY DEF CapturedLogs, New, Origin
<1>3. ASSUME trajectory'.written PROVE InOrder'
  <2> DEFINE S == UNION {Taken(l) : l \in logs}
  <2>1. trajectory'.steps = Sorted(S)
    BY <1>1, <1>3 DEF Merge
  <2>2. S \in SUBSET Steps /\ IsFiniteSet(S)
    BY <1>2, TakenAreSteps DEF CaptureInv
  <2> HIDE DEF S
  <2>3. /\ Sorted(S) \in [1 .. Cardinality(S) -> S]
        /\ \A i, j \in 1 .. Cardinality(S) : i < j => Earlier(Sorted(S)[i], Sorted(S)[j])
    BY <2>2, SortedIsInOrder
  <2>4. ASSUME NEW a \in Steps, NEW b \in Steps, Earlier(a, b)
        PROVE  /\ a.time # 0 /\ b.time # 0 => a.time <= b.time
               /\ a.log = b.log /\ a.time = b.time => a.k < b.k
    BY <2>4 DEF Earlier, Steps
  <2>5. \A i, j \in DOMAIN trajectory'.steps :
          LET a == trajectory'.steps[i]  b == trajectory'.steps[j] IN
          i < j => /\ a.time # 0 /\ b.time # 0 => a.time <= b.time
                   /\ a.log = b.log /\ a.time = b.time => a.k < b.k
    BY <2>1, <2>2, <2>3, <2>4
  <2> QED
    BY <2>5 DEF InOrder
<1>4. ASSUME captured'.rows # 0 PROVE ShowsACall'
  <2>1. calling # {}
    BY <1>1, <1>4, FS_EmptySet
  <2>2. PICK l \in logs : Reached(l, "called")
    BY <2>1
  <2>3. file[l].stage = "called" /\ Reached(l, "said")
    BY <2>2 DEF Reached, Stages
  <2>4. trajectory' = [written |-> TRUE, steps |-> Merge(logs), said |-> [m \in logs |-> file[m].stage]]
    BY <1>1, <2>3
  <2> QED
    BY <2>3, <2>4 DEF ShowsACall
<1> QED
  BY <1>1, <1>2, <1>3, <1>4

\* Whatever logs there are, however they grow while they are read, what is judged is the
\* agent's own session, in its order and as its last capture found it.
THEOREM SessionIsOwnAlways == CaptureSpec => []SessionIsOwn
<1>1. CaptureInit => CaptureInv
  BY DEF CaptureInit, CaptureInv, NoCapture, NoTrajectory, NoUsage, JudgedOnEvidence, BlamedForCause
<1>2. CaptureInv /\ [CaptureNext]_captureVars => CaptureInv'
  <2> SUFFICES ASSUME CaptureInv, [CaptureNext]_captureVars PROVE CaptureInv'
    OBVIOUS
  <2> USE DEF CaptureInv
  <2>1. CASE Flushes
    BY <2>1 DEF Flushes, JudgedOnEvidence, BlamedForCause, InOrder, ShowsACall
  <2>2. CASE TryCapture
    <3>1. judgement = "none"
      BY <2>2 DEF TryCapture
    <3>2. UNCHANGED <<setting, tokenUsage, judgement>> /\ CaptureToolCalls /\ ~tokenUsage.told
      BY <2>2 DEF TryCapture
    <3> QED
      BY <3>1, <3>2, NewestCapture DEF JudgedOnEvidence, BlamedForCause
  <2>3. CASE TokenUsage
    BY <2>3 DEF TokenUsage, JudgedOnEvidence, BlamedForCause, InOrder, ShowsACall, New, Exists
  <2>4. CASE Judge
    <3>1. /\ judgement' = Cascade /\ tokenUsage.told
          /\ UNCHANGED <<setting, file, indexed, captured, trajectory, tokenUsage>>
      BY <2>4 DEF Judge
    <3>2. JudgedOnEvidence'
      <4> SUFFICES ASSUME Cascade = "judged"
                   PROVE  /\ setting.normalizer \in Strict \cup {"opencode", "pi", "kimi"} => ShowsACall
                          /\ setting.normalizer = "claude" => trajectory.written
        BY <3>1 DEF JudgedOnEvidence, ShowsACall
      <4> QED
        BY DEF Cascade, ClaudeVerdict, PiVerdict, StrictVerdict, KimiVerdict, CodexVerdict, Strict
    <3>3. BlamedForCause'
      <4> SUFFICES ASSUME Cascade = "misconfigured"
                   PROVE  captured.availability # "available" /\ \E l \in New : setting.cwd[l] # "launch"
        BY <3>1 DEF BlamedForCause, New, Exists
      <4>1. \A l \in New : Origin(l) \in {setting.cwd[l], "unknown"}
        BY DEF Origin
      <4> QED
        BY <4>1 DEF Cascade, ClaudeVerdict, PiVerdict, StrictVerdict, KimiVerdict, CodexVerdict, Strict,
                    MisplacedCodex, MisplacedPi, KimiUnmatched
    <3> QED
      BY <3>1, <3>2, <3>3 DEF InOrder, ShowsACall
  <2>5. CASE UNCHANGED captureVars
    BY <2>5 DEF captureVars, JudgedOnEvidence, BlamedForCause, InOrder, ShowsACall, New, Exists
  <2> QED
    BY <2>1, <2>2, <2>3, <2>4, <2>5 DEF CaptureNext
<1>3. CaptureInv => SessionIsOwn
  BY DEF CaptureInv, SessionIsOwn, OfOneSession, EvidenceIsLast
<1> QED
  BY <1>1, <1>2, <1>3, PTL DEF CaptureSpec

----
(* The score of a session: what holds up to a row holds up to the next. *)

\* A set of naturals has a least member: on this the inductions over data rest.
LEMMA FirstOfNat ==
  ASSUME NEW S \in SUBSET Nat, S # {}
  PROVE  \E x \in S : \A y \in S : x <= y
<1>1. PICK x \in S : \A y \in S : ~(<<y, x>> \in OpToRel(<, Nat))
  BY NatLessThanWellFounded, WFMin, Zenon
<1>2. ASSUME NEW y \in S PROVE ~(y < x)
  <2>1. <<y, x>> \in Nat \X Nat
    BY <1>1
  <2> QED
    BY <1>1, <2>1, Zenon DEF OpToRel
<1> QED
  BY <1>2

\* What holds at 0 and is handed on holds up to n: induction, with the property a set.
LEMMA UpTo ==
  ASSUME NEW n \in Nat, NEW S, 0 \in S, \A i \in 1 .. n : i - 1 \in S => i \in S
  PROVE  0 .. n \subseteq S
<1> DEFINE Bad == (0 .. n) \ S
<1> SUFFICES ASSUME Bad # {} PROVE FALSE
  OBVIOUS
<1>1. PICK x \in Bad : \A y \in Bad : x <= y
  <2>1. Bad \in SUBSET Nat
    OBVIOUS
  <2> QED
    BY <2>1, FirstOfNat
<1>2. x \in 1 .. n /\ x - 1 \in 0 .. n /\ x - 1 \notin Bad
  BY <1>1
<1> QED
  BY <1>1, <1>2

\* A function whose value at i is told from the one before by F[i].
IsTold(n, States, start, F, g) ==
  /\ g \in [0 .. n -> States] /\ g[0] = start
  /\ \A i \in 1 .. n : g[i] = F[i][g[i - 1]]

LEMMA ToldFromBefore ==
  ASSUME NEW n \in Nat, NEW States, NEW start \in States, NEW F \in [1 .. n -> [States -> States]]
  PROVE  \E g : IsTold(n, States, start, F, g)
<1> DEFINE Told(g, m) == g[0] = start /\ \A i \in 1 .. m : g[i] = F[i][g[i - 1]]
           S == {m \in 0 .. n : \E g \in [0 .. m -> States] : Told(g, m)}
<1>1. 0 \in S
  <2> DEFINE g == [i \in 0 .. 0 |-> start]
  <2>1. g \in [0 .. 0 -> States] /\ Told(g, 0)
    OBVIOUS
  <2> HIDE DEF g, Told
  <2> QED
    BY <2>1
<1>2. ASSUME NEW m \in 1 .. n, m - 1 \in S PROVE m \in S
  <2>1. PICK g \in [0 .. m - 1 -> States] : Told(g, m - 1)
    BY <1>2
  <2> DEFINE h == [i \in 0 .. m |-> IF i = m THEN F[m][g[m - 1]] ELSE g[i]]
  <2>2. F[m][g[m - 1]] \in States
    BY <2>1
  <2>3. h \in [0 .. m -> States] /\ h[0] = start
    BY <2>1, <2>2
  <2>4. \A i \in 1 .. m : h[i] = F[i][h[i - 1]]
    BY <2>1
  <2> HIDE DEF h
  <2>5. Told(h, m)
    BY <2>3, <2>4
  <2>6. m \in 0 .. n
    OBVIOUS
  <2> HIDE DEF Told
  <2> QED
    BY <2>3, <2>5, <2>6
<1>3. n \in S
  <2> HIDE DEF S
  <2>1. 0 .. n \subseteq S
    BY <1>1, <1>2, UpTo
  <2> QED
    BY <2>1
<1> QED
  BY <1>3 DEF IsTold

----
(* The state of the review. *)

Agreements == [understanding : BOOLEAN, design : BOOLEAN, spec : BOOLEAN, plan : BOOLEAN,
               method : BOOLEAN, violated : BOOLEAN, completed : BOOLEAN]

Events ==
  [kind : {"understanding"}, aligned : BOOLEAN]
  \cup [kind : {"design"}, presented : Nat]
  \cup [kind : {"method"}]
  \cup [kind : {"artifact"}, stage : Writings, aligned : BOOLEAN, presented : Nat, after : Nat,
        intact : BOOLEAN]

Effects == {"read_only", "process", "spec_write", "plan_write", "implementation", "delegation", "unknown"}

\* Messages and calls, whatever was found in them.
Entries ==
  [source : {"agent", "user"}, events : Seq(Events), effects : {{}}, changed : {{}}, success : {"unknown"}]
  \cup [source : {"tool"}, events : {<<>>}, effects : (SUBSET Effects) \ {{}}, changed : SUBSET Writings,
        success : {"yes", "no", "unknown"}]

LEMMA HearsAgrees ==
  ASSUME NEW s \in Agreements, NEW e \in Events
  PROVE  Hears(s, e) \in Agreements
<1> DEFINE h == Hears(s, e)
<1>1. e.kind \in {"understanding", "artifact"} => e.aligned \in BOOLEAN
  BY DEF Events
<1>2. h = [understanding |-> h.understanding, design |-> h.design, spec |-> h.spec, plan |-> h.plan,
           method |-> h.method, violated |-> h.violated, completed |-> h.completed]
  BY DEF Hears, Agreements
<1>3. h.method \in BOOLEAN /\ h.violated \in BOOLEAN /\ h.completed \in BOOLEAN
  BY DEF Hears, Agreements
<1>4. h.understanding \in BOOLEAN /\ h.design \in BOOLEAN
  BY <1>1 DEF Hears, Agreements
<1>5. h.spec \in BOOLEAN /\ h.plan \in BOOLEAN
  BY <1>1 DEF Hears, Agreements
<1> HIDE DEF h
<1>6. h \in Agreements
  BY <1>2, <1>3, <1>4, <1>5 DEF Agreements
<1> QED
  BY <1>6 DEF h

LEMMA DoesAgrees ==
  ASSUME NEW s \in Agreements, NEW row
  PROVE  Does(s, row) \in Agreements
<1> DEFINE h == Does(s, row)
<1>1. h = [understanding |-> h.understanding, design |-> h.design, spec |-> h.spec, plan |-> h.plan,
           method |-> h.method, violated |-> h.violated, completed |-> h.completed]
  BY DEF Does, Agreements
<1>2. h.method \in BOOLEAN /\ h.violated \in BOOLEAN /\ h.completed \in BOOLEAN
  BY DEF Does, Agreements
<1>3. h.understanding \in BOOLEAN /\ h.design \in BOOLEAN
  BY DEF Does, Agreements
<1>4. h.spec \in BOOLEAN /\ h.plan \in BOOLEAN
  BY DEF Does, Agreements
<1> HIDE DEF h
<1>5. h \in Agreements
  BY <1>1, <1>2, <1>3, <1>4 DEF Agreements
<1> QED
  BY <1>5 DEF h

\* The events of a message, heard one after the other.
LEMMA HeardOneByOne ==
  ASSUME NEW s \in Agreements, NEW events \in Seq(Events)
  PROVE  \E h \in [0 .. Len(events) -> Agreements] :
           /\ h[0] = s /\ Heard(s, events) = h[Len(events)]
           /\ \A n \in 1 .. Len(events) : h[n] = Hears(h[n - 1], events[n])
<1> DEFINE N == Len(events)
           F == [n \in 1 .. N |-> [t \in Agreements |-> Hears(t, events[n])]]
           Told(g) == [n \in 0 .. N |-> IF n = 0 THEN s ELSE Hears(g[n - 1], events[n])]
           heard == CHOOSE g : g = Told(g)
<1>0. N \in Nat /\ \A n \in 1 .. N : events[n] \in Events
  OBVIOUS
<1>1. F \in [1 .. N -> [Agreements -> Agreements]]
  BY <1>0, HearsAgrees
<1>2. PICK g : IsTold(N, Agreements, s, F, g)
  <2>1. N \in Nat
    BY <1>0
  <2> HIDE DEF F, N
  <2> QED
    BY <1>1, <2>1, ToldFromBefore
<1>3. /\ g \in [0 .. N -> Agreements] /\ g[0] = s
     /\ \A n \in 1 .. N : g[n] = Hears(g[n - 1], events[n])
  BY <1>0, <1>2 DEF IsTold
<1>4. g = Told(g)
  <2>1. \A n \in 0 .. N : g[n] = Told(g)[n]
    BY <1>0, <1>3
  <2>2. g = [n \in 0 .. N |-> g[n]] /\ Told(g) = [n \in 0 .. N |-> Told(g)[n]]
    BY <1>3
  <2> HIDE DEF Told
  <2> QED
    BY <2>1, <2>2
<1>5. heard = Told(heard)
  <2> HIDE DEF Told
  <2> QED
    BY <1>4
<1> HIDE DEF heard
<1>6. heard[0] = s /\ \A n \in 1 .. N : heard[n] = Hears(heard[n - 1], events[n])
  BY <1>0, <1>5
<1>7. 0 .. N \subseteq {n \in 0 .. N : heard[n] \in Agreements}
  <2> DEFINE T == {n \in 0 .. N : heard[n] \in Agreements}
  <2>1. 0 \in T
    BY <1>0, <1>6
  <2>2. \A n \in 1 .. N : n - 1 \in T => n \in T
    BY <1>0, <1>6, HearsAgrees
  <2>3. N \in Nat
    BY <1>0
  <2> HIDE DEF T, N
  <2>4. 0 .. N \subseteq T
    BY <2>1, <2>2, <2>3, UpTo
  <2> QED
    BY <2>4 DEF T
<1>8. heard \in [0 .. N -> Agreements]
  BY <1>5, <1>7
<1>9. Heard(s, events) = heard[N]
  BY DEF Heard, heard
<1> QED
  BY <1>6, <1>8, <1>9

LEMMA TakesAgrees ==
  ASSUME NEW s \in Agreements, NEW row \in Entries
  PROVE  Takes(s, row) \in Agreements
<1>1. CASE IsCall(row)
  BY <1>1, DoesAgrees DEF Takes
<1>2. CASE ~IsCall(row)
  <2>1. row.events \in Seq(Events)
    BY <1>2 DEF Entries, IsCall
  <2>2. PICK h \in [0 .. Len(row.events) -> Agreements] : Heard(s, row.events) = h[Len(row.events)]
    BY <2>1, HeardOneByOne
  <2>3. Heard(s, row.events) \in Agreements
    BY <2>1, <2>2
  <2> QED
    BY <1>2, <2>3 DEF Takes
<1> QED
  BY <1>1, <1>2

\* The rows of the log, taken one after the other.
LEMMA AgreedOneByOne ==
  ASSUME log \in Seq(Entries)
  PROVE  /\ Agreed[0] = Start
         /\ \A i \in 1 .. Len(log) : Agreed[i] = Takes(Agreed[i - 1], log[i])
         /\ \A i \in 0 .. Len(log) : Agreed[i] \in Agreements
<1> DEFINE N == Len(log)
           F == [i \in 1 .. N |-> [s \in Agreements |-> Takes(s, log[i])]]
           Told(g) == [i \in 0 .. N |-> IF i = 0 THEN Start ELSE Takes(g[i - 1], log[i])]
<1>0. N \in Nat /\ \A i \in 1 .. N : log[i] \in Entries
  OBVIOUS
<1>1. F \in [1 .. N -> [Agreements -> Agreements]] /\ Start \in Agreements
  BY <1>0, TakesAgrees DEF Start, Agreements
<1>2. PICK g : IsTold(N, Agreements, Start, F, g)
  <2>1. N \in Nat
    BY <1>0
  <2> HIDE DEF F, N
  <2> QED
    BY <1>1, <2>1, ToldFromBefore
<1>3. /\ g \in [0 .. N -> Agreements] /\ g[0] = Start
     /\ \A i \in 1 .. N : g[i] = Takes(g[i - 1], log[i])
  <2>1. g \in [0 .. N -> Agreements] /\ g[0] = Start /\ \A i \in 1 .. N : g[i] = F[i][g[i - 1]]
    BY <1>2, Zenon DEF IsTold
  <2> HIDE DEF N
  <2>2. ASSUME NEW i \in 1 .. N PROVE g[i] = Takes(g[i - 1], log[i])
    <3>1. i - 1 \in 0 .. N
      BY <1>0
    <3>2. g[i - 1] \in Agreements
      BY <2>1, <3>1
    <3>3. F[i][g[i - 1]] = Takes(g[i - 1], log[i])
      BY <3>2
    <3> QED
      BY <2>1, <3>3
  <2> HIDE DEF F
  <2> QED
    BY <2>1, <2>2
<1>4. g = Told(g)
  <2>1. \A i \in 0 .. N : g[i] = Told(g)[i]
    BY <1>0, <1>3
  <2>2. g = [i \in 0 .. N |-> g[i]] /\ Told(g) = [i \in 0 .. N |-> Told(g)[i]]
    BY <1>3
  <2> HIDE DEF Told
  <2> QED
    BY <2>1, <2>2
<1>5. Agreed = Told(Agreed)
  <2>1. Agreed = CHOOSE f : f = Told(f)
    BY DEF Agreed
  <2> HIDE DEF Told
  <2> QED
    BY <1>4, <2>1
<1>6. Agreed[0] = Start /\ \A i \in 1 .. N : Agreed[i] = Takes(Agreed[i - 1], log[i])
  BY <1>0, <1>5
<1> DEFINE T == {i \in 0 .. N : Agreed[i] \in Agreements}
<1>7. 0 .. N \subseteq T
  <2>1. 0 \in T
    BY <1>0, <1>1, <1>6
  <2>2. \A i \in 1 .. N : i - 1 \in T => i \in T
    BY <1>0, <1>6, TakesAgrees
  <2>3. N \in Nat
    BY <1>0
  <2> HIDE DEF T, N
  <2> QED
    BY <2>1, <2>2, <2>3, UpTo
<1> QED
  BY <1>6, <1>7

----
(* What was agreed is in the log. *)

\* What PassIsApproved asks of row k.
Consented(k) ==
  /\ "spec_write" \in log[k].effects => Designed(k)
  /\ "plan_write" \in log[k].effects => Designed(k) /\ Stands("spec", k)
  /\ Product(log[k]) =>
       /\ Designed(k) /\ Stands("spec", k) /\ Stands("plan", k) /\ log[k].changed = {}
       /\ \E m \in 1 .. k - 1 : Event(m, "method") # {}

Understood(k) == \E u \in 1 .. k - 1 : Aligned(u) /\ \A j \in u .. k - 1 : ~Misaligned(j)
Chosen(k) == \E m \in 1 .. k - 1 : Event(m, "method") # {}
Built(k) == \E j \in 1 .. k - 1 : Product(log[j]) /\ log[j].success = "yes"

\* Before row k, s says only what the log bears out; and as long as no violation was
\* seen, an approved plan is one of an approved specification, and every row is sound.
Borne(k, s) ==
  /\ s.understanding => Understood(k)
  /\ s.design => s.understanding /\ Designed(k)
  /\ s.spec => s.design /\ Stands("spec", k)
  /\ s.plan => Stands("plan", k) /\ (s.spec \/ s.violated)
  /\ s.method => Chosen(k)
  /\ s.completed => Built(k)
  /\ ~s.violated => \A j \in 1 .. k - 1 : Consented(j)

LEMMA Lasting ==
  ASSUME log \in Seq(Entries), NEW k \in 1 .. Len(log)
  PROVE  /\ Understood(k) /\ ~Misaligned(k) => Understood(k + 1)
         /\ Designed(k) /\ ~Misaligned(k) => Designed(k + 1)
         /\ \A stage \in Writings :
              Stands(stage, k) /\ stage \notin log[k].changed => Stands(stage, k + 1)
         /\ Chosen(k) => Chosen(k + 1)
         /\ Built(k) => Built(k + 1)
<1>1. ASSUME Understood(k), ~Misaligned(k) PROVE Understood(k + 1)
  BY <1>1 DEF Understood
<1>2. ASSUME Designed(k), ~Misaligned(k) PROVE Designed(k + 1)
  <2>1. PICK u \in 1 .. k - 1, d \in 1 .. k - 1 :
          u < d /\ Aligned(u) /\ Event(d, "design") # {} /\ \A j \in u .. k - 1 : ~Misaligned(j)
    BY <1>2 DEF Designed
  <2>2. u \in 1 .. (k + 1) - 1 /\ d \in 1 .. (k + 1) - 1 /\ \A j \in u .. (k + 1) - 1 : ~Misaligned(j)
    BY <1>2, <2>1
  <2> QED
    BY <2>1, <2>2 DEF Designed
<1>3. ASSUME NEW stage \in Writings, Stands(stage, k), stage \notin log[k].changed
      PROVE  Stands(stage, k + 1)
  <2>1. PICK a \in 1 .. k - 1 :
          /\ Approves(a, stage)
          /\ \A e \in Event(a, "artifact") :
               e.stage = stage => \A j \in 1 .. a - 1 : stage \in log[j].changed => j <= e.after
          /\ \A j \in a .. k - 1 : stage \notin log[j].changed
    BY <1>3 DEF Stands
  <2>2. a \in 1 .. (k + 1) - 1 /\ \A j \in a .. (k + 1) - 1 : stage \notin log[j].changed
    BY <1>3, <2>1
  <2> QED
    BY <2>1, <2>2 DEF Stands
<1>4. Chosen(k) => Chosen(k + 1)
  BY DEF Chosen
<1>5. Built(k) => Built(k + 1)
  BY DEF Built
<1> QED
  BY <1>1, <1>2, <1>3, <1>4, <1>5

\* An event of a user's message.
LEMMA UserEvent ==
  ASSUME log \in Seq(Entries), ~EvidenceErrors, NEW k \in 1 .. Len(log), log[k].source = "user",
         NEW n \in 1 .. Len(log[k].events), NEW s \in Agreements, Borne(k + 1, s)
  PROVE  Borne(k + 1, Hears(s, log[k].events[n]))
<1> DEFINE e == log[k].events[n]
           h == Hears(s, e)
<1> SUFFICES Borne(k + 1, h)
  OBVIOUS
<1>1. /\ log[k] \in Entries /\ log[k].events \in Seq(Events) /\ log[k].changed = {}
      /\ e \in Events
  BY DEF Entries
<1>2. \A m \in DOMAIN log[k].events : ~Unbound(log[k].events[m], k)
  BY DEF EvidenceErrors
<1>3. \A m \in DOMAIN log[k].events : log[k].events[m].kind # "understanding"
  BY <1>2 DEF Unbound, Source
<1>4. ~Aligned(k) /\ ~Misaligned(k)
  BY <1>3 DEF Aligned, Misaligned, Event
<1>5. e.kind # "understanding" /\ e \in Event(k, e.kind)
  BY <1>1, <1>3 DEF Event
<1>6. CASE e.kind = "design"
  <2>1. Understood(k + 1) => Designed(k + 1)
    <3> SUFFICES ASSUME Understood(k + 1) PROVE Designed(k + 1)
      OBVIOUS
    <3>1. PICK u \in 1 .. (k + 1) - 1 : Aligned(u) /\ \A j \in u .. (k + 1) - 1 : ~Misaligned(j)
      BY DEF Understood
    <3>2. u < k /\ k \in 1 .. (k + 1) - 1 /\ Event(k, "design") # {}
      BY <1>4, <1>5, <1>6, <3>1
    <3> QED
      BY <3>1, <3>2 DEF Designed
  <2>2. /\ h.understanding = s.understanding /\ h.design = s.understanding /\ h.spec = s.spec
        /\ h.plan = s.plan /\ h.method = s.method /\ h.completed = s.completed /\ h.violated = s.violated
    BY <1>6 DEF Hears, Agreements
  <2> HIDE DEF h, e
  <2> QED
    BY <2>1, <2>2 DEF Borne
<1>7. CASE e.kind = "method"
  <2>1. Chosen(k + 1)
    BY <1>5, <1>7 DEF Chosen
  <2>2. /\ h.understanding = s.understanding /\ h.design = s.design /\ h.spec = s.spec
        /\ h.plan = s.plan /\ h.completed = s.completed /\ h.violated = s.violated
    BY <1>7 DEF Hears, Agreements
  <2> HIDE DEF h, e
  <2> QED
    BY <2>1, <2>2 DEF Borne
<1>8. CASE e.kind = "artifact"
  <2>1. e.stage \in Writings /\ e.aligned \in BOOLEAN /\ e.after \in Nat
    BY <1>1, <1>8 DEF Events
  <2>2. e.aligned => Stands(e.stage, k + 1)
    <3> SUFFICES ASSUME e.aligned PROVE Stands(e.stage, k + 1)
      OBVIOUS
    <3>1. k \in 1 .. (k + 1) - 1 /\ Approves(k, e.stage)
      BY <1>5, <1>8 DEF Approves
    <3>2. ASSUME NEW d \in Event(k, "artifact"), d.stage = e.stage,
                 NEW j \in 1 .. k - 1, e.stage \in log[j].changed
          PROVE  j <= d.after
      <4>1. PICK m \in DOMAIN log[k].events : d = log[k].events[m] /\ d.kind = "artifact"
        BY <3>2 DEF Event
      <4>2. ~StaleReceipt(d, k)
        BY <1>2, <4>1 DEF Unbound
      <4>3. ~(j > d.after)
        BY <3>2, <4>2 DEF StaleReceipt
      <4>4. d.after \in Nat
        BY <1>1, <4>1 DEF Events
      <4> QED
        BY <4>3, <4>4
    <3>3. \A j \in k .. (k + 1) - 1 : e.stage \notin log[j].changed
      BY <1>1
    <3> QED
      BY <3>1, <3>2, <3>3 DEF Stands
  <2>3. CASE e.stage = "spec"
    <3>1. /\ h.understanding = s.understanding /\ h.design = s.design /\ (h.spec <=> s.design /\ e.aligned)
          /\ h.plan = s.plan /\ h.method = s.method /\ h.completed = s.completed
          /\ (h.violated <=> s.violated \/ ~e.aligned)
      BY <1>8, <2>3 DEF Hears, Agreements
    <3> HIDE DEF h, e
    <3> QED
      BY <2>1, <2>2, <2>3, <3>1 DEF Borne
  <2>4. CASE e.stage = "plan"
    <3>1. /\ h.understanding = s.understanding /\ h.design = s.design /\ h.spec = s.spec
          /\ (h.plan <=> s.spec /\ e.aligned) /\ h.method = s.method /\ h.completed = s.completed
          /\ (h.violated <=> s.violated \/ ~s.spec \/ ~e.aligned)
      BY <1>8, <2>4 DEF Hears, Agreements
    <3> HIDE DEF h, e
    <3> QED
      BY <2>1, <2>2, <2>4, <3>1 DEF Borne
  <2> QED
    BY <2>1, <2>3, <2>4 DEF Writings
<1> QED
  BY <1>1, <1>5, <1>6, <1>7, <1>8 DEF Events

\* A row that does not say that the understanding was wrong and changes nothing takes
\* nothing from what the log bears out.
LEMMA BorneOn ==
  ASSUME log \in Seq(Entries), NEW k \in 1 .. Len(log), ~Misaligned(k), log[k].changed = {},
         log[k].effects = {}, NEW s \in Agreements, Borne(k, s)
  PROVE  Borne(k + 1, s)
<1>1. Consented(k)
  BY DEF Consented, Product
<1>2. ~s.violated => \A j \in 1 .. (k + 1) - 1 : Consented(j)
  BY <1>1 DEF Borne
<1> QED
  BY <1>2, Lasting DEF Borne, Writings

LEMMA UserRow ==
  ASSUME log \in Seq(Entries), ~EvidenceErrors, NEW k \in 1 .. Len(log), log[k].source = "user",
         NEW s \in Agreements, Borne(k, s)
  PROVE  Borne(k + 1, Takes(s, log[k]))
<1> DEFINE events == log[k].events
           N == Len(events)
<1>1. /\ events \in Seq(Events) /\ log[k].changed = {} /\ log[k].effects = {}
      /\ N \in Nat
  BY DEF Entries
<1>2. ~Misaligned(k)
  BY <1>1 DEF EvidenceErrors, Unbound, Source, Misaligned, Event
<1>3. PICK h \in [0 .. N -> Agreements] :
        /\ h[0] = s /\ Heard(s, events) = h[N]
        /\ \A n \in 1 .. N : h[n] = Hears(h[n - 1], events[n])
  BY <1>1, HeardOneByOne
<1> DEFINE T == {n \in 0 .. N : Borne(k + 1, h[n])}
<1>4. 0 \in T
  BY <1>1, <1>2, <1>3, BorneOn
<1>5. ASSUME NEW n \in 1 .. N, n - 1 \in T PROVE n \in T
  <2>1. h[n - 1] \in Agreements /\ Borne(k + 1, h[n - 1]) /\ h[n] = Hears(h[n - 1], events[n])
    BY <1>1, <1>3, <1>5
  <2>2. Borne(k + 1, Hears(h[n - 1], log[k].events[n]))
    BY <2>1, UserEvent
  <2> QED
    BY <1>1, <2>1, <2>2
<1>6. N \in T
  <2> HIDE DEF T, N
  <2>1. 0 .. N \subseteq T
    BY <1>1, <1>4, <1>5, UpTo
  <2> QED
    BY <1>1, <2>1
<1>7. Takes(s, log[k]) = Heard(s, events)
  BY <1>1 DEF Takes, IsCall
<1> QED
  BY <1>3, <1>6, <1>7

LEMMA AgentRow ==
  ASSUME log \in Seq(Entries), ~EvidenceErrors, NEW k \in 1 .. Len(log), log[k].source = "agent",
         NEW s \in Agreements, Borne(k, s)
  PROVE  Borne(k + 1, Takes(s, log[k]))
<1> DEFINE events == log[k].events
           N == Len(events)
<1>1. /\ events \in Seq(Events) /\ log[k].changed = {} /\ log[k].effects = {}
      /\ N \in Nat
  BY DEF Entries
<1>2. \A n \in 1 .. N : events[n].kind = "understanding" /\ events[n].aligned \in BOOLEAN
  <2>1. \A n \in 1 .. N : ~Unbound(events[n], k)
    BY <1>1 DEF EvidenceErrors
  <2>2. \A n \in 1 .. N : events[n].kind = "understanding"
    BY <2>1 DEF Unbound, Source
  <2> QED
    BY <1>1, <2>2 DEF Events
<1>3. N <= 1
  <2>1. ~Duplicated(events)
    BY DEF EvidenceErrors
  <2> SUFFICES ASSUME N > 1 PROVE FALSE
    BY <1>1
  <2>2. 1 \in DOMAIN events /\ 2 \in DOMAIN events
    BY <1>1
  <2> QED
    BY <1>1, <1>2, <2>1, <2>2 DEF Duplicated
<1>4. PICK h \in [0 .. N -> Agreements] :
        /\ h[0] = s /\ Heard(s, events) = h[N]
        /\ \A n \in 1 .. N : h[n] = Hears(h[n - 1], events[n])
  BY <1>1, HeardOneByOne
<1>5. Takes(s, log[k]) = Heard(s, events)
  BY <1>1 DEF Takes, IsCall
<1>6. CASE N = 0
  <2>1. ~Misaligned(k)
    BY <1>1, <1>6 DEF Misaligned, Event
  <2> QED
    BY <1>1, <1>4, <1>5, <1>6, <2>1, BorneOn
<1>7. CASE N = 1
  <2> DEFINE e == events[1]
             t == Hears(s, e)
  <2>1. Takes(s, log[k]) = t
    BY <1>4, <1>5, <1>7
  <2>2. e.kind = "understanding" /\ e \in Event(k, "understanding") /\ e.aligned \in BOOLEAN
    BY <1>1, <1>2, <1>7 DEF Event
  <2>3. \A d \in Event(k, "understanding") : d = e
    BY <1>1, <1>7 DEF Event
  <2>4. t.method = s.method /\ t.completed = s.completed /\ t.violated = s.violated
    BY <2>2 DEF Hears, Agreements
  <2>5. CASE e.aligned
    <3>1. t.understanding /\ t.design = s.design /\ t.spec = s.spec /\ t.plan = s.plan
      BY <2>2, <2>5 DEF Hears, Agreements
    <3>2. ~Misaligned(k)
      BY <2>3, <2>5 DEF Misaligned
    <3>3. Understood(k + 1)
      <4>1. Aligned(k) /\ k \in 1 .. (k + 1) - 1 /\ \A j \in k .. (k + 1) - 1 : ~Misaligned(j)
        BY <2>2, <2>5, <3>2 DEF Aligned
      <4> QED
        BY <4>1 DEF Understood
    <3>4. Borne(k + 1, s)
      BY <1>1, <3>2, BorneOn
    <3>5. Borne(k + 1, t)
      <4> HIDE DEF t
      <4> QED
        BY <2>4, <3>1, <3>3, <3>4 DEF Borne
    <3> QED
      BY <2>1, <3>5
  <2>6. CASE ~e.aligned
    <3>1. ~t.understanding /\ ~t.design /\ ~t.spec /\ ~t.plan
      BY <2>2, <2>6 DEF Hears, Agreements
    <3>2. Consented(k)
      BY <1>1 DEF Consented, Product
    <3>3. ~s.violated => \A j \in 1 .. (k + 1) - 1 : Consented(j)
      BY <3>2 DEF Borne
    <3>4. Borne(k + 1, t)
      <4> HIDE DEF t
      <4> QED
        BY <2>4, <3>1, <3>3, Lasting DEF Borne
    <3> QED
      BY <2>1, <3>4
  <2> QED
    BY <2>2, <2>5, <2>6
<1>8. N = 0 \/ N = 1
  <2> HIDE DEF N
  <2> QED
    BY <1>1, <1>3
<1> QED
  BY <1>6, <1>7, <1>8

LEMMA CallRow ==
  ASSUME log \in Seq(Entries), NEW k \in 1 .. Len(log), log[k].source = "tool",
         NEW s \in Agreements, Borne(k, s)
  PROVE  Borne(k + 1, Takes(s, log[k]))
<1> DEFINE row == log[k]
           t == Does(s, row)
<1>1. /\ row.events = <<>> /\ row.effects # {} /\ row.changed \in SUBSET Writings
      /\ Takes(s, row) = t
  BY DEF Entries, Takes, IsCall
<1>2. ~Misaligned(k)
  BY <1>1 DEF Misaligned, Event
<1>3. /\ t.understanding = s.understanding /\ t.design = s.design /\ t.method = s.method
      /\ (t.spec <=> s.spec /\ "spec" \notin row.changed)
      /\ (t.plan <=> s.plan /\ row.changed = {})
      /\ (t.violated <=> s.violated \/ Breach(s, row))
      /\ (t.completed => s.completed \/ (Product(row) /\ row.success = "yes"))
  BY DEF Does, Agreements
<1>4. ~t.violated => Consented(k)
  <2> SUFFICES ASSUME ~s.violated, ~Breach(s, row) PROVE Consented(k)
    BY <1>3
  <2>1. "spec_write" \in row.effects => Designed(k)
    BY DEF Breach, Borne
  <2>2. "plan_write" \in row.effects => Designed(k) /\ Stands("spec", k)
    BY DEF Breach, Borne
  <2>3. Product(row) => s.plan /\ s.method /\ row.changed = {}
    BY DEF Breach
  <2>4. Product(row) => /\ Designed(k) /\ Stands("spec", k) /\ Stands("plan", k)
                        /\ \E m \in 1 .. k - 1 : Event(m, "method") # {}
    BY <2>3 DEF Borne, Chosen
  <2> QED
    BY <2>1, <2>2, <2>3, <2>4 DEF Consented
<1>5. ~t.violated => \A j \in 1 .. (k + 1) - 1 : Consented(j)
  BY <1>3, <1>4 DEF Borne
<1>6. t.completed => Built(k + 1)
  <2>1. Product(row) /\ row.success = "yes" => Built(k + 1)
    BY DEF Built
  <2> QED
    BY <1>3, <2>1, Lasting DEF Borne
<1>7. t.spec => Stands("spec", k + 1)
  BY <1>3, Lasting DEF Borne, Writings
<1>8. t.plan => Stands("plan", k + 1) /\ (t.spec \/ t.violated)
  BY <1>3, Lasting DEF Borne, Writings
<1>9. Borne(k + 1, t)
  <2> HIDE DEF t
  <2> QED
    BY <1>2, <1>3, <1>5, <1>6, <1>7, <1>8, Lasting DEF Borne
<1> HIDE DEF t
<1> QED
  BY <1>1, <1>9

LEMMA AgreedIsBorne ==
  ASSUME log \in Seq(Entries), ~EvidenceErrors
  PROVE  Borne(Len(log) + 1, Result)
<1> DEFINE N == Len(log)
           T == {k \in 0 .. N : Borne(k + 1, Agreed[k])}
<1>1. N \in Nat
  OBVIOUS
<1>2. 0 \in T
  BY <1>1, AgreedOneByOne DEF Borne, Start
<1>3. ASSUME NEW k \in 1 .. N, k - 1 \in T PROVE k \in T
  <2>1. /\ Agreed[k - 1] \in Agreements /\ Agreed[k] = Takes(Agreed[k - 1], log[k])
    BY <1>1, AgreedOneByOne
  <2>2. Borne(k, Agreed[k - 1])
    BY <1>1, <1>3
  <2>3. log[k].source \in {"user", "agent", "tool"}
    BY DEF Entries
  <2>4. Borne(k + 1, Agreed[k])
    BY <2>1, <2>2, <2>3, UserRow, AgentRow, CallRow
  <2> QED
    BY <1>1, <2>4
<1>4. N \in T
  <2> HIDE DEF T, N
  <2>1. 0 .. N \subseteq T
    BY <1>1, <1>2, <1>3, UpTo
  <2> QED
    BY <1>1, <2>1
<1> QED
  BY <1>4 DEF Result

LEMMA PassOfAnyLog ==
  ASSUME log \in Seq(Entries)
  PROVE  PassIsApproved
<1> SUFFICES ASSUME NEW ended \in Stops, ScoreOf(ended) = "pass"
             PROVE  /\ \E k \in DOMAIN log : Product(log[k]) /\ log[k].success = "yes"
                    /\ \A k \in DOMAIN log : Consented(k)
  BY Zenon DEF PassIsApproved, Consented
<1>1. ~EvidenceErrors /\ Result.completed /\ ~Result.violated
  BY DEF ScoreOf
<1>2. Borne(Len(log) + 1, Result)
  BY <1>1, AgreedIsBorne
<1>3. Built(Len(log) + 1) /\ \A j \in 1 .. (Len(log) + 1) - 1 : Consented(j)
  BY <1>1, <1>2 DEF Borne
<1> QED
  BY <1>3 DEF Built

----
(* What is written of a session is a log of this kind. *)

LEMMA LastsIsNat ==
  ASSUME NEW i \in Nat
  PROVE  Lasts(i) \in Nat
<1> DEFINE said == {j \in 1 .. i - 1 : Source(j) = "agent"}
<1>1. CASE said = {}
  BY <1>1 DEF Lasts
<1>2. CASE said # {}
  <2> DEFINE above == {i - j : j \in said}
  <2>1. above \in SUBSET Nat /\ above # {}
    BY <1>2
  <2>2. PICK x \in above : \A y \in above : x <= y
    BY <2>1, FirstOfNat
  <2>3. PICK j \in said : x = i - j
    BY <2>2
  <2>4. ASSUME NEW m \in said PROVE m <= j
    <3>1. i - m \in above /\ m \in Nat /\ j \in Nat
      OBVIOUS
    <3>2. i - j <= i - m
      BY <2>2, <2>3, <3>1
    <3> QED
      BY <3>1, <3>2
  <2>5. \E m \in said : \A k \in said : k <= m
    BY <2>4
  <2> HIDE DEF said
  <2>6. Lasts(i) \in said
    BY <1>2, <2>5 DEF Lasts, said
  <2> QED
    BY <2>6 DEF said
<1> QED
  BY <1>1, <1>2

LEMMA Short ==
  ASSUME NEW S
  PROVE  /\ <<>> \in Seq(S)
         /\ \A d, e \in S : <<d>> \in Seq(S) /\ <<d, e>> \in Seq(S)
  OBVIOUS

LEMMA CallIsEntry ==
  ASSUME NEW effects \in (SUBSET Effects) \ {{}}, NEW changed \in SUBSET Writings,
         NEW success \in {"yes", "no", "unknown"}
  PROVE  Call(effects, changed, success) \in Entries
  BY DEF Call, Entries

LEMMA MessageIsEntry ==
  ASSUME NEW source \in {"agent", "user"}, NEW events \in Seq(Events)
  PROVE  Message(source, events) \in Entries
  BY DEF Message, Entries

LEMMA WayIsOfEntries ==
  ASSUME NEW i \in Nat \ {0}, NEW n \in 1 .. 7
  PROVE  Way(i)[n] \in Entries
<1>1. Lasts(i) \in Nat /\ i - 1 \in Nat
  BY LastsIsNat
<1>2. /\ Understanding(TRUE) \in Events /\ DesignApproval(Lasts(i)) \in Events
      /\ Approval("spec", TRUE, Lasts(i), i - 1, TRUE) \in Events
      /\ Approval("plan", TRUE, Lasts(i), i - 1, TRUE) \in Events /\ ExecutionChoice \in Events
  BY <1>1 DEF Understanding, DesignApproval, Approval, ExecutionChoice, Events, Writings
<1>3. /\ <<Understanding(TRUE)>> \in Seq(Events) /\ <<DesignApproval(Lasts(i))>> \in Seq(Events)
      /\ <<Approval("spec", TRUE, Lasts(i), i - 1, TRUE), ExecutionChoice>> \in Seq(Events)
      /\ <<Approval("plan", TRUE, Lasts(i), i - 1, TRUE)>> \in Seq(Events)
  BY <1>2, Short
<1>4. /\ Message("agent", <<Understanding(TRUE)>>) \in Entries
      /\ Message("user", <<DesignApproval(Lasts(i))>>) \in Entries
      /\ Message("user", <<Approval("spec", TRUE, Lasts(i), i - 1, TRUE), ExecutionChoice>>) \in Entries
      /\ Message("user", <<Approval("plan", TRUE, Lasts(i), i - 1, TRUE)>>) \in Entries
  BY <1>3, MessageIsEntry
<1>5. /\ Call({"spec_write"}, {"spec"}, "yes") \in Entries
      /\ Call({"plan_write"}, {"plan"}, "yes") \in Entries
      /\ Call({"implementation"}, {}, "yes") \in Entries
  BY CallIsEntry DEF Effects, Writings
<1> QED
  BY <1>4, <1>5 DEF Way

LEMMA AstrayIsOfEntries ==
  ASSUME NEW i \in Nat \ {0}, NEW row \in Astray(i)
  PROVE  row \in Entries
<1>1. Lasts(i) \in Nat /\ i - 1 \in Nat
  BY LastsIsNat
<1>2. CASE row \in {Way(i)[n] : n \in 1 .. 7}
  BY <1>2, WayIsOfEntries
<1>3. CASE row \in {Message("agent", <<>>), Message("agent", <<Understanding(FALSE)>>),
                    Message("agent", <<Understanding(FALSE), Understanding(TRUE)>>),
                    Message("agent", <<DesignApproval(Lasts(i))>>), Message("user", <<DesignApproval(i)>>)}
  <2>1. /\ Understanding(TRUE) \in Events /\ Understanding(FALSE) \in Events
        /\ DesignApproval(Lasts(i)) \in Events /\ DesignApproval(i) \in Events
    BY <1>1 DEF Understanding, DesignApproval, Events
  <2>2. /\ <<>> \in Seq(Events) /\ <<Understanding(FALSE)>> \in Seq(Events)
        /\ <<Understanding(FALSE), Understanding(TRUE)>> \in Seq(Events)
        /\ <<DesignApproval(Lasts(i))>> \in Seq(Events) /\ <<DesignApproval(i)>> \in Seq(Events)
    BY <2>1, Short
  <2> QED
    BY <1>3, <2>2, MessageIsEntry
<1>4. CASE row \in {Message("user", <<e>>) : e \in Approvals(i)}
  <2>1. PICK e \in Approvals(i) : row = Message("user", <<e>>)
    BY <1>4
  <2>2. e \in Events
    BY <1>1 DEF Approvals, Events
  <2> QED
    BY <2>1, <2>2, Short, MessageIsEntry
<1>5. CASE row \in {Call({"spec_write"}, {}, "no"), Call({"process"}, {"spec"}, "yes"),
                    Call({"unknown"}, {}, "unknown"),
                    Call({"implementation", "spec_write"}, {"spec"}, "yes"),
                    Call({"implementation"}, {}, "no"), Call({"delegation"}, {}, "unknown"),
                    Call({"spec_write", "plan_write"}, {"spec", "plan"}, "yes"),
                    Call({"read_only"}, {}, "unknown")}
  <2>1. /\ {"spec_write"} \in (SUBSET Effects) \ {{}} /\ {"process"} \in (SUBSET Effects) \ {{}}
        /\ {"unknown"} \in (SUBSET Effects) \ {{}} /\ {"read_only"} \in (SUBSET Effects) \ {{}}
        /\ {"implementation", "spec_write"} \in (SUBSET Effects) \ {{}}
        /\ {"implementation"} \in (SUBSET Effects) \ {{}} /\ {"delegation"} \in (SUBSET Effects) \ {{}}
        /\ {"spec_write", "plan_write"} \in (SUBSET Effects) \ {{}}
    BY DEF Effects
  <2>2. {} \in SUBSET Writings /\ {"spec"} \in SUBSET Writings /\ {"spec", "plan"} \in SUBSET Writings
    BY DEF Writings
  <2> QED
    BY <1>5, <2>1, <2>2, CallIsEntry
<1> QED
  BY <1>2, <1>3, <1>4, <1>5 DEF Astray

\* A session of the skill that goes astray any number of times, and ends in any way, is
\* scored a pass only if everything that was written or built had its approval.
THEOREM PassIsApprovedAlways == ReviewSpec => []PassIsApproved
<1> DEFINE Typed == log \in Seq(Entries) /\ follows \in Nat \ {0}
<1>1. ReviewInit => Typed
  BY DEF ReviewInit
<1>2. Typed /\ [ReviewNext]_reviewVars => Typed'
  <2> SUFFICES ASSUME Typed, [ReviewNext]_reviewVars PROVE Typed'
    OBVIOUS
  <2>1. Len(log) + 1 \in Nat \ {0}
    OBVIOUS
  <2>2. CASE Follow
    <3>1. follows \in 1 .. 7 /\ log' = Append(log, Way(Len(log) + 1)[follows]) /\ follows' = follows + 1
      BY <2>2 DEF Follow
    <3>2. Way(Len(log) + 1)[follows] \in Entries
      BY <2>1, <3>1, WayIsOfEntries
    <3> QED
      BY <3>1, <3>2
  <2>3. CASE GoAstray
    <3>1. PICK row \in Astray(Len(log) + 1) : log' = Append(log, row) /\ follows' = follows
      BY <2>3 DEF GoAstray
    <3>2. row \in Entries
      BY <2>1, <3>1, AstrayIsOfEntries
    <3> QED
      BY <3>1, <3>2
  <2>4. CASE UNCHANGED reviewVars
    BY <2>4 DEF reviewVars
  <2> QED
    BY <2>2, <2>3, <2>4 DEF ReviewNext
<1>3. Typed => PassIsApproved
  BY PassOfAnyLog
<1> QED
  BY <1>1, <1>2, <1>3, PTL DEF ReviewSpec

----
(* The checks of a trace. *)

\* The first of some positions, and which first ones come before which.
LEMMA FirstIs ==
  ASSUME NEW n \in Nat, NEW S \in SUBSET (1 .. n)
  PROVE  IF S = {} THEN First(S) = 0
         ELSE First(S) \in S /\ \A j \in S : First(S) <= j
<1>1. CASE S = {}
  BY <1>1 DEF First
<1>2. CASE S # {}
  <2>1. \E i \in S : \A j \in S : i <= j
    BY <1>2, FirstOfNat
  <2> QED
    BY <1>2, <2>1 DEF First
<1> QED
  BY <1>1, <1>2

LEMMA FirstsCompare ==
  ASSUME NEW n \in Nat, NEW A \in SUBSET (1 .. n), NEW B \in SUBSET (1 .. n)
  PROVE  /\ BeforeAny(First(A), First(B)) <=> \A i \in B : \E j \in 1 .. i - 1 : j \in A
         /\ IsBefore(First(A), First(B)) <=> B # {} /\ \A i \in B : \E j \in 1 .. i - 1 : j \in A
<1> DEFINE a == First(A)
           b == First(B)
<1>1. IF A = {} THEN a = 0 ELSE a \in A /\ \A j \in A : a <= j
  BY FirstIs
<1>2. IF B = {} THEN b = 0 ELSE b \in B /\ \A j \in B : b <= j
  BY FirstIs
<1> HIDE DEF a, b
<1>3. CASE B = {}
  BY <1>2, <1>3 DEF IsBefore, BeforeAny, a, b
<1>4. CASE B # {}
  <2>1. b \in 1 .. n
    BY <1>2, <1>4
  <2>2. IsBefore(a, b) => \A i \in B : \E j \in 1 .. i - 1 : j \in A
    <3> SUFFICES ASSUME IsBefore(a, b), NEW i \in B PROVE a \in 1 .. i - 1 /\ a \in A
      OBVIOUS
    <3>1. A # {} /\ a < b /\ b <= i
      BY <1>1, <1>2, <1>4 DEF IsBefore
    <3>2. a \in A /\ a \in 1 .. n /\ i \in 1 .. n
      BY <1>1, <3>1
    <3> QED
      BY <2>1, <3>1, <3>2
  <2>3. (\A i \in B : \E j \in 1 .. i - 1 : j \in A) => IsBefore(a, b)
    <3> SUFFICES ASSUME \A i \in B : \E j \in 1 .. i - 1 : j \in A PROVE IsBefore(a, b)
      OBVIOUS
    <3>1. PICK j \in 1 .. b - 1 : j \in A
      BY <1>2, <1>4
    <3>2. a \in A /\ a <= j
      BY <1>1, <3>1
    <3>3. a \in 1 .. n
      BY <3>2
    <3> QED
      BY <2>1, <3>1, <3>2, <3>3 DEF IsBefore
  <2>4. BeforeAny(a, b) <=> IsBefore(a, b)
    BY <2>1 DEF BeforeAny
  <2> QED
    BY <1>4, <2>2, <2>3, <2>4 DEF a, b
<1> QED
  BY <1>3, <1>4

LEMMA HowMany ==
  ASSUME NEW n \in Nat, NEW S \in SUBSET (1 .. n)
  PROVE  (Cardinality(S) > 0 <=> S # {}) /\ (Cardinality(S) = 0 <=> S = {})
<1>1. IsFiniteSet(1 .. n)
  BY FS_Interval
<1>2. IsFiniteSet(S)
  BY <1>1, FS_Subset
<1>3. Cardinality(S) \in Nat
  BY <1>2, FS_CardinalityType
<1>4. Cardinality(S) = 0 <=> S = {}
  BY <1>2, FS_EmptySet
<1> DEFINE c == Cardinality(S)
<1>5. c > 0 <=> c # 0
  <2> HIDE DEF c
  <2> SUFFICES c \in Nat
    OBVIOUS
  <2> QED
    BY <1>3 DEF c
<1> QED
  BY <1>4, <1>5, Zenon

\* What a check finds by counting and by the first positions is what it is meant to say.
LEMMA FoundIsMeant ==
  ASSUME calls \in Seq(Made), NEW q
  PROVE  Finds(q) <=> Meant(q)
<1> DEFINE N == Len(calls)
<1>0. N \in Nat /\ DOMAIN calls = 1 .. N
  OBVIOUS
<1> HIDE DEF N
<1>1. /\ Count(LAMBDA c : Uses(c, q)) > 0 <=> Some(LAMBDA c : Uses(c, q))
      /\ Count(LAMBDA c : Uses(c, q)) = 0 <=> ~Some(LAMBDA c : Uses(c, q))
  BY <1>0, HowMany DEF Count, Where, Some
<1>2. /\ Count(IsSkillInvocation) > 0 <=> Some(IsSkillInvocation)
      /\ Count(IsSkillInvocation) = 0 <=> ~Some(IsSkillInvocation)
  BY <1>0, HowMany DEF Count, Where, Some
<1>3. Count(LAMBDA c : Writes(c, q)) = 0 <=> ~Some(LAMBDA c : Writes(c, q))
  BY <1>0, HowMany DEF Count, Where, Some
<1>4. Count(Investigates) > 0 <=> Some(Investigates)
  BY <1>0, HowMany DEF Count, Where, Some
<1>5. Count(Separates) > 0 <=> Some(Separates)
  BY <1>0, HowMany DEF Count, Where, Some
<1>6. Count(LAMBDA c : MatchesAll(c, q)) > 0 <=> Some(LAMBDA c : MatchesAll(c, q))
  BY <1>0, HowMany DEF Count, Where, Some
<1>7. IsBefore(FirstOf(LAMBDA c : Uses(c, q)), FirstOf(LAMBDA c : c.tool = q.then))
      <=> /\ Some(LAMBDA c : c.tool = q.then)
          /\ Preceded(LAMBDA c : c.tool = q.then, LAMBDA c : Uses(c, q))
  <2> DEFINE A == {i \in 1 .. N : Uses(calls[i], q)}
             B == {i \in 1 .. N : calls[i].tool = q.then}
  <2>1. IsBefore(First(A), First(B)) <=> B # {} /\ \A i \in B : \E j \in 1 .. i - 1 : j \in A
    <3>1. A \in SUBSET (1 .. N) /\ B \in SUBSET (1 .. N)
      OBVIOUS
    <3> HIDE DEF A, B
    <3> QED
      BY <1>0, <3>1, FirstsCompare
  <2>2. (\A i \in B : \E j \in 1 .. i - 1 : j \in A)
        <=> Preceded(LAMBDA c : c.tool = q.then, LAMBDA c : Uses(c, q))
    BY <1>0 DEF Preceded
  <2> QED
    BY <1>0, <2>1, <2>2 DEF FirstOf, Where, Some
<1>8. BeforeAny(FirstOf(IsSkillInvocation), FirstOf(LAMBDA c : Uses(c, q)))
      <=> Preceded(LAMBDA c : Uses(c, q), IsSkillInvocation)
  <2> DEFINE A == {i \in 1 .. N : IsSkillInvocation(calls[i])}
             B == {i \in 1 .. N : Uses(calls[i], q)}
  <2>1. BeforeAny(First(A), First(B)) <=> \A i \in B : \E j \in 1 .. i - 1 : j \in A
    <3>1. A \in SUBSET (1 .. N) /\ B \in SUBSET (1 .. N)
      OBVIOUS
    <3> HIDE DEF A, B
    <3> QED
      BY <1>0, <3>1, FirstsCompare
  <2>2. (\A i \in B : \E j \in 1 .. i - 1 : j \in A)
        <=> Preceded(LAMBDA c : Uses(c, q), IsSkillInvocation)
    BY <1>0 DEF Preceded
  <2> QED
    BY <1>0, <2>1, <2>2 DEF FirstOf, Where
<1>9. BeforeAny(FirstOf(IsSkillInvocation), FirstOf(LAMBDA c : Writes(c, q)))
      <=> Preceded(LAMBDA c : Writes(c, q), IsSkillInvocation)
  <2> DEFINE A == {i \in 1 .. N : IsSkillInvocation(calls[i])}
             B == {i \in 1 .. N : Writes(calls[i], q)}
  <2>1. BeforeAny(First(A), First(B)) <=> \A i \in B : \E j \in 1 .. i - 1 : j \in A
    <3>1. A \in SUBSET (1 .. N) /\ B \in SUBSET (1 .. N)
      OBVIOUS
    <3> HIDE DEF A, B
    <3> QED
      BY <1>0, <3>1, FirstsCompare
  <2>2. (\A i \in B : \E j \in 1 .. i - 1 : j \in A)
        <=> Preceded(LAMBDA c : Writes(c, q), IsSkillInvocation)
    BY <1>0 DEF Preceded
  <2> QED
    BY <1>0, <2>1, <2>2 DEF FirstOf, Where
<1>10. BeforeAny(FirstOf(LAMBDA c : MatchesA(c, q)), FirstOf(LAMBDA c : MatchesB(c, q)))
       <=> Preceded(LAMBDA c : MatchesB(c, q), LAMBDA c : MatchesA(c, q))
  <2> DEFINE A == {i \in 1 .. N : MatchesA(calls[i], q)}
             B == {i \in 1 .. N : MatchesB(calls[i], q)}
  <2>1. BeforeAny(First(A), First(B)) <=> \A i \in B : \E j \in 1 .. i - 1 : j \in A
    <3>1. A \in SUBSET (1 .. N) /\ B \in SUBSET (1 .. N)
      OBVIOUS
    <3> HIDE DEF A, B
    <3> QED
      BY <1>0, <3>1, FirstsCompare
  <2>2. (\A i \in B : \E j \in 1 .. i - 1 : j \in A)
        <=> Preceded(LAMBDA c : MatchesB(c, q), LAMBDA c : MatchesA(c, q))
    BY <1>0 DEF Preceded
  <2> QED
    BY <1>0, <2>1, <2>2 DEF FirstOf, Where
<1> QED
  BY <1>1, <1>2, <1>3, <1>4, <1>5, <1>6, <1>7, <1>8, <1>9, <1>10 DEF Finds, Meant

\* Whatever calls an agent makes, a check and its negation answer what they are meant to
\* say of them, and nothing when the calls were not captured.
THEOREM TraceChecksAreTrueAlways == TraceSpec => []TraceChecksAreTrue
<1>1. TraceInit => calls \in Seq(Made)
  BY DEF TraceInit
<1>2. calls \in Seq(Made) /\ [TraceNext]_traceVars => (calls \in Seq(Made))'
  BY DEF TraceNext, traceVars
<1>3. calls \in Seq(Made) => TraceChecksAreTrue
  <2> SUFFICES ASSUME calls \in Seq(Made), NEW q \in Questions
               PROVE  /\ Outcome(q) = "pass" <=> ~Malformed(q) /\ availability = "available" /\ Meant(q)
                      /\ Negated(Outcome(q)) = "pass"
                           <=> ~Malformed(q) /\ availability = "available" /\ ~Meant(q)
    BY DEF TraceChecksAreTrue
  <2> QED
    BY FoundIsMeant DEF Outcome, Negated, Passed
<1> QED
  BY <1>1, <1>2, <1>3, PTL DEF TraceSpec

----
(* The checks of a scenario (Checks). *)

\* Of a finite set of positions, the first c are c of them, or all if there are no more.
LEMMA FirstsAre ==
  ASSUME NEW H \in SUBSET Nat, IsFiniteSet(H), NEW c \in Nat
  PROVE  LET F == {i \in H : Cardinality({j \in H : j < i}) < c} IN
         /\ F \in SUBSET H /\ IsFiniteSet(F)
         /\ Cardinality(F) = IF Cardinality(H) < c THEN Cardinality(H) ELSE c
         /\ Cardinality(H) <= c => F = H
<1> DEFINE N == Cardinality(H)
           Below(i) == {j \in H : j < i}
           R(i) == Cardinality(Below(i))
           r == [i \in H |-> R(i)]
           F == {i \in H : R(i) < c}
<1>0. \A x \in H : x \in Nat
  OBVIOUS
<1>1. N \in Nat
  BY FS_CardinalityType
<1>2. ASSUME NEW i \in H PROVE IsFiniteSet(Below(i)) /\ R(i) \in Nat
  <2>1. Below(i) \in SUBSET H
    OBVIOUS
  <2> HIDE DEF Below
  <2> QED
    BY <2>1, FS_Subset, FS_CardinalityType
<1>3. ASSUME NEW i \in H, NEW j \in H, i < j PROVE R(i) < R(j)
  <2>1. Below(i) \in SUBSET Below(j)
    <3> SUFFICES ASSUME NEW x \in H, x < i PROVE x < j
      OBVIOUS
    <3> QED
      BY <1>0, <1>3
  <2>2. i \in Below(j) /\ i \notin Below(i)
    BY <1>3
  <2> HIDE DEF Below
  <2>3. R(i) <= R(j) /\ R(i) # R(j)
    BY <1>2, <2>1, <2>2, FS_Subset
  <2> QED
    BY <1>2, <2>3
<1>4. ASSUME NEW i \in H PROVE R(i) \in 0 .. N - 1
  <2>1. Below(i) \in SUBSET H /\ i \notin Below(i)
    OBVIOUS
  <2> HIDE DEF Below, N
  <2>2. R(i) <= N /\ R(i) # N
    BY <1>4, <2>1, FS_Subset DEF N
  <2> QED
    BY <1>1, <1>2, <2>2
<1>5. r \in Injection(H, 0 .. N - 1)
  <2>1. r \in [H -> 0 .. N - 1]
    BY <1>4
  <2>2. ASSUME NEW i \in H, NEW j \in H, i # j PROVE R(i) # R(j)
    <3>1. i < j \/ j < i
      BY <1>0, <2>2
    <3> HIDE DEF R
    <3>2. R(i) \in Nat /\ R(j) \in Nat
      BY <1>2
    <3>3. R(i) < R(j) \/ R(j) < R(i)
      BY <1>3, <3>1
    <3> QED
      BY <3>2, <3>3
  <2> HIDE DEF R
  <2> QED
    BY <2>1, <2>2 DEF Injection, IsInjective
<1>6. \A n \in Nat : IsFiniteSet(0 .. n - 1) /\ Cardinality(0 .. n - 1) = n
  <2> TAKE n \in Nat
  <2>1. 0 \in Int /\ n - 1 \in Int /\ (IF 0 > n - 1 THEN 0 ELSE n - 1 - 0 + 1) = n
    OBVIOUS
  <2> QED
    BY <2>1, FS_Interval
<1>7. r \in Surjection(H, 0 .. N - 1)
  <2> HIDE DEF r
  <2> QED
    BY <1>1, <1>5, <1>6, FS_Injection
<1>8. F \in SUBSET H /\ IsFiniteSet(F)
  <2>1. F \in SUBSET H
    OBVIOUS
  <2> HIDE DEF F
  <2> QED
    BY <2>1, FS_Subset
<1>9. ASSUME N <= c PROVE F = H
  <2>1. \A i \in H : R(i) < c
    <3> HIDE DEF R, N
    <3> QED
      BY <1>1, <1>4, <1>9
  <2> QED
    BY <2>1
<1>10. ASSUME c <= N PROVE Cardinality(F) = c
  <2> DEFINE g == [i \in F |-> R(i)]
  <2>1. g \in [F -> 0 .. c - 1]
    <3>1. \A i \in F : R(i) \in Nat /\ R(i) < c
      BY <1>2
    <3>2. \A i \in F : R(i) \in 0 .. c - 1
      <4> HIDE DEF R, F
      <4> QED
        BY <3>1
    <3> HIDE DEF R, F
    <3> QED
      BY <3>2
  <2>2. \A i, j \in F : g[i] = g[j] => i = j
    <3>1. \A i, j \in H : r[i] = r[j] => i = j
      BY <1>5 DEF Injection, IsInjective
    <3> HIDE DEF R
    <3> QED
      BY <3>1
  <2>3. \A n \in 0 .. c - 1 : \E i \in F : g[i] = n
    <3>1. \A n \in 0 .. N - 1 : \E i \in H : r[i] = n
      BY <1>7 DEF Surjection
    <3> HIDE DEF R, N
    <3> QED
      BY <1>1, <1>10, <3>1
  <2> HIDE DEF F, g
  <2>4. g \in Bijection(F, 0 .. c - 1)
    BY <2>1, <2>2, <2>3 DEF Bijection, Injection, Surjection, IsInjective
  <2>5. ExistsBijection(F, 0 .. c - 1)
    BY <2>4 DEF ExistsBijection
  <2> QED
    BY <1>6, <1>8, <2>5, FS_Bijection
<1> HIDE DEF F, N
<1>11. Cardinality(F) = IF N < c THEN N ELSE c
  BY <1>1, <1>9, <1>10 DEF N
<1> QED
  BY <1>8, <1>9, <1>11 DEF F, N

\* Sets that are taken apart into parts of the same sizes have one size.
LEMMA Glued ==
  ASSUME NEW K, NEW U, NEW A \in [K -> SUBSET U], NEW B \in [K -> SUBSET U], IsFiniteSet(U),
         \A k, l \in K : k # l => A[k] \cap A[l] = {} /\ B[k] \cap B[l] = {},
         \A k \in K : Cardinality(A[k]) = Cardinality(B[k])
  PROVE  Cardinality(UNION {A[k] : k \in K}) = Cardinality(UNION {B[k] : k \in K})
<1> DEFINE G == [k \in K |-> CHOOSE f : f \in Bijection(A[k], B[k])]
           S == UNION {A[k] : k \in K}
           T == UNION {B[k] : k \in K}
           Of(x) == CHOOSE k \in K : x \in A[k]
           g == [x \in S |-> G[Of(x)][x]]
<1>1. ASSUME NEW k \in K PROVE G[k] \in Bijection(A[k], B[k])
  <2>1. IsFiniteSet(A[k]) /\ IsFiniteSet(B[k])
    BY FS_Subset
  <2>2. \E f : f \in Bijection(A[k], B[k])
    BY <2>1, FS_SameCardinalityBij DEF ExistsBijection
  <2> QED
    BY <2>2
<1>2. ASSUME NEW k \in K, NEW x \in A[k] PROVE Of(x) = k
  BY <1>2
<1> HIDE DEF Of, G
<1>3. ASSUME NEW k \in K, NEW x \in A[k] PROVE x \in S /\ g[x] = G[k][x] /\ g[x] \in B[k]
  <2>1. x \in S /\ g[x] = G[k][x]
    BY <1>2
  <2>2. G[k] \in [A[k] -> B[k]]
    BY <1>1 DEF Bijection, Injection
  <2> QED
    BY <2>1, <2>2
<1>4. g \in Bijection(S, T)
  <2>1. g \in [S -> T]
    <3>1. \A x \in S : \E k \in K : x \in A[k]
      OBVIOUS
    <3>2. ASSUME NEW x \in S PROVE g[x] \in T
      <4>1. PICK k \in K : x \in A[k]
        BY <3>1
      <4>2. g[x] \in B[k]
        BY <1>3, <4>1
      <4> HIDE DEF g
      <4> QED
        BY <4>2
    <3>3. \A x \in S : G[Of(x)][x] \in T
      BY <3>2
    <3> QED
      BY <3>3
  <2>2. ASSUME NEW x \in S, NEW y \in S, g[x] = g[y] PROVE x = y
    <3>1. PICK k \in K : x \in A[k]
      OBVIOUS
    <3>2. PICK l \in K : y \in A[l]
      OBVIOUS
    <3> HIDE DEF g
    <3>3. k = l
      BY <1>3, <2>2, <3>1, <3>2
    <3>4. G[k][x] = G[k][y]
      BY <1>3, <2>2, <3>1, <3>2, <3>3
    <3> QED
      BY <1>1, <3>1, <3>2, <3>3, <3>4 DEF Bijection, Injection, IsInjective
  <2>3. ASSUME NEW y \in T PROVE \E x \in S : g[x] = y
    <3>1. PICK k \in K : y \in B[k]
      OBVIOUS
    <3>2. PICK x \in A[k] : G[k][x] = y
      BY <1>1, <3>1 DEF Bijection, Surjection
    <3> QED
      BY <1>3, <3>2
  <2> HIDE DEF g, S, T
  <2> QED
    BY <2>1, <2>2, <2>3 DEF Bijection, Injection, Surjection, IsInjective
<1>5. S \in SUBSET U
  OBVIOUS
<1>6. ExistsBijection(S, T)
  BY <1>4 DEF ExistsBijection
<1> HIDE DEF S, T
<1>7. Cardinality(S) = Cardinality(T)
  BY <1>5, <1>6, FS_Subset, FS_Bijection
<1> QED
  BY <1>7 DEF S, T

----
(* The comparison. *)

\* The places of a script are finitely many, and each has a line that says something.
LEMMA PositionsAre ==
  ASSUME NEW s \in Scripts \cup Manifested
  PROVE  /\ Len(s["pre"]) \in Nat /\ Len(s["post"]) \in Nat
         /\ DOMAIN s["pre"] = 1 .. Len(s["pre"]) /\ DOMAIN s["post"] = 1 .. Len(s["post"])
         /\ IsFiniteSet(Positions(s)) /\ Positions(s) \in SUBSET Nat
         /\ \A i \in Positions(s) :
              /\ PhaseAt(s, i) \in Phases /\ LineAt(s, i).arg # Blank
              /\ \E j \in DOMAIN s[PhaseAt(s, i)] : LineAt(s, i) = s[PhaseAt(s, i)][j]
<1>1. /\ s["pre"] \in Seq({s["pre"][i] : i \in DOMAIN s["pre"]})
      /\ s["post"] \in Seq({s["post"][i] : i \in DOMAIN s["post"]})
      /\ \A i \in DOMAIN s["pre"] : s["pre"][i].arg # Blank
      /\ \A i \in DOMAIN s["post"] : s["post"][i].arg # Blank
  BY ChecksAssumption DEF Phases
<1>2. /\ Len(s["pre"]) \in Nat /\ Len(s["post"]) \in Nat
      /\ DOMAIN s["pre"] = 1 .. Len(s["pre"]) /\ DOMAIN s["post"] = 1 .. Len(s["post"])
  BY <1>1, LenProperties
<1>3. IsFiniteSet(Positions(s)) /\ Positions(s) \in SUBSET Nat
  <2>1. 1 \in Int /\ Len(s["pre"]) + Len(s["post"]) \in Int
    BY <1>2
  <2>2. IsFiniteSet(Positions(s))
    BY <2>1, FS_Interval, Zenon DEF Positions
  <2>3. Len(s["pre"]) + Len(s["post"]) \in Nat
    <3>1. \A a, b \in Nat : a + b \in Nat
      OBVIOUS
    <3> QED
      BY <1>2, <3>1, Zenon
  <2>4. \A i \in 1 .. Len(s["pre"]) + Len(s["post"]) : i \in Nat
    BY <2>3
  <2> QED
    BY <2>2, <2>4 DEF Positions
<1>4. ASSUME NEW i \in Positions(s)
      PROVE  /\ PhaseAt(s, i) \in Phases /\ LineAt(s, i).arg # Blank
             /\ \E j \in DOMAIN s[PhaseAt(s, i)] : LineAt(s, i) = s[PhaseAt(s, i)][j]
  <2>1. CASE i <= Len(s["pre"])
    <3>1. PhaseAt(s, i) = "pre" /\ LineAt(s, i) = s["pre"][i] /\ i \in DOMAIN s["pre"]
      BY <1>2, <2>1 DEF PhaseAt, LineAt, Positions
    <3> QED
      BY <1>1, <3>1 DEF Phases
  <2>2. CASE ~(i <= Len(s["pre"]))
    <3>1. PhaseAt(s, i) = "post" /\ LineAt(s, i) = s["post"][i - Len(s["pre"])]
      BY <2>2 DEF PhaseAt, LineAt
    <3>2. i \in 1 .. Len(s["pre"]) + Len(s["post"])
      BY DEF Positions
    <3>3. i - Len(s["pre"]) \in 1 .. Len(s["post"])
      <4>1. \A a, b \in Nat : \A j \in 1 .. a + b : ~(j <= a) => j - a \in 1 .. b
        OBVIOUS
      <4> QED
        BY <1>2, <2>2, <3>2, <4>1, Zenon
    <3> QED
      BY <1>1, <1>2, <3>1, <3>3 DEF Phases
  <2> QED
    BY <2>1, <2>2
<1> QED
  BY <1>2, <1>3, <1>4

\* An entry is told by its fields, and is expected a number of times.
LEMMA EntriesAre ==
  ASSUME NEW s \in Scripts \cup Manifested
  PROVE  /\ \A k \in DOMAIN Extract(s) :
              /\ Extract(s)[k] = Cardinality({i \in Positions(s) : EntryAt(s, i) = k})
              /\ Extract(s)[k] \in Nat
         /\ \A k, l \in DOMAIN Extract(s) :
              /\ k.phase = l.phase /\ k.check = l.check /\ k.negated = l.negated /\ k.args = l.args
              => k = l
<1>1. ASSUME NEW k \in DOMAIN Extract(s)
      PROVE  /\ Extract(s)[k] = Cardinality({i \in Positions(s) : EntryAt(s, i) = k})
             /\ Extract(s)[k] \in Nat
  <2>1. {i \in Positions(s) : EntryAt(s, i) = k} \in SUBSET Positions(s)
    OBVIOUS
  <2>2. Extract(s)[k] = Cardinality({i \in Positions(s) : EntryAt(s, i) = k})
    BY DEF Extract
  <2> QED
    BY <2>1, <2>2, PositionsAre, FS_Subset, FS_CardinalityType
<1>2. ASSUME NEW k \in DOMAIN Extract(s), NEW l \in DOMAIN Extract(s),
             k.phase = l.phase, k.check = l.check, k.negated = l.negated, k.args = l.args
      PROVE  k = l
  <2>1. PICK i \in Positions(s) : k = EntryAt(s, i)
    BY DEF Extract
  <2>2. PICK j \in Positions(s) : l = EntryAt(s, j)
    BY DEF Extract
  <2> QED
    BY <1>2, <2>1, <2>2 DEF EntryAt, Entry, Key
<1> QED
  BY <1>1, <1>2

\* Entries that are served together take different records, each of them records that it
\* meets, and no more than it expects.
LEMMA ServedApart ==
  ASSUME NEW s \in Scripts \cup Manifested, NEW rs, NEW left \in SUBSET Nat, IsFiniteSet(left),
         NEW k \in DOMAIN Extract(s)
  PROVE  LET T == TakenBy(Extract(s), rs, left, k)
             H == {i \in left : Meets(rs[i], k)} IN
         /\ T \in SUBSET H /\ IsFiniteSet(T)
         /\ Cardinality(T) = IF Cardinality(H) < Extract(s)[k] THEN Cardinality(H) ELSE Extract(s)[k]
         /\ Cardinality(H) <= Extract(s)[k] => T = H
         /\ \A l \in DOMAIN Extract(s) : \A i \in left :
              i \in T /\ Meets(rs[i], l) /\ (k.args = Blank <=> l.args = Blank) => k = l
<1> DEFINE T == TakenBy(Extract(s), rs, left, k)
           H == {i \in left : Meets(rs[i], k)}
<1>1. T = {i \in H : Cardinality({j \in H : j < i}) < Extract(s)[k]}
  BY DEF TakenBy
<1>2. H \in SUBSET left /\ H \in SUBSET Nat /\ IsFiniteSet(H)
  <2>1. H \in SUBSET left
    OBVIOUS
  <2> HIDE DEF H
  <2> QED
    BY <2>1, FS_Subset
<1>3. Extract(s)[k] \in Nat
  BY EntriesAre
<1>4. ASSUME NEW l \in DOMAIN Extract(s), NEW i \in left, i \in H, Meets(rs[i], l),
             k.args = Blank <=> l.args = Blank
      PROVE  k = l
  <2>1. k.phase = l.phase /\ k.check = l.check /\ k.negated = l.negated /\ k.args = l.args
    BY <1>4 DEF Meets
  <2> QED
    BY <2>1, EntriesAre
<1> HIDE DEF H, T
<1>5. /\ T \in SUBSET H /\ IsFiniteSet(T)
      /\ Cardinality(T) = IF Cardinality(H) < Extract(s)[k] THEN Cardinality(H) ELSE Extract(s)[k]
      /\ Cardinality(H) <= Extract(s)[k] => T = H
  BY <1>1, <1>2, <1>3, FirstsAre
<1> QED
  BY <1>4, <1>5 DEF H, T

\* Who serves whom: those that name their arguments from all records, the others from
\* what they left.
ServedTo(m, rs, k) ==
  IF k \in FirstServed(m) THEN TakenBy(m, rs, DOMAIN rs, k) ELSE TakenBy(m, rs, LeftOver(m, rs), k)

\* No record is taken twice.
LEMMA TakenOnce ==
  ASSUME NEW s \in Scripts \cup Manifested, NEW rs, DOMAIN rs \in SUBSET Nat, IsFiniteSet(DOMAIN rs),
         NEW k \in DOMAIN Extract(s)
  PROVE  LET m == Extract(s) IN
         /\ ServedTo(m, rs, k) \in SUBSET DOMAIN rs
         /\ \A i \in ServedTo(m, rs, k) : Meets(rs[i], k)
         /\ Cardinality(ServedTo(m, rs, k)) \in Nat /\ m[k] \in Nat
         /\ Cardinality(ServedTo(m, rs, k)) <= m[k]
         /\ \A l \in DOMAIN m : k # l => ServedTo(m, rs, k) \cap ServedTo(m, rs, l) = {}
<1> DEFINE m == Extract(s)
           D == DOMAIN rs
           L == LeftOver(m, rs)
<1>1. L \in SUBSET D /\ IsFiniteSet(L) /\ L \in SUBSET Nat
  <2>1. L \in SUBSET D
    BY DEF LeftOver
  <2> HIDE DEF L
  <2> QED
    BY <2>1, FS_Subset
<1>2. \A l \in DOMAIN m : m[l] \in Nat
  BY EntriesAre
<1>3. ASSUME NEW left \in SUBSET Nat, IsFiniteSet(left), NEW l \in DOMAIN m
      PROVE  /\ TakenBy(m, rs, left, l) \in SUBSET left
             /\ \A i \in TakenBy(m, rs, left, l) : Meets(rs[i], l)
             /\ Cardinality(TakenBy(m, rs, left, l)) \in Nat
             /\ Cardinality(TakenBy(m, rs, left, l)) <= m[l]
             /\ \A n \in DOMAIN m : \A i \in left :
                  i \in TakenBy(m, rs, left, l) /\ Meets(rs[i], n) /\ (l.args = Blank <=> n.args = Blank)
                    => l = n
  <2> DEFINE H == {i \in left : Meets(rs[i], l)}
             T == TakenBy(m, rs, left, l)
  <2>1. /\ T \in SUBSET H /\ IsFiniteSet(T)
        /\ Cardinality(T) = IF Cardinality(H) < m[l] THEN Cardinality(H) ELSE m[l]
        /\ \A n \in DOMAIN m : \A i \in left :
             i \in T /\ Meets(rs[i], n) /\ (l.args = Blank <=> n.args = Blank) => l = n
    BY <1>3, ServedApart
  <2>2. H \in SUBSET left /\ \A i \in H : Meets(rs[i], l)
    OBVIOUS
  <2> HIDE DEF H, T, m
  <2>3. Cardinality(H) \in Nat
    BY <1>3, <2>2, FS_Subset, FS_CardinalityType
  <2>4. Cardinality(T) \in Nat /\ Cardinality(T) <= m[l]
    BY <1>2, <2>1, <2>3
  <2>5. T \in SUBSET left /\ \A i \in T : Meets(rs[i], l)
    BY <2>1, <2>2
  <2> QED
    BY <2>1, <2>4, <2>5 DEF T
<1> HIDE DEF m
<1>4. ASSUME NEW l \in DOMAIN m
      PROVE  /\ ServedTo(m, rs, l) \in SUBSET D
             /\ \A i \in ServedTo(m, rs, l) : Meets(rs[i], l)
             /\ Cardinality(ServedTo(m, rs, l)) \in Nat /\ Cardinality(ServedTo(m, rs, l)) <= m[l]
             /\ \A n \in DOMAIN m : \A i \in D :
                  i \in ServedTo(m, rs, l) /\ Meets(rs[i], n) /\ (l.args = Blank <=> n.args = Blank)
                    => l = n
  <2>1. CASE l \in FirstServed(m)
    <3>1. ServedTo(m, rs, l) = TakenBy(m, rs, D, l)
      BY <2>1 DEF ServedTo
    <3> HIDE DEF L
    <3> QED
      BY <1>3, <3>1
  <2>2. CASE l \notin FirstServed(m)
    <3>1. ServedTo(m, rs, l) = TakenBy(m, rs, L, l)
      BY <2>2 DEF ServedTo
    <3> HIDE DEF L
    <3> QED
      BY <1>1, <1>3, <3>1
  <2> QED
    BY <2>1, <2>2
<1>5. ASSUME NEW l \in FirstServed(m), NEW n \in DOMAIN m \ FirstServed(m)
      PROVE  ServedTo(m, rs, l) \cap ServedTo(m, rs, n) = {}
  <2>1. ServedTo(m, rs, n) = TakenBy(m, rs, L, n) /\ ServedTo(m, rs, l) = TakenBy(m, rs, D, l)
    BY DEF ServedTo
  <2>2. L \cap TakenBy(m, rs, D, l) = {}
    BY DEF LeftOver, Served
  <2>3. TakenBy(m, rs, L, n) \in SUBSET L
    <3> HIDE DEF L
    <3> QED
      BY <1>1, <1>3
  <2> QED
    BY <2>1, <2>2, <2>3
<1>6. ASSUME NEW l \in DOMAIN m, k # l, NEW i \in ServedTo(m, rs, k), i \in ServedTo(m, rs, l)
      PROVE  FALSE
  <2>1. CASE k.args = Blank <=> l.args = Blank
    BY <1>4, <1>6, <2>1 DEF m
  <2>2. CASE k \in FirstServed(m) /\ l \notin FirstServed(m)
    BY <1>5, <1>6, <2>2
  <2>3. CASE k \notin FirstServed(m) /\ l \in FirstServed(m)
    BY <1>5, <1>6, <2>3 DEF m
  <2> QED
    BY <2>1, <2>2, <2>3 DEF FirstServed, m
<1> QED
  BY <1>2, <1>4, <1>6 DEF m

\* Records that were not found to drift answer their manifest, place by place.
LEMMA UndriftedAnswers ==
  ASSUME NEW s \in Scripts \cup Manifested, NEW rs, DOMAIN rs \in SUBSET Nat, IsFiniteSet(DOMAIN rs),
         CompareRecords(Extract(s), rs).missing = {}, CompareRecords(Extract(s), rs).unexpected = {}
  PROVE  Answered(Extract(s), rs)
<1> DEFINE m == Extract(s)
           To(k) == ServedTo(m, rs, k)
           f == [i \in DOMAIN rs |-> CHOOSE k \in DOMAIN m : i \in To(k)]
<1>1. /\ Missing(m, rs, DOMAIN rs, FirstServed(m)) = {}
      /\ Missing(m, rs, LeftOver(m, rs), DOMAIN m \ FirstServed(m)) = {}
      /\ LeftOver(m, rs) \in SUBSET Served(m, rs, LeftOver(m, rs), DOMAIN m \ FirstServed(m))
  BY DEF CompareRecords
<1>2. FirstServed(m) \in SUBSET DOMAIN m
  BY DEF FirstServed
<1>3. ASSUME NEW k \in DOMAIN m
      PROVE  /\ To(k) \in SUBSET DOMAIN rs
             /\ \A i \in To(k) : Meets(rs[i], k)
             /\ Cardinality(To(k)) \in Nat /\ m[k] \in Nat /\ Cardinality(To(k)) <= m[k]
             /\ \A l \in DOMAIN m : k # l => To(k) \cap To(l) = {}
  BY TakenOnce
<1> HIDE DEF m
<1>4. ASSUME NEW k \in DOMAIN m PROVE Cardinality(To(k)) = m[k]
  <2>1. ~(Cardinality(To(k)) < m[k])
    BY <1>1 DEF Missing, ServedTo
  <2> HIDE DEF To
  <2> QED
    BY <1>3, <2>1
<1>5. ASSUME NEW i \in DOMAIN rs PROVE \E k \in DOMAIN m : i \in To(k)
  <2>1. CASE i \in LeftOver(m, rs)
    <3>1. i \in Served(m, rs, LeftOver(m, rs), DOMAIN m \ FirstServed(m))
      BY <1>1, <2>1
    <3>2. PICK k \in DOMAIN m \ FirstServed(m) : i \in TakenBy(m, rs, LeftOver(m, rs), k)
      BY <3>1 DEF Served
    <3> QED
      BY <3>2 DEF ServedTo
  <2>2. CASE i \notin LeftOver(m, rs)
    <3>1. PICK k \in FirstServed(m) : i \in TakenBy(m, rs, DOMAIN rs, k)
      BY <2>2 DEF LeftOver, Served
    <3> QED
      BY <1>2, <3>1 DEF ServedTo
  <2> QED
    BY <2>1, <2>2
<1> HIDE DEF To
<1>6. ASSUME NEW i \in DOMAIN rs PROVE f[i] \in DOMAIN m /\ i \in To(f[i])
  BY <1>5
<1>7. f \in [DOMAIN rs -> DOMAIN m]
  BY <1>6
<1> HIDE DEF f
<1>8. ASSUME NEW k \in DOMAIN m PROVE {i \in DOMAIN rs : f[i] = k} = To(k)
  <2>1. \A i \in DOMAIN rs : f[i] = k => i \in To(k)
    BY <1>6
  <2>2. \A i \in To(k) : i \in DOMAIN rs /\ f[i] = k
    BY <1>3, <1>6
  <2> QED
    BY <2>1, <2>2
<1>9. \A i \in DOMAIN rs : Meets(rs[i], f[i])
  BY <1>3, <1>6
<1>10. \A k \in DOMAIN m : Cardinality({i \in DOMAIN rs : f[i] = k}) = m[k]
  BY <1>4, <1>8
<1> QED
  BY <1>7, <1>9, <1>10 DEF Answered, m

\* A record that a line leaves when it runs to its answer, and a run in which every line did.
Fits(s, i, r) ==
  /\ r.status = "completed"
  /\ r.phase = PhaseAt(s, i) /\ r.negated = LineAt(s, i).negated
  /\ r.check = EntryAt(s, i).check
  /\ ~LineAt(s, i).dollar => r.args = LineAt(s, i).arg
Whole(s, rs) == DOMAIN rs = Positions(s) /\ \A i \in Positions(s) : Fits(s, i, rs[i])

\* The records of a whole run that differ from a key in their arguments alone.
Alike(s, rs, k) ==
  {j \in Positions(s) : rs[j].phase = k.phase /\ rs[j].check = k.check /\ rs[j].negated = k.negated}

LEMMA WholeFits ==
  ASSUME NEW s \in Scripts, NEW rs, Whole(s, rs), NEW i \in Positions(s)
  PROVE  LET k == EntryAt(s, i) IN
         /\ k \in DOMAIN Extract(s)
         /\ k.phase = rs[i].phase /\ k.check = rs[i].check /\ k.negated = rs[i].negated
         /\ k.args # Blank => k.args = rs[i].args
         /\ Meets(rs[i], k)
<1>1. EntryAt(s, i) \in DOMAIN Extract(s)
  BY DEF Extract
<1>2. LineAt(s, i).arg # Blank
  BY PositionsAre
<1>3. /\ EntryAt(s, i).phase = PhaseAt(s, i) /\ EntryAt(s, i).negated = LineAt(s, i).negated
      /\ EntryAt(s, i).args = IF LineAt(s, i).dollar THEN Blank ELSE LineAt(s, i).arg
  BY DEF EntryAt, Entry, Key
<1>4. Fits(s, i, rs[i])
  BY DEF Whole
<1> QED
  BY <1>1, <1>2, <1>3, <1>4 DEF Fits, Meets

\* Of the records that are alike, those that name their arguments take as many as there are
\* lines that do: so what is left is as many as the lines that do not.
LEMMA AlikeLeft ==
  ASSUME NEW s \in Scripts, NEW rs, Whole(s, rs), NEW c
  PROVE  LET m == Extract(s)  C == Alike(s, rs, c) IN
         /\ Missing(m, rs, DOMAIN rs, FirstServed(m)) = {}
         /\ IsFiniteSet(C)
         /\ Cardinality(C \cap LeftOver(m, rs)) = Cardinality({j \in C : EntryAt(s, j).args = Blank})
<1> DEFINE m == Extract(s)
           P == Positions(s)
           C == Alike(s, rs, c)
           K == {k \in FirstServed(m) : k.phase = c.phase /\ k.check = c.check /\ k.negated = c.negated}
           A == [k \in K |-> TakenBy(m, rs, P, k)]
           B == [k \in K |-> {i \in P : EntryAt(s, i) = k}]
<1>1. DOMAIN rs = P /\ IsFiniteSet(P) /\ P \in SUBSET Nat
  BY PositionsAre DEF Whole
<1>2. ASSUME NEW k \in FirstServed(m)
      PROVE  /\ TakenBy(m, rs, P, k) \in SUBSET P
             /\ \A i \in TakenBy(m, rs, P, k) : Meets(rs[i], k)
             /\ Cardinality(TakenBy(m, rs, P, k)) = Cardinality({i \in P : EntryAt(s, i) = k})
             /\ Cardinality(TakenBy(m, rs, P, k)) = m[k]
             /\ m[k] \in Nat
             /\ \A l \in DOMAIN m : \A i \in P :
                  i \in TakenBy(m, rs, P, k) /\ Meets(rs[i], l) /\ (k.args = Blank <=> l.args = Blank)
                    => k = l
  <2> DEFINE H == {i \in P : Meets(rs[i], k)}
             D == {i \in P : EntryAt(s, i) = k}
             T == TakenBy(m, rs, P, k)
  <2>1. k \in DOMAIN m
    BY DEF FirstServed
  <2>2. m[k] = Cardinality(D) /\ m[k] \in Nat
    BY <2>1, EntriesAre
  <2>3. D \in SUBSET H
    BY WholeFits
  <2>4. /\ T \in SUBSET H
        /\ Cardinality(T) = IF Cardinality(H) < m[k] THEN Cardinality(H) ELSE m[k]
        /\ \A l \in DOMAIN m : \A i \in P :
             i \in T /\ Meets(rs[i], l) /\ (k.args = Blank <=> l.args = Blank) => k = l
    BY <1>1, <2>1, ServedApart
  <2>5. H \in SUBSET P /\ \A i \in H : Meets(rs[i], k)
    OBVIOUS
  <2> HIDE DEF H, D, T, m, P
  <2>6. Cardinality(H) \in Nat /\ Cardinality(D) <= Cardinality(H)
    BY <1>1, <2>3, <2>5, FS_Subset, FS_CardinalityType
  <2>7. Cardinality(T) = m[k]
    BY <2>2, <2>4, <2>6
  <2> QED
    BY <2>2, <2>4, <2>5, <2>7 DEF T, D
<1>3. Missing(m, rs, DOMAIN rs, FirstServed(m)) = {}
  <2>1. \A a, b : b \in Nat /\ a = b => ~(a < b)
    OBVIOUS
  <2> HIDE DEF m, P
  <2>2. \A k \in FirstServed(m) : ~(Cardinality(TakenBy(m, rs, P, k)) < m[k])
    BY <1>2, <2>1, Zenon
  <2> QED
    BY <1>1, <2>2, Zenon DEF Missing
<1>4. C \in SUBSET P /\ IsFiniteSet(C)
  <2>1. C \in SUBSET P
    BY DEF Alike
  <2> HIDE DEF C, P
  <2> QED
    BY <1>1, <2>1, FS_Subset
<1>5. \A k \in K : k \in FirstServed(m) /\ k \in DOMAIN m /\ k.args # Blank
  BY DEF FirstServed
<1>6. Cardinality(UNION {A[k] : k \in K}) = Cardinality(UNION {B[k] : k \in K})
  <2>1. A \in [K -> SUBSET P]
    <3> HIDE DEF m, P
    <3> QED
      BY <1>2
  <2>2. B \in [K -> SUBSET P]
    OBVIOUS
  <2>3. ASSUME NEW k \in K, NEW l \in K, k # l PROVE A[k] \cap A[l] = {} /\ B[k] \cap B[l] = {}
    <3>1. B[k] \cap B[l] = {}
      BY <2>3
    <3>2. ASSUME NEW i \in P, i \in TakenBy(m, rs, P, k), i \in TakenBy(m, rs, P, l) PROVE FALSE
      <4>1. k \in DOMAIN m /\ l \in DOMAIN m /\ (k.args = Blank <=> l.args = Blank) /\ Meets(rs[i], l)
        BY <1>2, <1>5, <3>2
      <4>2. k = l
        BY <1>2, <1>5, <3>2, <4>1, Zenon
      <4> QED
        BY <2>3, <4>2
    <3>3. TakenBy(m, rs, P, k) \in SUBSET P
      BY <1>2
    <3> QED
      BY <3>1, <3>2, <3>3
  <2>4. \A k \in K : Cardinality(A[k]) = Cardinality(B[k])
    BY <1>2
  <2> HIDE DEF K, A, B, P
  <2> QED
    BY <1>1, <2>1, <2>2, <2>3, <2>4, Glued
<1>7. UNION {A[k] : k \in K} = C \ LeftOver(m, rs)
  <2>1. ASSUME NEW k \in K, NEW i \in TakenBy(m, rs, P, k) PROVE i \in C /\ i \notin LeftOver(m, rs)
    <3>1. i \in P /\ Meets(rs[i], k)
      BY <1>2, <1>5
    <3>2. i \in C
      BY <3>1 DEF Alike, Meets
    <3>3. i \in Served(m, rs, DOMAIN rs, FirstServed(m))
      BY <1>1, <1>5, <2>1 DEF Served
    <3> QED
      BY <3>2, <3>3 DEF LeftOver
  <2>2. ASSUME NEW i \in C, i \notin LeftOver(m, rs) PROVE \E k \in K : i \in TakenBy(m, rs, P, k)
    <3>1. i \in DOMAIN rs
      BY <1>1, <1>4
    <3>2. PICK k \in FirstServed(m) : i \in TakenBy(m, rs, P, k)
      BY <1>1, <2>2, <3>1 DEF LeftOver, Served
    <3>3. Meets(rs[i], k)
      BY <1>2, <3>2
    <3>4. k \in K
      BY <3>3 DEF Alike, Meets
    <3> QED
      BY <3>2, <3>4
  <2> QED
    BY <2>1, <2>2
<1>8. UNION {B[k] : k \in K} = {j \in C : EntryAt(s, j).args # Blank}
  <2>1. ASSUME NEW k \in K, NEW i \in P, EntryAt(s, i) = k PROVE i \in C /\ EntryAt(s, i).args # Blank
    <3>1. rs[i].phase = k.phase /\ rs[i].check = k.check /\ rs[i].negated = k.negated
      BY <2>1, WholeFits
    <3> QED
      BY <1>5, <2>1, <3>1 DEF Alike
  <2>2. ASSUME NEW i \in C, EntryAt(s, i).args # Blank PROVE i \in P /\ EntryAt(s, i) \in K
    <3>1. i \in P
      BY <1>4
    <3>2. /\ EntryAt(s, i) \in FirstServed(m)
          /\ EntryAt(s, i).phase = c.phase /\ EntryAt(s, i).check = c.check
          /\ EntryAt(s, i).negated = c.negated
      BY <2>2, <3>1, WholeFits DEF FirstServed, Alike
    <3> QED
      BY <3>1, <3>2
  <2> HIDE DEF K, C
  <2> QED
    BY <2>1, <2>2
<1> DEFINE T == C \ LeftOver(m, rs)
           X == {j \in C : EntryAt(s, j).args # Blank}
<1>9. Cardinality(T) = Cardinality(X)
  BY <1>6, <1>7, <1>8
<1>10. C \cap LeftOver(m, rs) = C \ T /\ {j \in C : EntryAt(s, j).args = Blank} = C \ X
  OBVIOUS
<1>11. C \cap T = T /\ C \cap X = X
  OBVIOUS
<1> HIDE DEF C, T, X
<1>12. Cardinality(C \ T) = Cardinality(C \ X)
  <2>1. /\ Cardinality(C \ T) = Cardinality(C) - Cardinality(C \cap T)
        /\ Cardinality(C \ X) = Cardinality(C) - Cardinality(C \cap X)
    BY <1>4, FS_Difference, Zenon
  <2> QED
    BY <1>9, <1>11, <2>1, Zenon
<1> QED
  BY <1>3, <1>4, <1>10, <1>12 DEF C

\* A run in which every line ran to its answer is never said to have drifted.
LEMMA WholeIsUndrifted ==
  ASSUME NEW s \in Scripts, NEW rs, Whole(s, rs)
  PROVE  /\ CompareRecords(Extract(s), rs).missing = {}
         /\ CompareRecords(Extract(s), rs).unexpected = {}
<1> DEFINE m == Extract(s)
           P == Positions(s)
           L == LeftOver(m, rs)
           O == DOMAIN m \ FirstServed(m)
<1>1. DOMAIN rs = P /\ IsFiniteSet(P) /\ P \in SUBSET Nat
  BY PositionsAre DEF Whole
<1>2. L \in SUBSET P /\ L \in SUBSET Nat /\ IsFiniteSet(L)
  <2>1. L \in SUBSET P
    BY <1>1 DEF LeftOver
  <2> HIDE DEF L, P
  <2> QED
    BY <1>1, <2>1, FS_Subset
<1>3. ASSUME NEW k \in O
      PROVE  /\ TakenBy(m, rs, L, k) = Alike(s, rs, k) \cap L
             /\ ~(Cardinality(TakenBy(m, rs, L, k)) < m[k])
  <2> DEFINE H == {i \in L : Meets(rs[i], k)}
             D == {i \in P : EntryAt(s, i) = k}
  <2>1. k \in DOMAIN m /\ k.args = Blank
    BY DEF FirstServed
  <2>2. m[k] = Cardinality(D) /\ m[k] \in Nat
    BY <2>1, EntriesAre
  <2>3. H = Alike(s, rs, k) \cap L
    BY <1>2, <2>1 DEF Alike, Meets
  <2>4. {j \in Alike(s, rs, k) : EntryAt(s, j).args = Blank} = D
    <3>1. ASSUME NEW j \in Alike(s, rs, k), EntryAt(s, j).args = Blank PROVE j \in D
      <4>1. j \in P /\ rs[j].phase = k.phase /\ rs[j].check = k.check /\ rs[j].negated = k.negated
        BY DEF Alike
      <4>2. /\ EntryAt(s, j) \in DOMAIN m
            /\ EntryAt(s, j).phase = k.phase /\ EntryAt(s, j).check = k.check
            /\ EntryAt(s, j).negated = k.negated
        BY <4>1, WholeFits
      <4>3. EntryAt(s, j) = k
        BY <2>1, <3>1, <4>2, EntriesAre
      <4> QED
        BY <4>1, <4>3
    <3>2. ASSUME NEW j \in D PROVE j \in Alike(s, rs, k) /\ EntryAt(s, j).args = Blank
      BY <2>1, <3>2, WholeFits DEF Alike
    <3> HIDE DEF D
    <3> QED
      BY <3>1, <3>2
  <2>5. Cardinality(H) = m[k]
    BY <2>2, <2>3, <2>4, AlikeLeft
  <2>6. /\ Cardinality(TakenBy(m, rs, L, k)) = IF Cardinality(H) < m[k] THEN Cardinality(H) ELSE m[k]
        /\ Cardinality(H) <= m[k] => TakenBy(m, rs, L, k) = H
    BY <1>2, <2>1, ServedApart
  <2> HIDE DEF H, D, L, m
  <2>7. TakenBy(m, rs, L, k) = H /\ Cardinality(TakenBy(m, rs, L, k)) = m[k]
    BY <2>2, <2>5, <2>6
  <2> QED
    BY <2>2, <2>3, <2>7
<1>4. Missing(m, rs, DOMAIN rs, FirstServed(m)) = {}
  BY AlikeLeft
<1>5. Missing(m, rs, L, O) = {}
  BY <1>3 DEF Missing
<1>6. ASSUME NEW i \in L PROVE i \in Served(m, rs, L, O)
  <2> DEFINE C == Alike(s, rs, rs[i])
             W == {j \in C : EntryAt(s, j).args = Blank}
  <2>1. i \in C \cap L
    BY <1>2 DEF Alike
  <2>2. IsFiniteSet(C) /\ Cardinality(C \cap L) = Cardinality(W)
    BY AlikeLeft
  <2>3. W # {}
    <3> SUFFICES ASSUME W = {} PROVE FALSE
      OBVIOUS
    <3>1. Cardinality(C \cap L) = 0
      BY <2>2, FS_EmptySet
    <3>2. IsFiniteSet(C \cap L)
      <4>1. C \cap L \in SUBSET C
        OBVIOUS
      <4> HIDE DEF C, L
      <4> QED
        BY <2>2, <4>1, FS_Subset
    <3> HIDE DEF C, L
    <3> QED
      BY <2>1, <3>1, <3>2, FS_EmptySet
  <2>4. PICK j \in C : EntryAt(s, j).args = Blank
    BY <2>3
  <2> DEFINE k == EntryAt(s, j)
  <2>5. /\ j \in P /\ rs[j].phase = rs[i].phase /\ rs[j].check = rs[i].check
        /\ rs[j].negated = rs[i].negated
    BY DEF Alike
  <2>6. k \in O /\ k.phase = rs[i].phase /\ k.check = rs[i].check /\ k.negated = rs[i].negated
    BY <2>4, <2>5, WholeFits DEF FirstServed
  <2>7. i \in Alike(s, rs, k)
    BY <1>2, <2>6 DEF Alike
  <2>8. i \in TakenBy(m, rs, L, k)
    BY <1>3, <2>6, <2>7
  <2> QED
    BY <2>6, <2>8 DEF Served
<1> HIDE DEF m, L, O
<1>7. L \ Served(m, rs, L, O) = {}
  BY <1>6
<1> QED
  BY <1>4, <1>5, <1>7 DEF CompareRecords, m, L, O

----
(* The run of the checks. *)

\* A sequence keeps its elements when one is added.
LEMMA RecordAdded ==
  ASSUME NEW r, r \in Seq({r[i] : i \in DOMAIN r}), NEW x
  PROVE  /\ Append(r, x) \in Seq({Append(r, x)[i] : i \in DOMAIN Append(r, x)})
         /\ Len(r) \in Nat /\ Len(Append(r, x)) = Len(r) + 1
         /\ DOMAIN r = 1 .. Len(r) /\ DOMAIN Append(r, x) = 1 .. Len(r) + 1
         /\ \A i \in 1 .. Len(r) : Append(r, x)[i] = r[i]
         /\ Append(r, x)[Len(r) + 1] = x
<1> DEFINE S == {r[i] : i \in DOMAIN r} \cup {x}
           a == Append(r, x)
<1>1. Len(r) \in Nat /\ DOMAIN r = 1 .. Len(r)
  BY LenProperties
<1>2. r \in Seq(S)
  <2>1. r \in [1 .. Len(r) -> {r[i] : i \in DOMAIN r}]
    BY LenProperties
  <2>2. r \in [1 .. Len(r) -> S]
    BY <2>1
  <2> HIDE DEF S
  <2> QED
    BY <1>1, <2>2, SeqDef
<1> HIDE DEF S
<1>3. x \in S
  BY DEF S
<1>4. /\ a \in Seq(S) /\ Len(a) = Len(r) + 1
      /\ \A i \in 1 .. Len(r) : a[i] = r[i]
      /\ a[Len(r) + 1] = x
  BY <1>2, <1>3, AppendProperties
<1> HIDE DEF a
<1>5. Len(a) \in Nat /\ DOMAIN a = 1 .. Len(a) /\ a \in [1 .. Len(a) -> S]
  BY <1>4, LenProperties
<1>6. a \in [1 .. Len(a) -> {a[i] : i \in DOMAIN a}]
  BY <1>5
<1>7. a \in Seq({a[i] : i \in DOMAIN a})
  BY <1>5, <1>6, SeqDef
<1> QED
  BY <1>1, <1>4, <1>5, <1>7 DEF a

\* Where the shell stands, what it recorded on the way, and what was said of it.
ChecksTypes ==
  /\ script \in Scripts
  /\ manifest = Blank \/ \E c \in Manifested : manifest = Extract(c)
  /\ phase \in Phases /\ next \in Nat \ {0}
  /\ records \in Seq({records[i] : i \in DOMAIN records})
  /\ exit \in [Phases -> Nat \cup {Blank}]

ChecksPlace ==
  /\ exit[phase] = Blank => next <= Len(script[phase]) \/ next = 1
  /\ phase = "pre" => exit["post"] = Blank
  /\ phase = "post" => exit["pre"] = 0

LinesDone == IF exit[phase] = 0 THEN Len(script[phase]) ELSE next - 1

ChecksRecorded ==
  Extractable(script) /\ exit[phase] \in {Blank, 0} =>
    /\ phase = "pre" => Len(records) = LinesDone
    /\ phase = "post" => Len(records) = Len(script["pre"]) + LinesDone
    /\ \A i \in 1 .. Len(records) : Fits(script, i, records[i])

ChecksJudged ==
  /\ verdict \in {"pass", "fail"} => phase = "post" /\ exit["post"] = 0 /\ ~Drifted
  /\ verdict = "indeterminate" =>
       \/ Unready \/ exit["pre"] # 0 \/ exit["post"] # 0
       \/ phase = "post" /\ exit["post"] = 0 /\ Drifted

ChecksInv == ChecksTypes /\ ChecksPlace /\ ChecksRecorded /\ ChecksJudged

LEMMA ChecksInvStarts == ChecksInit => ChecksInv
<1> SUFFICES ASSUME ChecksInit PROVE ChecksInv
  OBVIOUS
<1>1. Blank \notin Nat \cup {"pass", "fail", "indeterminate"}
  BY ChecksAssumption
<1>2. /\ script \in Scripts /\ phase = "pre" /\ next = 1 /\ records = <<>>
      /\ exit = [p \in Phases |-> Blank] /\ verdict = Blank
  BY DEF ChecksInit
<1>3. manifest = Blank \/ \E c \in Manifested : manifest = Extract(c)
  BY DEF ChecksInit
<1>4. exit["pre"] = Blank /\ exit["post"] = Blank
  BY <1>2 DEF Phases
<1>5. records \in Seq({records[i] : i \in DOMAIN records}) /\ Len(records) = 0
  BY <1>2
<1>6. ChecksTypes
  BY <1>2, <1>3, <1>5 DEF ChecksTypes, Phases
<1>7. ChecksPlace /\ ChecksJudged
  BY <1>1, <1>2, <1>4 DEF ChecksPlace, ChecksJudged
<1>8. ChecksRecorded
  BY <1>1, <1>2, <1>4, <1>5 DEF ChecksRecorded, LinesDone
<1> QED
  BY <1>6, <1>7, <1>8 DEF ChecksInv

\* The line at which the shell stands, and its place in the script.
LEMMA StandsAt ==
  ASSUME ChecksInv, Running
  PROVE  /\ verdict = Blank /\ exit[phase] = Blank /\ Line \in {script[phase][i] : i \in DOMAIN script[phase]}
         /\ Extractable(script) => Line.form = "plain"
         /\ Extractable(script) =>
              /\ phase = PhaseAt(script, Len(records) + 1) /\ Line = LineAt(script, Len(records) + 1)
              /\ phase = "pre" => Len(records) + 1 = next
              /\ phase = "post" => Len(records) + 1 = Len(script["pre"]) + next
<1> DEFINE a == Len(script["pre"])
           b == Len(script["post"])
           n == Len(records)
<1>1. Blank \notin Nat
  BY ChecksAssumption
<1>2. a \in Nat /\ b \in Nat /\ DOMAIN script["pre"] = 1 .. a /\ DOMAIN script["post"] = 1 .. b
  BY PositionsAre DEF ChecksInv, ChecksTypes
<1>3. phase \in Phases /\ next \in Nat \ {0}
  BY DEF ChecksInv, ChecksTypes
<1>4. verdict = Blank /\ exit[phase] = Blank /\ next <= Len(script[phase])
  BY DEF Running
<1>5. next \in DOMAIN script[phase]
  BY <1>2, <1>3, <1>4 DEF Phases
<1>6. Line \in {script[phase][i] : i \in DOMAIN script[phase]}
  BY <1>5 DEF Line
<1>7. Extractable(script) => Line.form = "plain"
  BY <1>3, <1>5 DEF Extractable, Line
<1>8. ASSUME Extractable(script), phase = "pre"
      PROVE  n + 1 = next /\ phase = PhaseAt(script, n + 1) /\ Line = LineAt(script, n + 1)
  <2>1. n = next - 1
    BY <1>1, <1>4, <1>8 DEF ChecksInv, ChecksRecorded, LinesDone
  <2> HIDE DEF n
  <2>2. n + 1 = next
    BY <1>3, <2>1
  <2>3. next <= Len(script["pre"])
    BY <1>4, <1>8
  <2> QED
    BY <1>8, <2>2, <2>3 DEF PhaseAt, LineAt, Line
<1>9. ASSUME Extractable(script), phase = "post"
      PROVE  n + 1 = a + next /\ phase = PhaseAt(script, n + 1) /\ Line = LineAt(script, n + 1)
  <2>1. n = a + (next - 1)
    BY <1>1, <1>4, <1>9 DEF ChecksInv, ChecksRecorded, LinesDone
  <2> HIDE DEF n, a, b
  <2>2. n + 1 = a + next /\ ~(n + 1 <= a) /\ (n + 1) - a = next
    BY <1>2, <1>3, <2>1
  <2>3. ~(n + 1 <= Len(script["pre"])) /\ (n + 1) - Len(script["pre"]) = next
    BY <2>2 DEF a
  <2>4. PhaseAt(script, n + 1) = "post" /\ LineAt(script, n + 1) = script["post"][next]
    <3>1. PhaseAt(script, n + 1) = "post"
      BY <2>3, Zenon DEF PhaseAt
    <3>2. LineAt(script, n + 1) = script["post"][next]
      BY <2>3, Zenon DEF LineAt
    <3> QED
      BY <3>1, <3>2
  <2> QED
    BY <1>9, <2>2, <2>4 DEF Line
<1> HIDE DEF n, a, b
<1>10. phase = "pre" \/ phase = "post"
  BY <1>3 DEF Phases
<1> QED
  BY <1>4, <1>6, <1>7, <1>8, <1>9, <1>10, Zenon DEF n, a

\* Whatever the line left, the shell goes on or the phase has its code.
LEMMA ProceedKept ==
  ASSUME ChecksInv, Running, NEW code \in Nat, Proceed(code),
         records' \in Seq({records'[i] : i \in DOMAIN records'}),
         UNCHANGED <<script, manifest, phase, verdict>>
  PROVE  /\ ChecksTypes' /\ ChecksPlace' /\ ChecksJudged'
         /\ LET got == IF Line.form = "guarded" THEN 0 ELSE code IN
              \/ /\ got >= 126 \/ next = Len(script[phase])
                 /\ exit'[phase] = Settled(got, records') /\ next' = next
              \/ got < 126 /\ next # Len(script[phase]) /\ exit' = exit /\ next' = next + 1
<1> DEFINE got == IF Line.form = "guarded" THEN 0 ELSE code
<1>1. Blank \notin Nat \cup {"pass", "fail", "indeterminate"}
  BY ChecksAssumption
<1>2. /\ phase \in Phases /\ next \in Nat \ {0} /\ exit \in [Phases -> Nat \cup {Blank}]
      /\ script \in Scripts
      /\ manifest = Blank \/ \E c \in Manifested : manifest = Extract(c)
  BY DEF ChecksInv, ChecksTypes
<1>3. verdict = Blank /\ exit[phase] = Blank /\ next <= Len(script[phase])
  BY DEF Running
<1>4. Len(script[phase]) \in Nat
  BY <1>2, PositionsAre DEF Phases
<1>5. got \in Nat
  OBVIOUS
<1>6. Settled(got, records') \in Nat
  BY <1>5 DEF Settled
<1>7. \/ /\ got >= 126 \/ next = Len(script[phase])
         /\ exit' = [exit EXCEPT ![phase] = Settled(got, records')] /\ next' = next
      \/ ~(got >= 126 \/ next = Len(script[phase])) /\ exit' = exit /\ next' = next + 1
  BY DEF Proceed
<1>11. /\ script' \in Scripts
       /\ manifest' = Blank \/ \E c \in Manifested : manifest' = Extract(c)
       /\ phase' \in Phases /\ next' \in Nat \ {0}
  <2>1. script' = script /\ manifest' = manifest /\ phase' = phase /\ next' \in {next, next + 1}
    BY <1>7
  <2> QED
    BY <1>2, <2>1
<1> HIDE DEF got
<1>8. ChecksJudged'
  BY <1>1, <1>3 DEF ChecksJudged
<1>9. CASE /\ got >= 126 \/ next = Len(script[phase])
           /\ exit' = [exit EXCEPT ![phase] = Settled(got, records')] /\ next' = next
  <2>1. exit'[phase] = Settled(got, records') /\ exit'[phase] # Blank
    BY <1>1, <1>2, <1>6, <1>9
  <2>2. exit' \in [Phases -> Nat \cup {Blank}]
    BY <1>2, <1>6, <1>9
  <2>3. \A p \in Phases : p # phase => exit'[p] = exit[p]
    BY <1>2, <1>9
  <2>4. ChecksTypes'
    BY <1>11, <2>2 DEF ChecksTypes
  <2>5. ChecksPlace'
    BY <2>1, <2>3 DEF ChecksInv, ChecksPlace, Phases
  <2> QED
    BY <1>8, <1>9, <2>1, <2>4, <2>5 DEF got
<1>10. CASE ~(got >= 126 \/ next = Len(script[phase])) /\ exit' = exit /\ next' = next + 1
  <2>1. ChecksTypes'
    BY <1>2, <1>10, <1>11 DEF ChecksTypes
  <2>2. next + 1 <= Len(script[phase])
    BY <1>2, <1>3, <1>4, <1>10
  <2>3. ChecksPlace'
    BY <1>10, <2>2 DEF ChecksInv, ChecksPlace
  <2>4. got < 126
    BY <1>5, <1>10
  <2> QED
    BY <1>8, <1>10, <2>1, <2>3, <2>4 DEF got
<1> QED
  BY <1>7, <1>9, <1>10

LEMMA CheckKept == ASSUME ChecksInv, NEW passed \in BOOLEAN, Check(passed) PROVE ChecksInv'
<1> DEFINE code == IF passed THEN 0 ELSE 1
           n == Len(records)
<1>1. Blank \notin Nat
  BY ChecksAssumption
<1>2. /\ Running /\ Proceed(code) /\ UNCHANGED <<script, manifest, phase, verdict>>
  BY DEF Check
<1>3. PICK a : /\ records' = Append(records, Recorded(Line, a, "completed", passed))
               /\ ~Line.dollar => a = Line.arg
  BY DEF Check, Record
<1> DEFINE x == Recorded(Line, a, "completed", passed)
<1>4. /\ records' \in Seq({records'[i] : i \in DOMAIN records'})
      /\ n \in Nat /\ Len(records') = n + 1 /\ DOMAIN records' = 1 .. n + 1
      /\ \A i \in 1 .. n : records'[i] = records[i]
      /\ records'[n + 1] = x
  <2>1. records \in Seq({records[i] : i \in DOMAIN records})
    BY DEF ChecksInv, ChecksTypes
  <2> HIDE DEF x
  <2> QED
    BY <1>3, <2>1, RecordAdded DEF x
<1>5. code \in Nat
  OBVIOUS
<1>6. /\ ChecksTypes' /\ ChecksPlace' /\ ChecksJudged'
      /\ LET got == IF Line.form = "guarded" THEN 0 ELSE code IN
           \/ /\ got >= 126 \/ next = Len(script[phase])
              /\ exit'[phase] = Settled(got, records') /\ next' = next
           \/ got < 126 /\ next # Len(script[phase]) /\ exit' = exit /\ next' = next + 1
  <2> HIDE DEF code
  <2> QED
    BY <1>2, <1>4, <1>5, ProceedKept
<1>7. /\ exit[phase] = Blank
      /\ Extractable(script) => Line.form = "plain"
      /\ Extractable(script) =>
           /\ phase = PhaseAt(script, n + 1) /\ Line = LineAt(script, n + 1)
           /\ phase = "pre" => n + 1 = next
           /\ phase = "post" => n + 1 = Len(script["pre"]) + next
  BY <1>2, StandsAt
<1>8. x.phase = phase
  BY DEF Recorded
<1>9. ASSUME Extractable(script)
      PROVE  /\ \/ next = Len(script[phase]) /\ exit'[phase] = 0 /\ next' = next
                \/ exit'[phase] = Blank /\ next' = next + 1
             /\ \A i \in 1 .. n + 1 : Fits(script, i, records'[i])
  <2>1. Settled(code, records') = 0
    BY <1>4, <1>8, <1>2 DEF Settled
  <2>2. \/ next = Len(script[phase]) /\ exit'[phase] = 0 /\ next' = next
        \/ exit'[phase] = Blank /\ next' = next + 1
    <3>1. Line.form # "guarded" /\ ~(code >= 126)
      BY <1>7, <1>9
    <3> HIDE DEF code
    <3> QED
      BY <1>6, <1>7, <2>1, <3>1
  <2>3. \A i \in 1 .. n : Fits(script, i, records[i])
    BY <1>7, <1>9 DEF ChecksInv, ChecksRecorded
  <2>4. Fits(script, n + 1, x)
    BY <1>3, <1>7, <1>9 DEF Fits, Recorded, EntryAt, Entry, Key
  <2> HIDE DEF n, x
  <2>5. \A i \in 1 .. n + 1 : Fits(script, i, records'[i])
    BY <1>4, <2>3, <2>4
  <2> QED
    BY <2>2, <2>5
<1>10. ChecksRecorded'
  <2> SUFFICES ASSUME Extractable(script)
      PROVE  /\ phase = "pre" => Len(records') = LinesDone'
             /\ phase = "post" => Len(records') = Len(script["pre"]) + LinesDone'
             /\ \A i \in 1 .. Len(records') : Fits(script, i, records'[i])
    BY <1>2 DEF ChecksRecorded
  <2>1. LinesDone' = next
    <3>1. next \in Nat
      BY DEF ChecksInv, ChecksTypes
    <3>2. LinesDone' = IF exit'[phase] = 0 THEN Len(script[phase]) ELSE next' - 1
      BY <1>2 DEF LinesDone
    <3> QED
      BY <1>1, <1>9, <3>1, <3>2
  <2> HIDE DEF n
  <2> QED
    BY <1>4, <1>7, <1>9, <2>1
<1> QED
  BY <1>6, <1>10 DEF ChecksInv

\* A line that was broken, killed or no check leaves a script of plain lines for good.
LEMMA NoAnswerKept ==
  ASSUME ChecksInv, Running, NEW code \in Nat, Proceed(code),
         Extractable(script) => code >= 126,
         records' \in Seq({records'[i] : i \in DOMAIN records'}),
         UNCHANGED <<script, manifest, phase, verdict>>
  PROVE  ChecksInv'
<1>1. Blank \notin Nat
  BY ChecksAssumption
<1>2. /\ ChecksTypes' /\ ChecksPlace' /\ ChecksJudged'
      /\ LET got == IF Line.form = "guarded" THEN 0 ELSE code IN
           \/ /\ got >= 126 \/ next = Len(script[phase])
              /\ exit'[phase] = Settled(got, records') /\ next' = next
           \/ got < 126 /\ next # Len(script[phase]) /\ exit' = exit /\ next' = next + 1
  BY ProceedKept
<1>3. ASSUME Extractable(script) PROVE exit'[phase] \notin {Blank, 0}
  <2>1. Line.form = "plain" /\ code >= 126
    BY <1>3, StandsAt
  <2>2. exit'[phase] = Settled(code, records')
    BY <1>2, <2>1
  <2>3. Settled(code, records') = code
    BY <2>1 DEF Settled
  <2> QED
    BY <1>1, <2>1, <2>2, <2>3
<1>4. ChecksRecorded'
  BY <1>3 DEF ChecksRecorded
<1> QED
  BY <1>2, <1>4 DEF ChecksInv

LEMMA ChecksInvKept == ChecksInv /\ [ChecksNext]_checksVars => ChecksInv'
<1> SUFFICES ASSUME ChecksInv, [ChecksNext]_checksVars PROVE ChecksInv'
  OBVIOUS
<1>1. Blank \notin Nat \cup {"pass", "fail", "indeterminate"}
  BY ChecksAssumption
<1>2. /\ ChecksTypes /\ ChecksPlace /\ ChecksRecorded /\ ChecksJudged
  BY DEF ChecksInv
<1>3. records \in Seq({records[i] : i \in DOMAIN records})
  BY <1>2 DEF ChecksTypes
<1>4. ASSUME NEW b \in BOOLEAN, Check(b) PROVE ChecksInv'
  BY <1>4, CheckKept
<1>5. CASE Break
  <2>1. /\ Running /\ Proceed(127) /\ UNCHANGED <<script, manifest, phase, verdict>>
    BY <1>5 DEF Break
  <2>2. PICK x : records' = Append(records, x)
    BY <1>5 DEF Break, Record
  <2>3. records' \in Seq({records'[i] : i \in DOMAIN records'})
    BY <1>3, <2>2, RecordAdded
  <2>4. 127 \in Nat /\ 127 >= 126
    OBVIOUS
  <2> QED
    BY <2>1, <2>3, <2>4, NoAnswerKept
<1>6. CASE Kill
  <2>1. /\ Running /\ Proceed(137) /\ UNCHANGED <<script, manifest, phase, verdict>> /\ records' = records
    BY <1>6 DEF Kill
  <2>2. 137 \in Nat /\ 137 >= 126
    OBVIOUS
  <2> QED
    BY <1>3, <2>1, <2>2, NoAnswerKept
<1>7. CASE Foreign
  <2>1. /\ Running /\ Line.form = "foreign" /\ records' = records
        /\ UNCHANGED <<script, manifest, phase, verdict>>
    BY <1>7 DEF Foreign
  <2>2. PICK code \in {0, 1, 127} : Proceed(code)
    BY <1>7 DEF Foreign
  <2>3. code \in Nat
    OBVIOUS
  <2>4. ~Extractable(script)
    BY <2>1, StandsAt
  <2> QED
    BY <1>3, <2>1, <2>2, <2>3, <2>4, NoAnswerKept
<1>8. CASE EndEmpty
  <2>1. /\ verdict = Blank /\ exit[phase] = Blank /\ script[phase] = <<>>
        /\ exit' = [exit EXCEPT ![phase] = 0]
        /\ UNCHANGED <<script, manifest, phase, next, records, verdict>>
    BY <1>8 DEF EndEmpty
  <2>2. phase \in Phases /\ exit \in [Phases -> Nat \cup {Blank}] /\ next \in Nat \ {0}
    BY <1>2 DEF ChecksTypes
  <2>3. exit'[phase] = 0 /\ \A p \in Phases : p # phase => exit'[p] = exit[p]
    BY <2>1, <2>2
  <2>4. Len(script[phase]) = 0
    BY <2>1
  <2>5. next = 1
    BY <1>2, <2>1, <2>2, <2>4 DEF ChecksPlace
  <2>6. ChecksTypes'
    BY <1>2, <2>1, <2>2 DEF ChecksTypes
  <2>7. ChecksPlace'
    BY <1>1, <1>2, <2>1, <2>3 DEF ChecksPlace, Phases
  <2>8. ChecksJudged'
    BY <1>1, <2>1 DEF ChecksJudged
  <2>9. LinesDone = 0 /\ LinesDone' = 0
    BY <1>1, <2>1, <2>3, <2>4, <2>5 DEF LinesDone
  <2>10. ChecksRecorded'
    BY <1>2, <2>1, <2>9 DEF ChecksRecorded
  <2> QED
    BY <2>6, <2>7, <2>8, <2>10 DEF ChecksInv
<1>9. CASE ToPost
  <2>1. /\ phase = "pre" /\ exit["pre"] = 0 /\ verdict = Blank
        /\ phase' = "post" /\ next' = 1
        /\ UNCHANGED <<script, manifest, records, exit, verdict>>
    BY <1>9 DEF ToPost
  <2>2. exit["post"] = Blank
    BY <1>2, <2>1 DEF ChecksPlace
  <2>3. ChecksTypes'
    BY <1>2, <2>1 DEF ChecksTypes, Phases
  <2>4. ChecksPlace' /\ ChecksJudged'
    BY <1>1, <2>1, <2>2 DEF ChecksPlace, ChecksJudged
  <2>5. LinesDone = Len(script["pre"]) /\ LinesDone' = 0
    BY <1>1, <2>1, <2>2 DEF LinesDone
  <2>6. ChecksRecorded'
    <3> DEFINE a == Len(script["pre"])
    <3>1. a \in Nat
      BY <1>2, PositionsAre DEF ChecksTypes
    <3>2. Len(script["pre"]) + LinesDone' = Len(script["pre"])
      <4> HIDE DEF a
      <4>1. a + LinesDone' = a
        BY <2>5, <3>1
      <4> QED
        BY <4>1 DEF a
    <3>3. Extractable(script) =>
            Len(records) = Len(script["pre"]) /\ \A i \in 1 .. Len(records) : Fits(script, i, records[i])
      BY <1>2, <2>1, <2>5 DEF ChecksRecorded
    <3> QED
      BY <2>1, <3>2, <3>3 DEF ChecksRecorded
  <2> QED
    BY <2>3, <2>4, <2>6 DEF ChecksInv
<1>10. CASE Compose
  <2>1. /\ verdict = Blank
        /\ \/ phase = "pre" /\ exit["pre"] # Blank /\ (exit["pre"] # 0 \/ Unready)
           \/ phase = "post" /\ exit["post"] # Blank
        /\ UNCHANGED <<script, manifest, phase, next, records, exit>>
    BY <1>10 DEF Compose
  <2>2. /\ exit[phase] # 0 \/ Unready \/ Drifted => verdict' = "indeterminate"
        /\ ~(exit[phase] # 0 \/ Unready \/ Drifted) => verdict' # "indeterminate"
    BY <1>10 DEF Compose
  <2>3. ChecksTypes' /\ ChecksPlace' /\ ChecksRecorded'
    BY <1>2, <2>1 DEF ChecksTypes, ChecksPlace, ChecksRecorded, LinesDone
  <2>4. Unready' = Unready /\ Drifted' = Drifted
    BY <2>1 DEF Unready, Drifted
  <2>5. ChecksJudged'
    <3>1. ASSUME verdict' \in {"pass", "fail"} PROVE phase = "post" /\ exit["post"] = 0 /\ ~Drifted
      BY <2>1, <2>2, <3>1
    <3>2. ASSUME verdict' = "indeterminate"
          PROVE  \/ Unready \/ exit["pre"] # 0 \/ exit["post"] # 0
                 \/ phase = "post" /\ exit["post"] = 0 /\ Drifted
      BY <2>1, <2>2, <3>2
    <3> HIDE DEF Unready, Drifted
    <3> QED
      BY <2>1, <2>4, <3>1, <3>2 DEF ChecksJudged
  <2> QED
    BY <2>3, <2>5 DEF ChecksInv
<1>11. CASE UNCHANGED checksVars
  <2>1. UNCHANGED <<script, manifest, phase, next, records, exit, verdict>>
    BY <1>11 DEF checksVars
  <2> QED
    BY <2>1 DEF ChecksInv, ChecksTypes, ChecksPlace, ChecksRecorded, LinesDone, ChecksJudged, Unready, Drifted
<1> QED
  BY <1>4, <1>5, <1>6, <1>7, <1>8, <1>9, <1>10, <1>11 DEF ChecksNext

\* A phase that ran whole, with a verdict, recorded every line.
LEMMA RanWhole ==
  ASSUME ChecksInv, Extractable(script), phase = "post", exit["post"] = 0
  PROVE  Whole(script, records)
<1> DEFINE a == Len(script["pre"])
           b == Len(script["post"])
<1>1. LinesDone = Len(script["post"])
  BY DEF LinesDone
<1>2. Len(records) = Len(script["pre"]) + Len(script["post"])
  BY <1>1 DEF ChecksInv, ChecksRecorded
<1>3. \A i \in 1 .. Len(records) : Fits(script, i, records[i])
  BY DEF ChecksInv, ChecksRecorded
<1>4. DOMAIN records = 1 .. Len(records)
  BY LenProperties DEF ChecksInv, ChecksTypes
<1> QED
  BY <1>2, <1>3, <1>4, Zenon DEF Whole, Positions

LEMMA JudgedFollows == ChecksInv => JudgedIsChecked
<1> SUFFICES ASSUME ChecksInv PROVE JudgedIsChecked
  OBVIOUS
<1>1. script \in Scripts /\ (manifest = Blank \/ \E c \in Manifested : manifest = Extract(c))
  BY DEF ChecksInv, ChecksTypes
<1>2. DOMAIN records \in SUBSET Nat /\ IsFiniteSet(DOMAIN records)
  <2>1. DOMAIN records = 1 .. Len(records) /\ Len(records) \in Nat
    BY LenProperties DEF ChecksInv, ChecksTypes
  <2>2. 1 \in Int /\ Len(records) \in Int
    BY <2>1
  <2>3. IsFiniteSet(DOMAIN records)
    BY <2>1, <2>2, FS_Interval, Zenon
  <2> QED
    BY <2>1, <2>3
<1>3. ASSUME manifest # Blank, verdict \in {"pass", "fail"} PROVE Answered(manifest, records)
  <2>1. PICK c \in Manifested : manifest = Extract(c)
    BY <1>1, <1>3
  <2>2. ~Drifted
    BY <1>3 DEF ChecksInv, ChecksJudged
  <2>3. CompareRecords(manifest, records).missing = {} /\ CompareRecords(manifest, records).unexpected = {}
    BY <1>3, <2>2 DEF Drifted
  <2> QED
    BY <1>2, <2>1, <2>3, UndriftedAnswers
<1>4. ASSUME Extractable(script), verdict \in {"pass", "fail"}
      PROVE  /\ DOMAIN records = Positions(script)
             /\ \A i \in DOMAIN records :
                  /\ records[i].status = "completed"
                  /\ records[i].phase = PhaseAt(script, i)
                  /\ records[i].negated = LineAt(script, i).negated
  <2>1. phase = "post" /\ exit["post"] = 0
    BY <1>4 DEF ChecksInv, ChecksJudged
  <2>2. Whole(script, records)
    BY <1>4, <2>1, RanWhole
  <2> QED
    BY <2>2 DEF Whole, Fits
<1>5. ASSUME Extractable(script), manifest = Extract(script), verdict = "indeterminate"
      PROVE  Unready \/ exit["pre"] # 0 \/ exit["post"] # 0
  <2>1. SUFFICES ASSUME phase = "post", exit["post"] = 0, Drifted PROVE FALSE
    BY <1>5 DEF ChecksInv, ChecksJudged
  <2>2. Whole(script, records)
    BY <1>5, <2>1, RanWhole
  <2>3. CompareRecords(manifest, records).missing = {} /\ CompareRecords(manifest, records).unexpected = {}
    BY <1>1, <1>5, <2>2, WholeIsUndrifted
  <2> QED
    BY <2>1, <2>3 DEF Drifted
<1> QED
  BY <1>3, <1>4, <1>5 DEF JudgedIsChecked

\* Of a scenario with a manifest, a run is judged only if its records answer the manifest
\* place by place; of a script of plain checks with its own manifest, only if every line
\* ran to its own answer, and what ran whole is never said to have drifted
\* (manifest.ts 319, composer.ts 108, checks/index.ts 160-206).
THEOREM JudgedIsCheckedAlways == ChecksSpec => []JudgedIsChecked
<1>1. ChecksInit => ChecksInv
  BY ChecksInvStarts
<1>2. ChecksInv /\ [ChecksNext]_checksVars => ChecksInv'
  BY ChecksInvKept
<1>3. ChecksInv => JudgedIsChecked
  BY JudgedFollows
<1> QED
  BY <1>1, <1>2, <1>3, PTL DEF ChecksSpec

----
(* The checks of the workspace (WorkChecks). *)

LEMMA ListIs ==
  ASSUME NEW s, IsList(s)
  PROVE  Len(s) \in Nat /\ DOMAIN s = 1 .. Len(s) /\ (s = <<>> <=> Len(s) = 0)
<1> DEFINE S == {s[i] : i \in DOMAIN s}
<1>1. s \in Seq(S)
  BY DEF IsList
<1> HIDE DEF S
<1>2. Len(s) \in Nat /\ DOMAIN s = 1 .. Len(s)
  BY <1>1, LenProperties
<1>3. s # <<>> => Len(s) # 0
  BY <1>1, EmptySeq
<1>4. Len(<<>>) = 0
  OBVIOUS
<1> QED
  BY <1>2, <1>3, <1>4

LEMMA ListOf ==
  ASSUME NEW n \in Nat, NEW s, DOMAIN s = 1 .. n, s = [i \in 1 .. n |-> s[i]]
  PROVE  IsList(s) /\ Len(s) = n
<1> DEFINE S == {s[i] : i \in DOMAIN s}
<1>1. s \in [1 .. n -> S]
  OBVIOUS
<1>2. s \in Seq(S)
  <2> HIDE DEF S
  <2> QED
    BY <1>1, SeqDef
<1>3. Len(s) \in Nat /\ DOMAIN s = 1 .. Len(s)
  <2> HIDE DEF S
  <2> QED
    BY <1>2, LenProperties
<1>4. \A k \in Nat : 1 .. n = 1 .. k => k = n
  OBVIOUS
<1>5. Len(s) = n
  <2>1. 1 .. n = 1 .. Len(s)
    BY <1>3
  <2> QED
    BY <1>3, <1>4, <2>1, Zenon
<1> QED
  BY <1>2, <1>5 DEF IsList

LEMMA UptoIs ==
  ASSUME NEW s, IsList(s), NEW n \in 0 .. Len(s)
  PROVE  /\ IsList(Upto(s, n)) /\ Len(Upto(s, n)) = n
         /\ DOMAIN Upto(s, n) = 1 .. n /\ \A i \in 1 .. n : Upto(s, n)[i] = s[i]
         /\ \A m \in 0 .. n : Upto(Upto(s, n), m) = Upto(s, m)
         /\ Upto(s, n) = <<>> <=> n = 0
<1>1. Len(s) \in Nat /\ n \in Nat
  BY ListIs
<1> DEFINE t == Upto(s, n)
<1>2. DOMAIN t = 1 .. n /\ t = [i \in 1 .. n |-> t[i]] /\ \A i \in 1 .. n : t[i] = s[i]
  BY DEF Upto
<1>3. ASSUME NEW m \in 0 .. n PROVE Upto(t, m) = Upto(s, m)
  <2>1. \A i \in 1 .. m : t[i] = s[i]
    BY <1>1, <1>2
  <2> HIDE DEF t
  <2> QED
    BY <2>1 DEF Upto
<1> HIDE DEF t
<1>4. IsList(t) /\ Len(t) = n
  BY <1>1, <1>2, ListOf
<1>5. t = <<>> <=> n = 0
  BY <1>4, ListIs
<1> QED
  BY <1>2, <1>3, <1>4, <1>5 DEF t

\* What a directory's entries are below: names in directories that are there.
TreeOf(t) == \A p \in DOMAIN t : IsPath(p) /\ t[p] \in Kinds
TreeClosed ==
  \A p \in DOMAIN tree : \A n \in 1 .. Len(p) - 1 :
    Upto(p, n) \in DOMAIN tree /\ tree[Upto(p, n)] = "dir"
BranchOf ==
  commits # Absent => IsList(commits) /\ \A i \in DOMAIN commits : TreeOf(commits[i].tree)

WorkInv == TreeOf(tree) /\ TreeClosed /\ BranchOf

LEMMA WorkInvStarts == WorkInit => WorkInv
<1> SUFFICES ASSUME WorkInit PROVE WorkInv
  OBVIOUS
<1>1. DOMAIN tree = {} /\ commits \in {Absent, <<>>}
  BY DEF WorkInit
<1>2. IsList(<<>>) /\ DOMAIN <<>> = {}
  BY DEF IsList
<1> QED
  BY <1>1, <1>2 DEF WorkInv, TreeOf, TreeClosed, BranchOf

LEMMA PutKept == ASSUME WorkInv, NEW path \in Paths, NEW kind \in Kinds, Put(path, kind) PROVE WorkInv'
<1>1. IsPath(path)
  BY WorkAssumption
<1>2. TreeOf(tree) /\ TreeClosed /\ BranchOf
  BY DEF WorkInv
<1>3. /\ path \notin DOMAIN tree /\ IsDir(Upto(path, Len(path) - 1))
      /\ DOMAIN tree' = DOMAIN tree \cup {path} /\ tree'[path] = kind
      /\ \A p \in DOMAIN tree : tree'[p] = tree[p]
      /\ commits' = commits
  BY DEF Put
<1>4. TreeOf(tree)'
  BY <1>1, <1>2, <1>3 DEF TreeOf
<1>5. ASSUME NEW n \in 1 .. Len(path) - 1
      PROVE  Upto(path, n) \in DOMAIN tree /\ tree[Upto(path, n)] = "dir"
  <2> DEFINE q == Upto(path, Len(path) - 1)
             l == Len(path)
  <2>1. IsList(path) /\ l \in Nat /\ l - 1 \in 0 .. l /\ n \in 0 .. l - 1
    BY <1>1, ListIs DEF IsPath
  <2>2. Len(q) = l - 1 /\ Upto(q, n) = Upto(path, n) /\ q # <<>>
    <3>1. l - 1 \in 0 .. Len(path) /\ l - 1 # 0
      <4>1. \A a \in Nat : \A b \in 1 .. a - 1 : a - 1 # 0
        OBVIOUS
      <4> QED
        BY <2>1, <4>1, Zenon
    <3> HIDE DEF l
    <3> QED
      BY <2>1, <3>1, UptoIs DEF l
  <2>3. q \in DOMAIN tree /\ tree[q] = "dir"
    <3> HIDE DEF q
    <3> QED
      BY <1>3, <2>2 DEF IsDir, q
  <2>4. CASE n = l - 1
    BY <2>3, <2>4
  <2>5. CASE n # l - 1
    <3>1. n \in 1 .. Len(q) - 1
      <4> HIDE DEF q, l
      <4> QED
        BY <2>1, <2>2, <2>5
    <3>2. Upto(q, n) \in DOMAIN tree /\ tree[Upto(q, n)] = "dir"
      <4> HIDE DEF q
      <4> QED
        BY <1>2, <2>3, <3>1 DEF TreeClosed
    <3> QED
      BY <2>2, <3>2
  <2> QED
    BY <2>4, <2>5
<1>6. TreeClosed'
  <2> SUFFICES ASSUME NEW p \in DOMAIN tree', NEW n \in 1 .. Len(p) - 1
      PROVE  Upto(p, n) \in DOMAIN tree' /\ tree'[Upto(p, n)] = "dir"
    BY DEF TreeClosed
  <2>1. Upto(p, n) \in DOMAIN tree /\ tree[Upto(p, n)] = "dir"
    BY <1>2, <1>3, <1>5 DEF TreeClosed
  <2> QED
    BY <1>3, <2>1
<1>7. BranchOf'
  BY <1>2, <1>3 DEF BranchOf
<1> QED
  BY <1>4, <1>6, <1>7 DEF WorkInv

LEMMA CommitKept == ASSUME WorkInv, CommitWork PROVE WorkInv'
<1>1. TreeOf(tree) /\ TreeClosed /\ BranchOf
  BY DEF WorkInv
<1>2. commits # Absent /\ tree' = tree
  BY DEF CommitWork, Dirty
<1> DEFINE c == [id |-> made + 1, tree |-> Content]
           n == Len(commits)
           S == {commits[i] : i \in DOMAIN commits} \cup {c}
<1>3. commits' = Append(commits, c)
  BY DEF CommitWork
<1>4. IsList(commits) /\ n \in Nat /\ DOMAIN commits = 1 .. n
  BY <1>1, <1>2, ListIs DEF BranchOf
<1>5. TreeOf(c.tree)
  BY <1>1 DEF TreeOf, Content
<1>6. commits \in Seq(S) /\ c \in S
  <2>1. commits \in Seq({commits[i] : i \in DOMAIN commits})
    BY <1>4 DEF IsList
  <2>2. commits \in [1 .. n -> {commits[i] : i \in DOMAIN commits}]
    BY <2>1, LenProperties
  <2>3. commits \in [1 .. n -> S]
    <3> HIDE DEF c, n
    <3> QED
      BY <2>2
  <2>4. c \in S
    <3> HIDE DEF c
    <3> QED
      OBVIOUS
  <2> HIDE DEF S, n
  <2> QED
    BY <1>4, <2>3, <2>4, SeqDef
<1> HIDE DEF S, c
<1>7. /\ commits' \in Seq(S) /\ Len(commits') = n + 1
      /\ \A i \in 1 .. n : commits'[i] = commits[i]
      /\ commits'[n + 1] = c
  BY <1>3, <1>6, AppendProperties
<1>8. DOMAIN commits' = 1 .. n + 1 /\ commits' = [i \in 1 .. n + 1 |-> commits'[i]]
  <2>1. commits' \in [1 .. Len(commits') -> S]
    BY <1>7, LenProperties
  <2> QED
    BY <1>7, <2>1
<1> HIDE DEF n
<1>9. IsList(commits')
  BY <1>4, <1>8, ListOf
<1>10. \A i \in 1 .. n : TreeOf(commits[i].tree)
  BY <1>1, <1>2, <1>4 DEF BranchOf
<1>11. \A i \in 1 .. n + 1 : TreeOf(commits'[i].tree)
  BY <1>4, <1>5, <1>7, <1>10
<1>12. \A i \in DOMAIN commits' : TreeOf(commits'[i].tree)
  BY <1>8, <1>11
<1>13. BranchOf'
  BY <1>9, <1>12 DEF BranchOf, IsList, TreeOf
<1>14. TreeOf(tree)' /\ TreeClosed'
  BY <1>1, <1>2 DEF TreeOf, TreeClosed
<1> QED
  BY <1>13, <1>14 DEF WorkInv

LEMMA GoBackKept == ASSUME WorkInv, GoBack PROVE WorkInv'
<1>1. TreeOf(tree) /\ TreeClosed /\ BranchOf
  BY DEF WorkInv
<1> DEFINE n == Len(commits)
           then == commits[n - 1].tree
           dirs == UNION {{Upto(p, k) : k \in 1 .. Len(p) - 1} : p \in DOMAIN then}
<1>2. /\ commits # Absent /\ n > 1 /\ commits' = Upto(commits, n - 1)
      /\ tree' = [p \in DOMAIN then \cup dirs |-> IF p \in dirs THEN "dir" ELSE then[p]]
  BY DEF GoBack
<1>3. IsList(commits) /\ n \in Nat /\ DOMAIN commits = 1 .. n /\ n - 1 \in 0 .. n /\ n - 1 \in DOMAIN commits
  <2>1. IsList(commits) /\ n \in Nat /\ DOMAIN commits = 1 .. n
    BY <1>1, <1>2, ListIs DEF BranchOf
  <2> HIDE DEF n
  <2> QED
    BY <1>2, <2>1
<1>4. TreeOf(then)
  BY <1>1, <1>2, <1>3 DEF BranchOf
<1>5. /\ DOMAIN tree' = DOMAIN then \cup dirs
      /\ \A p \in dirs : tree'[p] = "dir"
      /\ \A p \in DOMAIN tree' : tree'[p] = "dir" \/ (p \in DOMAIN then /\ tree'[p] = then[p])
  <2> HIDE DEF dirs, then
  <2> QED
    BY <1>2
<1> HIDE DEF then
<1>6. ASSUME NEW p \in DOMAIN then, NEW k \in 1 .. Len(p) - 1
      PROVE  /\ Upto(p, k) \in dirs /\ IsPath(Upto(p, k)) /\ Len(Upto(p, k)) = k
             /\ \A m \in 1 .. k - 1 : Upto(Upto(p, k), m) = Upto(p, m) /\ Upto(p, m) \in dirs
  <2>1. Upto(p, k) \in dirs
    OBVIOUS
  <2>2. IsList(p) /\ Len(p) \in Nat
    BY <1>4, ListIs DEF TreeOf, IsPath
  <2>3. k \in 0 .. Len(p) /\ k # 0
    BY <2>2
  <2>4. /\ IsList(Upto(p, k)) /\ Len(Upto(p, k)) = k /\ Upto(p, k) # <<>>
        /\ \A m \in 0 .. k : Upto(Upto(p, k), m) = Upto(p, m)
    BY <2>2, <2>3, UptoIs
  <2>5. \A m \in 1 .. k - 1 : m \in 1 .. Len(p) - 1 /\ m \in 0 .. k
    BY <2>2
  <2>6. \A m \in 1 .. k - 1 : Upto(p, m) \in dirs
    BY <2>5
  <2> QED
    BY <2>1, <2>4, <2>5, <2>6 DEF IsPath
<1>7. TreeOf(tree')
  <2>1. \A p \in dirs : IsPath(p)
    BY <1>6
  <2> HIDE DEF dirs
  <2> QED
    BY <1>4, <1>5, <2>1 DEF TreeOf, Kinds
<1>8. TreeClosed'
  <2> SUFFICES ASSUME NEW q \in DOMAIN tree', NEW m \in 1 .. Len(q) - 1 PROVE Upto(q, m) \in dirs
    <3> HIDE DEF dirs
    <3> QED
      BY <1>5 DEF TreeClosed
  <2>1. CASE q \in DOMAIN then
    BY <1>6, <2>1
  <2>2. CASE q \in dirs
    <3>1. PICK p \in DOMAIN then : \E k \in 1 .. Len(p) - 1 : q = Upto(p, k)
      BY <2>2
    <3>3. PICK k \in 1 .. Len(p) - 1 : q = Upto(p, k)
      BY <3>1
    <3>2. m \in 1 .. k - 1
      BY <1>6, <3>3
    <3> QED
      BY <1>6, <3>3, <3>2
  <2> HIDE DEF dirs
  <2> QED
    BY <1>5, <2>1, <2>2
<1>9. BranchOf'
  <2>1. /\ IsList(commits') /\ DOMAIN commits' = 1 .. n - 1
        /\ \A i \in 1 .. n - 1 : commits'[i] = commits[i]
    <3> HIDE DEF n
    <3> QED
      BY <1>2, <1>3, UptoIs DEF n
  <2>2. \A i \in 1 .. n - 1 : i \in DOMAIN commits
    <3> HIDE DEF n
    <3> QED
      BY <1>3
  <2>3. \A i \in DOMAIN commits' : TreeOf(commits'[i].tree)
    BY <1>1, <1>2, <2>1, <2>2 DEF BranchOf
  <2> QED
    BY <2>1, <2>3 DEF BranchOf, TreeOf, IsList
<1>10. TreeOf(tree)'
  BY <1>7 DEF TreeOf
<1> QED
  BY <1>8, <1>9, <1>10 DEF WorkInv

LEMMA WorkInvKept == WorkInv /\ [WorkNext]_workVars => WorkInv'
<1> SUFFICES ASSUME WorkInv, [WorkNext]_workVars PROVE WorkInv'
  OBVIOUS
<1>1. ASSUME tree' = tree, commits' = commits PROVE WorkInv'
  BY <1>1 DEF WorkInv, TreeOf, TreeClosed, BranchOf, IsList
<1>2. CASE \E p \in Paths, k \in Kinds : Put(p, k)
  BY <1>2, PutKept
<1>3. CASE CommitWork
  BY <1>3, CommitKept
<1>4. CASE GoBack
  BY <1>4, GoBackKept
<1>5. CASE Detach \/ NoteHead
  BY <1>1, <1>5 DEF Detach, NoteHead
<1>6. CASE UNCHANGED workVars
  BY <1>1, <1>6 DEF workVars
<1> QED
  BY <1>2, <1>3, <1>4, <1>5, <1>6 DEF WorkNext

\* A path that is there has names, and a pattern has its ** at one place.
LEMMA DeepIs ==
  ASSUME NEW g \in Patterns, HasDeep(g)
  PROVE  /\ Len(g) \in Nat /\ DOMAIN g = 1 .. Len(g) /\ AtDeep(g) \in 1 .. Len(g)
         /\ Ahead(g) \in 0 .. Len(g) /\ Behind(g) \in Nat
         /\ Ahead(g) = AtDeep(g) - 1 /\ Len(g) = Ahead(g) + 1 + Behind(g)
         /\ Len(Upto(g, Ahead(g))) = Ahead(g)
         /\ \A i \in 1 .. Ahead(g) : Upto(g, Ahead(g))[i] = g[i]
         /\ Upto(g, Ahead(g)) = <<>> <=> Ahead(g) = 0
<1>1. IsList(g)
  BY WorkAssumption
<1>2. Len(g) \in Nat /\ DOMAIN g = 1 .. Len(g)
  BY <1>1, ListIs
<1>3. AtDeep(g) \in 1 .. Len(g)
  BY <1>2 DEF HasDeep, AtDeep
<1>4. /\ Ahead(g) \in 0 .. Len(g) /\ Behind(g) \in Nat
      /\ Ahead(g) = AtDeep(g) - 1 /\ Len(g) = Ahead(g) + 1 + Behind(g)
  BY <1>2, <1>3 DEF Ahead, Behind
<1> QED
  BY <1>1, <1>2, <1>3, <1>4, UptoIs

\* Where no * is behind, the names behind end where they must.
LEMMA CutsAreEven ==
  ASSUME NEW g \in Patterns, HasDeep(g), NEW l \in Nat,
         NEW cut \in [AtDeep(g) .. Len(g) -> 1 .. l], cut[Len(g)] = l,
         \A i \in AtDeep(g) + 1 .. Len(g) : cut[i] = cut[i - 1] + 1
  PROVE  /\ \A i \in AtDeep(g) .. Len(g) : cut[i] = l - Len(g) + i
         /\ Behind(g) < l
<1> DEFINE a == AtDeep(g)
           n == Len(g)
           b == Behind(g)
           S == {k \in 0 .. b : cut[n - k] = l - k}
<1>1. n \in Nat /\ a \in 1 .. n /\ b \in Nat /\ n = a + b
  <2>1. n \in Nat /\ a \in 1 .. n /\ b \in Nat
    BY DeepIs
  <2>2. b = n - a
    BY DEF Behind
  <2> HIDE DEF a, n, b
  <2> QED
    BY <2>1, <2>2
<1> HIDE DEF a, n, b
<1>2. cut \in [a .. n -> 1 .. l] /\ cut[n] = l /\ \A i \in a + 1 .. n : cut[i] = cut[i - 1] + 1
  BY DEF a, n
<1>3. 0 \in S
  BY <1>1, <1>2
<1>4. ASSUME NEW k \in 1 .. b, k - 1 \in S PROVE k \in S
  <2>1. cut[n - (k - 1)] = l - (k - 1)
    BY <1>4
  <2>2. n - (k - 1) \in a + 1 .. n /\ (n - (k - 1)) - 1 = n - k /\ n - k \in a .. n
    BY <1>1
  <2>3. cut[n - (k - 1)] = cut[n - k] + 1
    BY <1>2, <2>2
  <2>4. cut[n - k] \in 1 .. l
    BY <1>2, <2>2
  <2>5. \A x \in 1 .. l : \A y \in 1 .. b : x + 1 = l - (y - 1) => x = l - y
    BY <1>1
  <2>6. cut[n - k] = l - k
    BY <2>1, <2>3, <2>4, <2>5
  <2>7. k \in 0 .. b
    BY <1>1
  <2> QED
    BY <2>6, <2>7
<1>5. 0 .. b \subseteq S
  <2> HIDE DEF S
  <2> QED
    BY <1>1, <1>3, <1>4, UpTo
<1>6. ASSUME NEW i \in a .. n PROVE cut[i] = l - n + i
  <2>1. n - i \in 0 .. b /\ n - (n - i) = i
    BY <1>1
  <2>2. cut[n - (n - i)] = l - (n - i)
    BY <1>5, <2>1
  <2>3. l - (n - i) = l - n + i
    BY <1>1
  <2> QED
    BY <2>1, <2>2, <2>3
<1>7. b < l
  <2>1. a \in a .. n
    BY <1>1
  <2>2. cut[a] \in 1 .. l /\ cut[a] = l - n + a
    BY <1>2, <1>6, <2>1
  <2>3. \A x \in 1 .. l : x = l - n + a => b < l
    BY <1>1
  <2> QED
    BY <2>2, <2>3
<1> QED
  BY <1>6, <1>7 DEF a, n, b

\* What the code finds for ** is what the pattern means.
LEMMA FoundFits ==
  ASSUME WorkInv, NEW g \in Patterns, HasDeep(g), ~Odd(g), NEW p \in GlobStar(g)
  PROVE  p \in DOMAIN tree /\ IsThere(p) /\ FitsPath(g, p)
<1> DEFINE a == Ahead(g)
           b == Behind(g)
           l == Len(p)
           n == Len(g)
           d == AtDeep(g)
<1>1. /\ n \in Nat /\ d \in 1 .. n /\ a \in Nat /\ b \in Nat
      /\ d = a + 1 /\ n = a + 1 + b /\ DOMAIN g = 1 .. n
  <2>1. /\ n \in Nat /\ d \in 1 .. n /\ a \in 0 .. n /\ b \in Nat
        /\ a = d - 1 /\ n = a + 1 + b /\ DOMAIN g = 1 .. n
    BY DeepIs
  <2> HIDE DEF a, b, n, d
  <2> QED
    BY <2>1
<1>2. /\ p \in DOMAIN tree /\ Under(Upto(g, a), p)
      /\ IF b > 1 THEN EndsAcross(g, p) ELSE EndsWith(g, p)
  BY DEF GlobStar, Walk
<1>3. IsList(p) /\ l \in Nat
  BY <1>2, ListIs DEF WorkInv, TreeOf, IsPath
<1>4. a < l /\ \A i \in 1 .. a : p[i] = g[i]
  <2>1. Len(Upto(g, a)) = a /\ \A i \in 1 .. a : Upto(g, a)[i] = g[i]
    BY DeepIs
  <2>2. a < l /\ Upto(p, a) = Upto(g, a)
    BY <1>2, <2>1 DEF Under
  <2>3. \A i \in 1 .. a : Upto(p, a)[i] = p[i]
    BY DEF Upto
  <2> HIDE DEF a, l
  <2> QED
    BY <2>1, <2>2, <2>3
<1>5. IsThere(p)
  BY <1>2 DEF Odd, IsThere
<1>6. \A i \in 1 .. a : SegmentFits(g[i], p[i])
  <2> HIDE DEF a
  <2> QED
    BY <1>4 DEF SegmentFits
<1>7. CASE ~(b > 1)
  <2>1. EndsWith(g, p)
    BY <1>2, <1>7
  <2>2. a + b <= l /\ (b = 0 => a < l)
    <3> HIDE DEF a, b, l
    <3> QED
      BY <1>1, <1>3, <1>4, <1>7
  <2> QED
    BY <1>2, <1>5, <1>6, <2>1, <2>2 DEF FitsPath
<1>8. CASE b > 1
  <2>1. PICK cut \in [d .. n -> 1 .. l] :
          /\ cut[n] = l
          /\ \A i \in d + 1 .. n :
               /\ cut[i - 1] < cut[i]
               /\ g[i] = Star \/ (cut[i] = cut[i - 1] + 1 /\ g[i] = p[cut[i]])
    BY <1>2, <1>8 DEF EndsAcross
  <2>2. \A i \in d + 1 .. n : g[i] # Star
    BY <1>8 DEF Odd
  <2>3. \A i \in d + 1 .. n : cut[i] = cut[i - 1] + 1 /\ g[i] = p[cut[i]]
    BY <2>1, <2>2
  <2>4. (\A i \in d .. n : cut[i] = l - n + i) /\ b < l
    BY <1>3, <2>1, <2>3, CutsAreEven
  <2>5. \A i \in d + 1 .. n : g[i] = p[l - n + i]
    <3>1. \A i \in d + 1 .. n : i \in d .. n
      <4> HIDE DEF d, n
      <4> QED
        BY <1>1
    <3> QED
      BY <2>3, <2>4, <3>1
  <2>6. EndsWith(g, p)
    BY <2>5 DEF EndsWith, SegmentFits
  <2>7. a + b <= l
    <3> SUFFICES ASSUME ~(a + b <= l) PROVE FALSE
      OBVIOUS
    <3> DEFINE m == a + b - l
    <3>1. ~(m \in 1 .. a - 1 /\ m < b /\ \A i \in 1 .. m : g[a - m + i] = g[d + i])
      BY DEF Odd
    <3> HIDE DEF a, b, l, n, d
    <3>2. m \in 1 .. a - 1 /\ m < b
      BY <1>1, <1>3, <1>4, <2>4
    <3>3. ASSUME NEW i \in 1 .. m PROVE g[a - m + i] = g[d + i]
      <4>1. a - m + i \in 1 .. a /\ d + i \in d + 1 .. n /\ l - n + (d + i) = a - m + i
        BY <1>1, <1>3, <3>2
      <4>2. p[a - m + i] = g[a - m + i]
        BY <1>4, <4>1
      <4>3. g[d + i] = p[l - n + (d + i)]
        BY <2>5, <4>1
      <4> QED
        BY <4>1, <4>2, <4>3
    <3> QED
      BY <3>1, <3>2, <3>3
  <2>8. b # 0
    <3> HIDE DEF b
    <3> QED
      BY <1>8
  <2> QED
    BY <1>2, <1>5, <1>6, <2>6, <2>7, <2>8 DEF FitsPath
<1> QED
  BY <1>7, <1>8

\* And what the pattern means the code finds.
LEMMA FittingIsFound ==
  ASSUME WorkInv, NEW g \in Patterns, HasDeep(g), ~Odd(g), NEW p \in DOMAIN tree, FitsPath(g, p)
  PROVE  p \in GlobStar(g)
<1> DEFINE a == Ahead(g)
           b == Behind(g)
           l == Len(p)
           n == Len(g)
           d == AtDeep(g)
           q == Upto(g, a)
<1>1. /\ n \in Nat /\ d \in 1 .. n /\ a \in Nat /\ b \in Nat
      /\ d = a + 1 /\ n = a + 1 + b /\ DOMAIN g = 1 .. n
  <2>1. /\ n \in Nat /\ d \in 1 .. n /\ a \in 0 .. n /\ b \in Nat
        /\ a = d - 1 /\ n = a + 1 + b /\ DOMAIN g = 1 .. n
    BY DeepIs
  <2> HIDE DEF a, b, n, d
  <2> QED
    BY <2>1
<1>2. IsList(p) /\ l \in Nat
  BY ListIs DEF WorkInv, TreeOf, IsPath
<1>3. /\ a + b <= l /\ (b = 0 => a < l)
      /\ \A i \in 1 .. a : SegmentFits(g[i], p[i])
      /\ EndsWith(g, p)
  BY DEF FitsPath
<1>4. a < l
  <2> HIDE DEF a, b, l
  <2> QED
    BY <1>1, <1>2, <1>3
<1>5. \A i \in 1 .. a : g[i] = p[i]
  <2>1. \A i \in 1 .. a : g[i] # Star
    BY DEF Odd
  <2> QED
    BY <1>3, <2>1 DEF SegmentFits
<1>6. q = Upto(p, a) /\ Len(q) = a /\ (q = <<>> <=> a = 0)
  <2>1. Upto(g, a) = Upto(p, a)
    <3> HIDE DEF a
    <3> QED
      BY <1>5 DEF Upto
  <2> QED
    BY <2>1, DeepIs
<1>7. Under(q, p)
  <2> HIDE DEF q, a, l
  <2> QED
    BY <1>4, <1>6 DEF Under, l
<1>8. IsThere(q) /\ IsDir(q)
  <2>1. CASE a = 0
    BY <1>6, <2>1 DEF IsThere, IsDir
  <2>2. CASE a # 0
    <3>1. a \in 1 .. l - 1
      <4> HIDE DEF a, l
      <4> QED
        BY <1>1, <1>2, <1>4, <2>2
    <3>2. q \in DOMAIN tree /\ tree[q] = "dir"
      <4> HIDE DEF a, q
      <4> QED
        BY <1>6, <3>1 DEF WorkInv, TreeClosed
    <3> QED
      BY <3>2 DEF IsThere, IsDir
  <2> QED
    BY <2>1, <2>2
<1>9. p \in Walk(q)
  <2> HIDE DEF q
  <2> QED
    BY <1>7, <1>8 DEF Walk
<1>10. ASSUME b > 1 PROVE EndsAcross(g, p)
  <2> DEFINE cut == [i \in d .. n |-> l - n + i]
  <2>1. a # 0 /\ \A i \in d + 1 .. n : g[i] # Star
    BY <1>10 DEF Odd
  <2>2. \A i \in d + 1 .. n : g[i] = p[l - n + i]
    BY <1>3, <2>1 DEF EndsWith, SegmentFits
  <2> HIDE DEF a, b, l, n, d
  <2>3. \A i \in d .. n : l - n + i \in 1 .. l
    BY <1>1, <1>2, <1>3, <2>1
  <2>4. cut \in [d .. n -> 1 .. l]
    BY <2>3
  <2>5. cut[n] = l
    BY <1>1, <1>2
  <2>6. ASSUME NEW i \in d + 1 .. n
        PROVE  cut[i - 1] < cut[i] /\ cut[i] = cut[i - 1] + 1 /\ g[i] = p[cut[i]]
    <3>1. i \in d .. n /\ i - 1 \in d .. n
      BY <1>1
    <3>2. cut[i] = l - n + i /\ cut[i - 1] = l - n + (i - 1)
      BY <3>1
    <3>3. l - n + (i - 1) < l - n + i /\ l - n + i = (l - n + (i - 1)) + 1
      BY <1>1, <1>2
    <3> QED
      BY <2>2, <3>2, <3>3
  <2> HIDE DEF cut
  <2> QED
    BY <2>4, <2>5, <2>6 DEF EndsAcross, l, n, d
<1> QED
  BY <1>3, <1>8, <1>9, <1>10 DEF GlobStar

LEMMA GlobsAreTrue ==
  ASSUME WorkInv, NEW g \in Patterns, ~Odd(g)
  PROVE  FileExists(g) = "pass" <=> \E p \in DOMAIN tree : IsThere(p) /\ FitsPath(g, p)
<1>1. IsList(g)
  BY WorkAssumption
<1>2. CASE HasDeep(g)
  <2>1. g # <<>>
    BY <1>2 DEF HasDeep
  <2>2. FileExists(g) = "pass" <=> GlobStar(g) # {}
    BY <1>2, <2>1 DEF FileExists, GlobMatch
  <2> QED
    BY <1>2, <2>2, FoundFits, FittingIsFound
<1>3. CASE ~HasDeep(g)
  <2>1. ASSUME g = <<>>, NEW p \in DOMAIN tree, FitsPath(g, p) PROVE FALSE
    <3>1. IsList(p) /\ p # <<>>
      BY DEF WorkInv, TreeOf, IsPath
    <3>2. Len(p) # 0
      BY <3>1, ListIs
    <3>3. Len(g) = Len(p) /\ Len(g) = 0
      BY <1>1, <1>3, <2>1, ListIs DEF FitsPath, AllFit
    <3> QED
      BY <3>2, <3>3
  <2>2. g = <<>> => FileExists(g) # "pass"
    BY DEF FileExists
  <2>3. g # <<>> => (FileExists(g) = "pass" <=> \E p \in DOMAIN tree : AllFit(g, p) /\ IsThere(p))
    BY <1>3 DEF FileExists, GlobMatch
  <2> QED
    BY <1>3, <2>1, <2>2, <2>3 DEF FitsPath
<1> QED
  BY <1>2, <1>3

LEMMA PassedOnly == ASSUME NEW b \in BOOLEAN PROVE PassedIf(b) = "pass" <=> b
  BY DEF PassedIf

\* A baseline without problems is the tree, each file once.
LEMMA BaselinesAreTrue ==
  ASSUME WorkInv, NEW d \in Baselines, BaselineManifest(d) = "pass"
  PROVE  /\ {p \in DOMAIN tree : tree[p] # "dir"} = {f.path : f \in FilesOf(d)}
         /\ \A f \in FilesOf(d) : tree[f.path] = f.mode
         /\ Len(d.files) = Cardinality({f.path : f \in FilesOf(d)})
<1> DEFINE names == {f.path : f \in FilesOf(d)}
           n == Len(d.files)
<1>1. d # Absent /\ Problems(d) = {}
  BY DEF BaselineManifest, PassedIf
<1>2. IsList(d.files) /\ n \in Nat /\ DOMAIN d.files = 1 .. n
  BY <1>1, WorkAssumption, ListIs
<1> DEFINE Twice == {k \in DOMAIN d.files : \E j \in 1 .. k - 1 : d.files[j].path = d.files[k].path}
           Gone == {m \in names : m \notin DOMAIN tree}
           Links == {m \in DOMAIN tree : tree[m] = "dangling"}
           Dirs == {m \in names \cap DOMAIN tree : tree[m] = "dir"}
           Other == {g \in FilesOf(d) : IsFile(g.path) /\ tree[g.path] # g.mode}
           More == {m \in DOMAIN tree : IsFile(m) /\ m \notin names}
           Roles == {<<"role", r>> : r \in d.roles \ names}
<1>3. /\ Twice = {} /\ Gone = {} /\ Links = {}
      /\ Dirs = {} /\ Other = {} /\ More = {}
  <2>1. Problems(d) =
          {<<"duplicate", d.files[i].path>> : i \in Twice} \cup Roles
          \cup {<<"missing", i>> : i \in Gone}
          \cup {<<"symlink", i>> : i \in Links}
          \cup {<<"not regular", i>> : i \in Dirs}
          \cup {<<"mode", i.path>> : i \in Other}
          \cup {<<"extra", i>> : i \in More}
    BY DEF Problems
  <2> HIDE DEF Twice, Gone, Links, Dirs, Other, More, Roles
  <2> QED
    BY <1>1, <2>1
<1>4. ASSUME NEW p \in DOMAIN tree, tree[p] # "dir" PROVE p \in names
  <2>1. IsFile(p)
    BY <1>3, <1>4 DEF WorkInv, TreeOf, Kinds, IsFile
  <2> HIDE DEF names
  <2> QED
    BY <1>3, <2>1
<1>5. ASSUME NEW p \in names PROVE p \in DOMAIN tree /\ tree[p] # "dir" /\ IsFile(p)
  <2> HIDE DEF names
  <2>1. p \in DOMAIN tree /\ tree[p] # "dir"
    BY <1>3
  <2> QED
    BY <1>3, <2>1 DEF WorkInv, TreeOf, Kinds, IsFile
<1>6. ASSUME NEW f \in FilesOf(d) PROVE tree[f.path] = f.mode
  <2>1. IsFile(f.path)
    BY <1>5
  <2> QED
    BY <1>3, <2>1
<1>7. n = Cardinality(names)
  <2> DEFINE h == [i \in 1 .. n |-> d.files[i].path]
  <2>1. h \in [1 .. n -> names]
    BY <1>2 DEF FilesOf
  <2>2. ASSUME NEW i \in 1 .. n, NEW j \in 1 .. n, h[i] = h[j] PROVE i = j
    <3>1. ASSUME NEW x \in 1 .. n, NEW y \in 1 .. n, h[x] = h[y] PROVE ~(x < y)
      <4>1. x < y => x \in 1 .. y - 1
        BY <1>2
      <4>2. y \in DOMAIN d.files
        BY <1>2
      <4> QED
        BY <1>3, <3>1, <4>1, <4>2
    <3>2. ~(i < j) /\ ~(j < i)
      BY <2>2, <3>1
    <3> QED
      BY <1>2, <3>2
  <2>3. ASSUME NEW m \in names PROVE \E i \in 1 .. n : h[i] = m
    BY <1>2 DEF FilesOf
  <2> HIDE DEF h, names
  <2>4. h \in Bijection(1 .. n, names)
    BY <2>1, <2>2, <2>3 DEF Bijection, Injection, Surjection, IsInjective
  <2>5. IsFiniteSet(1 .. n) /\ Cardinality(1 .. n) = n
    <3>1. 1 \in Int /\ n \in Int /\ (IF 1 > n THEN 0 ELSE n - 1 + 1) = n
      BY <1>2
    <3> HIDE DEF n
    <3> QED
      BY <3>1, FS_Interval
  <2>6. ExistsBijection(1 .. n, names)
    BY <2>4 DEF ExistsBijection
  <2> HIDE DEF n
  <2> QED
    BY <2>5, <2>6, FS_Bijection
<1> QED
  BY <1>4, <1>5, <1>6, <1>7

LEMMA TipIs == ASSUME WorkInv, commits # Absent, commits # <<>> PROVE Len(commits) \in DOMAIN commits
<1>1. /\ Len(commits) \in Nat /\ DOMAIN commits = 1 .. Len(commits) /\ Len(commits) # 0
  BY ListIs DEF WorkInv, BranchOf
<1> QED
  BY <1>1

LEMMA WorkIsTrue == WorkInv => WorkChecksAreTrue
<1> SUFFICES ASSUME WorkInv PROVE WorkChecksAreTrue
  OBVIOUS
<1>1. \A g \in Patterns :
        ~Odd(g) => (FileExists(g) = "pass" <=> \E p \in DOMAIN tree : IsThere(p) /\ FitsPath(g, p))
  BY GlobsAreTrue
<1>2. ASSUME CheckoutClean = "pass", recorded # Absent
      PROVE  \E i \in DOMAIN commits :
               commits[i].id = recorded /\ commits[i].tree = Content /\ i = Len(commits)
  <2>1. commits # Absent /\ ~Dirty /\ commits # <<>> /\ Tip.id = recorded
    BY <1>2 DEF CheckoutClean, PassedIf
  <2>2. Content = Tip.tree
    BY <2>1 DEF Dirty, Committed
  <2> QED
    BY <2>1, <2>2, TipIs DEF Tip
<1>3. \A d \in Baselines :
        BaselineManifest(d) = "pass" =>
          /\ {p \in DOMAIN tree : tree[p] # "dir"} = {f.path : f \in FilesOf(d)}
          /\ \A f \in FilesOf(d) : tree[f.path] = f.mode
          /\ Len(d.files) = Cardinality({f.path : f \in FilesOf(d)})
  BY BaselinesAreTrue
<1>4. ASSUME NEW e \in Endings, CommandSucceeds(e) \in {"pass", "fail"}
      PROVE  e.how = "code" /\ e.code < 126
  <2>1. e.how \in {"code", "signal", "unstarted"} /\ e.code \in Nat
    BY WorkAssumption
  <2>2. e.how # "unstarted" /\ ~(e.how = "signal" \/ e.code >= 126)
    BY <1>4 DEF CommandSucceeds
  <2> QED
    BY <2>1, <2>2
<1>5. ASSUME commits # Absent, GitClean = "pass", GitBranch("main") = "pass"
      PROVE  branch = "main" /\ (commits = <<>> \/ Tip.tree = Content)
  <2>1. ~Dirty /\ branch = "main"
    BY <1>5 DEF GitClean, GitBranch, PassedIf
  <2> QED
    BY <1>5, <2>1 DEF Dirty, Committed
<1>6. ASSUME NEW t \in PathTools, RequiresTool({t}) = "pass"
      PROVE  IsFile(<<"bin", t>>) /\ FilesExist(<<>>, {<<"bin", t>>}) = "pass"
  <2>1. IsFile(<<"bin", t>>)
    BY <1>6 DEF RequiresTool, PassedIf, IsFile
  <2>2. <<>> \o <<"bin", t>> = <<"bin", t>>
    <3>1. <<"bin", t>> \in Seq({"bin", t})
      OBVIOUS
    <3> QED
      BY <3>1, ConcatEmptySeq
  <2> QED
    BY <2>1, <2>2 DEF FilesExist, PassedIf
<1> QED
  BY <1>1, <1>2, <1>3, <1>4, <1>5, <1>6 DEF WorkChecksAreTrue

\* Of any names, any patterns with one **, any declared files and whatever the agent writes,
\* commits and undoes: a file is found exactly where its pattern leads, but for the ways in
\* which ** is odd; a clean checkout holds the files of the commit that was noted; a baseline
\* is met by its own files alone; and only a command that ended by itself passes or fails
\* (fs-verbs.ts 112, 336, 443, scenario-manifest.ts 61).
THEOREM WorkChecksAreTrueAlways == WorkSpec => []WorkChecksAreTrue
<1>1. WorkInit => WorkInv
  BY WorkInvStarts
<1>2. WorkInv /\ [WorkNext]_workVars => WorkInv'
  BY WorkInvKept
<1>3. WorkInv => WorkChecksAreTrue
  BY WorkIsTrue
<1> QED
  BY <1>1, <1>2, <1>3, PTL DEF WorkSpec
====
