-------------------------- MODULE Experiments_proofs --------------------------
(***************************************************************************)
(* Theorems about the experiments, for every value of the constants: their *)
(* types and exact reuse.  After them stand the invariant of sound         *)
(* directories and what a step of a thread keeps of it, on which the       *)
(* theorems of ExperimentSessions_proofs rest.                             *)
(***************************************************************************)
EXTENDS ExperimentAggregation, FiniteSetTheorems, WellFoundedInduction, TLAPS

-----------------------------------------------------------------------------
(* Numbers: least and greatest elements, and the places where units start.  *)

Below == {pair \in Nat \X Nat : pair[1] < pair[2]}

LEMMA BelowIsWellFounded == IsWellFoundedOn(Below, Nat)
  BY NatLessThanWellFounded DEF OpToRel, Below

LEMMA Least ==
  ASSUME NEW T \in SUBSET Nat, T # {}
  PROVE  \E x \in T : \A y \in T : x <= y
  <1>1. PICK x \in T : \A y \in T : <<y, x>> \notin Below
    BY BelowIsWellFounded, WFMin
  <1>2. \A y \in T : ~(y < x)
    BY <1>1 DEF Below
  <1> QED BY <1>2

LEMMA Greatest ==
  ASSUME NEW N \in Nat, NEW T \in SUBSET (0 .. N), T # {}
  PROVE  \E x \in T : \A y \in T : y <= x
  <1> DEFINE U == {z \in 0 .. N : N - z \in T}
  <1>1. \A y \in T : y \in 0 .. N /\ N - y \in U
    OBVIOUS
  <1>2. U \in SUBSET Nat /\ U # {}
    <2>1. \A z \in U : z \in Nat
      OBVIOUS
    <2>2. \E y \in T : N - y \in U
      BY <1>1
    <2> HIDE DEF U
    <2> QED BY <2>1, <2>2
  <1>3. PICK z \in U : \A y \in U : z <= y
    <2> HIDE DEF U
    <2> QED BY <1>2, Least
  <1>4. N - z \in T /\ z \in Nat
    OBVIOUS
  <1>5. ASSUME NEW y \in T PROVE y <= N - z
    <2>1. z <= N - y /\ y \in Nat
      BY <1>1, <1>3
    <2> QED BY <1>4, <2>1
  <1> QED BY <1>4, <1>5

LEMMA UnitStarts ==
  ASSUME NEW N \in Nat, NEW S \in SUBSET (1 .. N)
  PROVE  /\ Cardinality(S) \in Nat
         /\ \A u \in 1 .. Cardinality(S) :
              UnitStart(S, u) \in S /\ Cardinality({j \in S : j <= UnitStart(S, u)}) = u
         /\ \A i \in S : \E u \in 1 .. Cardinality(S) : UnitStart(S, u) = i
  <1> DEFINE upto(i) == {j \in S : j <= i}
             rank == [i \in S |-> Cardinality(upto(i))]
             n == Cardinality(S)
  <1>0. \A i \in S : i \in Nat
    OBVIOUS
  <1>1. IsFiniteSet(S) /\ n \in Nat
    <2>1. IsFiniteSet(1 .. N)
      BY FS_Interval
    <2>2. IsFiniteSet(S)
      BY <2>1, FS_Subset
    <2> QED BY <2>2, FS_CardinalityType
  <1>2. ASSUME NEW i \in S
        PROVE  IsFiniteSet(upto(i)) /\ Cardinality(upto(i)) \in 1 .. n
    <2>1. upto(i) \in SUBSET S
      OBVIOUS
    <2>2. IsFiniteSet(upto(i)) /\ Cardinality(upto(i)) <= n
      BY <1>1, <2>1, FS_Subset
    <2>3. Cardinality(upto(i)) \in Nat
      BY <2>2, FS_CardinalityType
    <2>4. i \in upto(i)
      OBVIOUS
    <2>5. Cardinality(upto(i)) # 0
      BY <2>2, <2>4, FS_EmptySet
    <2> HIDE DEF upto, n
    <2> QED BY <1>1, <2>2, <2>3, <2>5
  <1>3. ASSUME NEW i \in S, NEW k \in S, Cardinality(upto(i)) = Cardinality(upto(k)), i < k
        PROVE  FALSE
    <2>0. i \in Nat /\ k \in Nat
      BY <1>0
    <2>1. upto(i) \in SUBSET upto(k) /\ k \in upto(k) /\ k \notin upto(i)
      <3>1. k <= k /\ ~(k <= i)
        BY <1>3, <2>0
      <3>2. \A j \in S : j <= i => j <= k
        BY <1>0, <1>3, <2>0
      <3> QED BY <3>1, <3>2
    <2>2. IsFiniteSet(upto(k)) /\ Cardinality(upto(k)) = Cardinality(upto(i))
      BY <1>2, <1>3
    <2>3. upto(i) = upto(k)
      <3> HIDE DEF upto
      <3> QED BY <2>1, <2>2, FS_Subset
    <2> QED BY <2>1, <2>3
  <1>4. \A i, k \in S : Cardinality(upto(i)) = Cardinality(upto(k)) => i = k
    BY <1>3
  <1>5. rank \in Injection(S, 1 .. n)
    <2>1. rank \in [S -> 1 .. n]
      BY <1>2
    <2>2. \A i, k \in S : rank[i] = rank[k] => i = k
      BY <1>4
    <2> HIDE DEF rank
    <2> QED BY <2>1, <2>2 DEF Injection, IsInjective
  <1>6. IsFiniteSet(1 .. n) /\ Cardinality(1 .. n) = n
    BY <1>1, FS_Interval
  <1>7. rank \in Surjection(S, 1 .. n)
    BY <1>5, <1>6, FS_Injection
  <1>8. \A u \in 1 .. n : \E i \in S : Cardinality(upto(i)) = u
    BY <1>7 DEF Surjection
  <1>9. ASSUME NEW u \in 1 .. n PROVE UnitStart(S, u) \in S /\ Cardinality(upto(UnitStart(S, u))) = u
    BY <1>8 DEF UnitStart
  <1>10. ASSUME NEW i \in S PROVE \E u \in 1 .. n : UnitStart(S, u) = i
    <2>1. Cardinality(upto(i)) \in 1 .. n
      BY <1>2
    <2>2. UnitStart(S, Cardinality(upto(i))) = i
      BY <1>4, <1>9, <2>1
    <2> QED BY <2>1, <2>2
  <1> QED BY <1>1, <1>9, <1>10

-----------------------------------------------------------------------------
(* The work units divide the dataset.                                       *)

CasesOf(d) == {d[i] : i \in DOMAIN d}
StartsOf(d) == {i \in DOMAIN d : StartsUnit(d, i)}
Spot(u, i) == UnitStart(StartsOf(scenario.dataset), u) + i - 1

LEMMA UnitEnds ==
  ASSUME NEW S, NEW d \in Seq(S), NEW i \in DOMAIN d
  PROVE  /\ UnitEnd(d, i) \in i .. Len(d)
         /\ \A k \in i + 1 .. UnitEnd(d, i) : ~StartsUnit(d, k)
         /\ UnitEnd(d, i) = Len(d) \/ StartsUnit(d, UnitEnd(d, i) + 1)
  <1> DEFINE T == {j \in i .. Len(d) : j = Len(d) \/ StartsUnit(d, j + 1)}
  <1>1. Len(d) \in Nat /\ i \in 1 .. Len(d)
    OBVIOUS
  <1>2. T \in SUBSET Nat /\ T # {}
    <2>1. Len(d) \in T
      BY <1>1
    <2>2. \A j \in T : j \in Nat
      BY <1>1
    <2> HIDE DEF T
    <2> QED BY <2>1, <2>2
  <1>3. PICK j \in T : \A k \in T : j <= k
    <2> HIDE DEF T
    <2> QED BY <1>2, Least
  <1>4. \A k \in i + 1 .. j : ~StartsUnit(d, k)
    <2> SUFFICES ASSUME NEW k \in i + 1 .. j, StartsUnit(d, k) PROVE FALSE
      OBVIOUS
    <2>1. k - 1 \in i .. Len(d) /\ (k - 1) + 1 = k /\ k - 1 < j
      BY <1>1, <1>3
    <2>2. k - 1 \in T
      BY <2>1
    <2> QED BY <1>1, <1>3, <2>1, <2>2
  <1>5. j \in i .. Len(d) /\ (j = Len(d) \/ StartsUnit(d, j + 1))
    BY <1>3
  <1> HIDE DEF T
  <1> QED BY <1>4, <1>5 DEF UnitEnd

LEMMA UnitsAreCases ==
  ASSUME scenario \in Scenarios
  PROVE  /\ scenario.dataset \in Seq(CasesOf(scenario.dataset))
         /\ Len(Units) \in Nat /\ DOMAIN Units = 1 .. Len(Units)
         /\ \A u \in DOMAIN Units :
              /\ Units[u] \in Seq(CasesOf(scenario.dataset)) /\ Len(Units[u]) \in Nat \ {0}
              /\ \A i \in DOMAIN Units[u] :
                    Spot(u, i) \in DOMAIN scenario.dataset /\ Units[u][i] = scenario.dataset[Spot(u, i)]
         /\ \A u, v \in DOMAIN Units : \A i \in DOMAIN Units[u], j \in DOMAIN Units[v] :
              Spot(u, i) = Spot(v, j) => u = v /\ i = j
         /\ \A p \in DOMAIN scenario.dataset :
              \E u \in DOMAIN Units : \E i \in DOMAIN Units[u] : p = Spot(u, i)
  <1> DEFINE d == scenario.dataset
             S == StartsOf(d)
             N == Len(d)
             n == Cardinality(S)
             F(u) == UnitStart(S, u)
             L(u) == UnitEnd(d, F(u))
             unit(u) == SubSeq(d, F(u), L(u))
  <1>1. d \in Seq(CasesOf(d)) /\ N \in Nat /\ DOMAIN d = 1 .. N
    BY ScenariosAreValid DEF CasesOf
  <1>2. S \in SUBSET (1 .. N)
    BY <1>1 DEF StartsOf
  <1>3. /\ n \in Nat
        /\ \A u \in 1 .. n : F(u) \in S /\ Cardinality({j \in S : j <= F(u)}) = u
        /\ \A i \in S : \E u \in 1 .. n : F(u) = i
    <2> HIDE DEF S, N
    <2> QED BY <1>1, <1>2, UnitStarts
  <1>4. Units = [u \in 1 .. n |-> unit(u)]
    BY DEF Units, UnitsOf, WorkUnits, StartsOf
  <1>5. \A u \in 1 .. n :
           /\ F(u) \in 1 .. N /\ L(u) \in F(u) .. N /\ StartsUnit(d, F(u))
           /\ \A k \in F(u) + 1 .. L(u) : ~StartsUnit(d, k)
           /\ L(u) = N \/ StartsUnit(d, L(u) + 1)
    <2> SUFFICES ASSUME NEW u \in 1 .. n
                 PROVE  /\ F(u) \in 1 .. N /\ L(u) \in F(u) .. N /\ StartsUnit(d, F(u))
                        /\ \A k \in F(u) + 1 .. L(u) : ~StartsUnit(d, k)
                        /\ L(u) = N \/ StartsUnit(d, L(u) + 1)
      OBVIOUS
    <2>1. F(u) \in DOMAIN d /\ StartsUnit(d, F(u))
      BY <1>3 DEF StartsOf
    <2> HIDE DEF d, F
    <2> QED BY <1>1, <2>1, UnitEnds
  <1>6. \A u \in 1 .. n :
           /\ unit(u) \in Seq(CasesOf(d)) /\ Len(unit(u)) = L(u) - F(u) + 1
           /\ \A i \in 1 .. Len(unit(u)) : unit(u)[i] = d[F(u) + i - 1]
    <2> SUFFICES ASSUME NEW u \in 1 .. n
                 PROVE  /\ unit(u) \in Seq(CasesOf(d)) /\ Len(unit(u)) = L(u) - F(u) + 1
                        /\ \A i \in 1 .. Len(unit(u)) : unit(u)[i] = d[F(u) + i - 1]
      OBVIOUS
    <2>1. F(u) \in 1 .. N /\ L(u) \in F(u) .. N
      BY <1>5
    <2> HIDE DEF d, F, L
    <2> QED BY <1>1, <2>1
  <1>7. \A p \in 1 .. N : \E u \in 1 .. n : F(u) <= p /\ p <= L(u)
    <2> SUFFICES ASSUME NEW p \in 1 .. N PROVE \E u \in 1 .. n : F(u) <= p /\ p <= L(u)
      OBVIOUS
    <2> DEFINE T == {j \in S : j <= p}
    <2>0. \A j \in S : j \in 1 .. N
      BY <1>2
    <2>1. 1 \in T
      BY <1>1 DEF StartsOf, StartsUnit
    <2>2. T \in SUBSET (0 .. p)
      BY <2>0
    <2>3. PICK x \in T : \A j \in T : j <= x
      <3>1. p \in Nat /\ T # {}
        BY <2>1
      <3> HIDE DEF T
      <3> QED BY <2>2, <3>1, Greatest
    <2>4. PICK u \in 1 .. n : F(u) = x
      BY <1>3, <2>3
    <2>5. x <= p /\ x \in 1 .. N
      BY <2>0, <2>3
    <2>6. L(u) \in x .. N /\ (L(u) = N \/ StartsUnit(d, L(u) + 1))
      BY <1>5, <2>4
    <2>7. ASSUME L(u) < p PROVE FALSE
      <3>1. L(u) + 1 \in 1 .. N /\ L(u) + 1 <= p /\ L(u) + 1 > x
        BY <2>5, <2>6, <2>7
      <3>2. StartsUnit(d, L(u) + 1)
        BY <2>5, <2>6, <2>7
      <3>3. L(u) + 1 \in T
        BY <1>1, <3>1, <3>2 DEF StartsOf
      <3> HIDE DEF T, L
      <3> QED BY <2>3, <2>5, <2>6, <3>1, <3>3
    <2> QED BY <2>4, <2>5, <2>6, <2>7
  <1>8. \A u, v \in 1 .. n : F(u) = F(v) => u = v
    BY <1>3
  <1>9. ASSUME NEW u \in 1 .. n, NEW v \in 1 .. n, NEW p \in 1 .. N,
               F(u) <= p, p <= L(u), F(v) <= p, p <= L(v), F(u) < F(v)
        PROVE  FALSE
    <2>1. F(v) \in F(u) + 1 .. L(u) /\ StartsUnit(d, F(v))
      <3> HIDE DEF F, L
      <3> QED BY <1>1, <1>5, <1>9
    <2> QED BY <1>5, <2>1
  <1> HIDE DEF S, n, F, L, unit
  <1>10. \A u \in 1 .. n : \A i \in 1 .. Len(unit(u)) :
            Spot(u, i) = F(u) + i - 1 /\ Spot(u, i) \in 1 .. N
            /\ F(u) <= Spot(u, i) /\ Spot(u, i) <= L(u)
    <2> SUFFICES ASSUME NEW u \in 1 .. n, NEW i \in 1 .. Len(unit(u))
                 PROVE  /\ Spot(u, i) = F(u) + i - 1 /\ Spot(u, i) \in 1 .. N
                        /\ F(u) <= Spot(u, i) /\ Spot(u, i) <= L(u)
      OBVIOUS
    <2>1. Spot(u, i) = F(u) + i - 1
      BY DEF Spot, F, S
    <2>2. F(u) \in 1 .. N /\ L(u) \in F(u) .. N /\ Len(unit(u)) = L(u) - F(u) + 1
      BY <1>5, <1>6
    <2> HIDE DEF N
    <2> QED BY <1>1, <2>1, <2>2
  <1>11. \A u \in 1 .. n : Len(unit(u)) \in Nat \ {0} /\ DOMAIN unit(u) = 1 .. Len(unit(u))
    BY <1>1, <1>5, <1>6
  <1>12. \A u, v \in 1 .. n : \A i \in 1 .. Len(unit(u)), j \in 1 .. Len(unit(v)) :
            Spot(u, i) = Spot(v, j) => u = v /\ i = j
    <2> SUFFICES ASSUME NEW u \in 1 .. n, NEW v \in 1 .. n,
                        NEW i \in 1 .. Len(unit(u)), NEW j \in 1 .. Len(unit(v)),
                        Spot(u, i) = Spot(v, j)
                 PROVE  u = v /\ i = j
      OBVIOUS
    <2>1. F(u) \in 1 .. N /\ F(v) \in 1 .. N /\ i \in Nat /\ j \in Nat
      BY <1>5, <1>11
    <2>2. ~(F(u) < F(v)) /\ ~(F(v) < F(u))
      BY <1>9, <1>10
    <2>3. F(u) = F(v)
      BY <1>1, <2>1, <2>2
    <2> QED BY <1>1, <1>8, <1>10, <2>1, <2>3
  <1>13. \A p \in 1 .. N : \E u \in 1 .. n : \E i \in 1 .. Len(unit(u)) : p = Spot(u, i)
    <2> SUFFICES ASSUME NEW p \in 1 .. N
                 PROVE  \E u \in 1 .. n : \E i \in 1 .. Len(unit(u)) : p = Spot(u, i)
      OBVIOUS
    <2>1. PICK u \in 1 .. n : F(u) <= p /\ p <= L(u)
      BY <1>7
    <2>2. p - F(u) + 1 \in 1 .. Len(unit(u)) /\ F(u) + (p - F(u) + 1) - 1 = p
      BY <1>1, <1>5, <1>6, <2>1
    <2>3. p = Spot(u, p - F(u) + 1)
      BY <1>10, <2>2
    <2> QED BY <2>2, <2>3
  <1>14. DOMAIN Units = 1 .. n /\ Len(Units) = n /\ \A u \in 1 .. n : Units[u] = unit(u)
    <2>1. \A u \in 1 .. n : unit(u) \in Seq(CasesOf(d))
      BY <1>6
    <2>2. Units \in Seq(Seq(CasesOf(d)))
      BY <1>3, <1>4, <2>1
    <2> QED BY <1>3, <1>4, <2>2
  <1> QED
    <2>1. \A u \in 1 .. n : \A i \in 1 .. Len(unit(u)) : unit(u)[i] = d[Spot(u, i)]
      BY <1>6, <1>10
    <2> HIDE DEF d, N
    <2>2. \A u \in DOMAIN Units :
             /\ Units[u] \in Seq(CasesOf(d)) /\ Len(Units[u]) \in Nat \ {0}
             /\ \A i \in DOMAIN Units[u] : Spot(u, i) \in DOMAIN d /\ Units[u][i] = d[Spot(u, i)]
      BY <1>1, <1>6, <1>10, <1>11, <1>14, <2>1
    <2>3. \A u, v \in DOMAIN Units : \A i \in DOMAIN Units[u], j \in DOMAIN Units[v] :
              Spot(u, i) = Spot(v, j) => u = v /\ i = j
      BY <1>11, <1>12, <1>14
    <2>4. \A p \in DOMAIN d : \E u \in DOMAIN Units : \E i \in DOMAIN Units[u] : p = Spot(u, i)
      BY <1>1, <1>11, <1>13, <1>14
    <2> QED BY <1>1, <1>3, <1>14, <2>2, <2>3, <2>4 DEF d

-----------------------------------------------------------------------------
(* The inductive invariant of the exact cache.                              *)

LEMMA FirstGap ==
  ASSUME NEW N \in Nat, NEW G
  PROVE  \E n \in 0 .. N : (\A i \in 1 .. n : i \in G) /\ (n < N => n + 1 \notin G)
  <1> DEFINE T == {n \in 0 .. N : n = N \/ n + 1 \notin G}
  <1>1. T \in SUBSET Nat /\ T # {}
    <2>1. N \in T
      OBVIOUS
    <2>2. \A n \in T : n \in Nat
      OBVIOUS
    <2> HIDE DEF T
    <2> QED BY <2>1, <2>2
  <1>2. PICK n \in T : \A m \in T : n <= m
    <2> HIDE DEF T
    <2> QED BY <1>1, Least
  <1>3. ASSUME NEW i \in 1 .. n, i \notin G PROVE FALSE
    <2>1. i - 1 \in 0 .. N /\ (i - 1) + 1 = i /\ i - 1 < n
      BY <1>2
    <2>2. i - 1 \in T
      BY <1>3, <2>1
    <2> QED BY <1>2, <2>1, <2>2
  <1>4. n \in 0 .. N /\ (n < N => n + 1 \notin G)
    BY <1>2
  <1> QED BY <1>3, <1>4

LEMMA CompletedPrefixes ==
  ASSUME NEW unit, Len(unit) \in Nat, NEW histories
  PROVE  /\ CompletedPrefix(unit, histories) \in 0 .. Len(unit)
         /\ \A i \in 1 .. CompletedPrefix(unit, histories) : Done(histories[unit[i].id])
         /\ CompletedPrefix(unit, histories) < Len(unit) =>
              ~Done(histories[unit[CompletedPrefix(unit, histories) + 1].id])
  <1> DEFINE G == {i \in 1 .. Len(unit) : Done(histories[unit[i].id])}
             Fits(n) == /\ \A i \in 1 .. n : Done(histories[unit[i].id])
                        /\ n < Len(unit) => ~Done(histories[unit[n + 1].id])
  <1>1. PICK n \in 0 .. Len(unit) : (\A i \in 1 .. n : i \in G) /\ (n < Len(unit) => n + 1 \notin G)
    <2> HIDE DEF G
    <2> QED BY FirstGap
  <1>2. Fits(n)
    BY <1>1
  <1>3. CompletedPrefix(unit, histories) = CHOOSE m \in 0 .. Len(unit) : Fits(m)
    BY DEF CompletedPrefix
  <1> HIDE DEF Fits
  <1>4. CompletedPrefix(unit, histories) \in 0 .. Len(unit) /\ Fits(CompletedPrefix(unit, histories))
    BY <1>2, <1>3
  <1> QED BY <1>4 DEF Fits

LEMMA SoundPrefixes ==
  ASSUME NEW unit, Len(unit) \in Nat, NEW histories
  PROVE  /\ SoundPrefix(unit, histories) \in 0 .. CompletedPrefix(unit, histories)
         /\ \A i \in 1 .. SoundPrefix(unit, histories) :
              CaseHistoryValid(histories[unit[i].id], unit, StateBefore(unit, histories, i))
         /\ SoundPrefix(unit, histories) < CompletedPrefix(unit, histories) =>
              ~CaseHistoryValid(histories[unit[SoundPrefix(unit, histories) + 1].id], unit,
                 StateBefore(unit, histories, SoundPrefix(unit, histories) + 1))
  <1> DEFINE N == CompletedPrefix(unit, histories)
             Good(i) == CaseHistoryValid(histories[unit[i].id], unit, StateBefore(unit, histories, i))
             G == {i \in 1 .. N : Good(i)}
             Fits(n) == (\A i \in 1 .. n : Good(i)) /\ (n < N => ~Good(n + 1))
  <1>0. N \in Nat
    BY CompletedPrefixes
  <1>1. PICK n \in 0 .. N : (\A i \in 1 .. n : i \in G) /\ (n < N => n + 1 \notin G)
    <2> HIDE DEF G, N
    <2> QED BY <1>0, FirstGap
  <1>2. Fits(n)
    <2> HIDE DEF N, Good
    <2> QED BY <1>0, <1>1
  <1>3. SoundPrefix(unit, histories) = CHOOSE m \in 0 .. N : Fits(m)
    BY DEF SoundPrefix
  <1> HIDE DEF Fits
  <1>4. SoundPrefix(unit, histories) \in 0 .. N /\ Fits(SoundPrefix(unit, histories))
    BY <1>2, <1>3
  <1> QED BY <1>4 DEF Fits

-----------------------------------------------------------------------------

PlanOf(s) == StagesOf([generate |-> s.generate, judged |-> s.judged])
Plan == PlanOf(scenario)

KeyAt(s, contract, question, memory, vals, i) ==
  [stage    |-> PlanOf(s)[i],
   contract |-> contract,
   generate |-> s.generate,
   question |-> question,
   memory   |-> IF PlanOf(s)[i] \in {"verification", "judge"} THEN NoState ELSE memory,
   vals     |-> SubSeq(vals, 1, i - 1)]

FiledIn(s, entries, contract, question, memory, vals) ==
  \A i \in 1 .. Len(vals) :
    LET key == KeyAt(s, contract, question, memory, vals, i) IN
    key \in DOMAIN entries /\ entries[key].value = vals[i]

Filed(contract, question, memory, vals) ==
  FiledIn(scenario, cache, contract, question, memory, vals)

Dispatched == {"call", "wait", "publish"}
Staged == {"begun", "stage"} \cup Dispatched
AtWork == Staged \cup {"record", "mark"}

ThreadOK(e, u, w) ==
  /\ w.pc \in {"queued", "turn"} => w.turn \in 1 .. Len(Units[u]) + 1
  /\ w.pc \in AtWork \cup {"retry"} => w.turn \in DOMAIN Units[u]
  /\ w.pc \in AtWork => w.runtime \in Runtime
  /\ w.pc \in Staged => w.stage = Len(w.vals) + 1 /\ Len(w.vals) <= Len(Plan)
  /\ w.pc \in Dispatched => Len(w.vals) < Len(Plan)
  /\ w.pc \in Staged \cup {"record"} =>
        Filed(exps[e].manifest.code, Units[u][w.turn].question, w.runtime.memory, w.vals)
  /\ w.pc = "record" => /\ w.out.status \in AttemptStatuses
                        /\ w.out.status = "succeeded" => Len(w.vals) = Len(Plan)

RecordsOK ==
  \A e \in Existing : \A u \in DOMAIN Units : \A i \in DOMAIN Units[u] :
    \A k \in DOMAIN exps[e].dirs[Units[u][i].id].attempts :
      LET file == exps[e].dirs[Units[u][i].id].attempts[k] IN
      file.status = "succeeded" =>
        /\ Len(file.vals) = Len(Plan)
        /\ Filed(exps[e].manifest.code, Units[u][i].question, file.asked, file.vals)

SessionsGenerate ==
  Existing # {} => scenario.generate \/ \A i \in DOMAIN scenario.dataset :
                                           scenario.dataset[i].group = NoGroup

ThreadsOK == \A e \in Existing : \A u \in DOMAIN Units : ThreadOK(e, u, work[e][u])

BaseInv ==
  /\ RunnerTypeOK /\ SessionsGenerate /\ ThreadsOK /\ RecordsOK
  /\ \A e \in Experiments : run[e].pc = "plan" => run[e].unit # 0

LEMMA PlanFacts ==
  ASSUME scenario \in Scenarios
  PROVE  /\ Len(Plan) \in 2 .. 5
         /\ scenario.generate => Len(Plan) >= 4
  <1>0. scenario.generate \in BOOLEAN /\ scenario.judged \in BOOLEAN
    BY ScenariosAreValid
  <1>1. CASE ~scenario.generate
    <2>1. Plan = <<"query_analysis", "retrieval">>
      BY <1>1 DEF Plan, PlanOf, StagesOf
    <2>2. Len(<<"query_analysis", "retrieval">>) = 2
      OBVIOUS
    <2>3. Len(Plan) = 2
      BY <2>1, <2>2, Zenon
    <2> QED BY <1>1, <2>3
  <1>2. CASE scenario.generate /\ ~scenario.judged
    <2>1. Plan = <<"query_analysis", "retrieval", "generation", "verification">>
      BY <1>2 DEF Plan, PlanOf, StagesOf
    <2>2. Len(<<"query_analysis", "retrieval", "generation", "verification">>) = 4
      OBVIOUS
    <2>3. Len(Plan) = 4
      BY <2>1, <2>2, Zenon
    <2> QED BY <2>3
  <1>3. CASE scenario.generate /\ scenario.judged
    <2>1. Plan = <<"query_analysis", "retrieval", "generation", "verification", "judge">>
      BY <1>3 DEF Plan, PlanOf, StagesOf
    <2>2. Len(<<"query_analysis", "retrieval", "generation", "verification", "judge">>) = 5
      OBVIOUS
    <2>3. Len(Plan) = 5
      BY <2>1, <2>2, Zenon
    <2> QED BY <2>3
  <1> QED BY <1>0, <1>1, <1>2, <1>3

LEMMA ManifestFacts ==
  ASSUME RunnerTypeOK, NEW e \in Existing
  PROVE  /\ exps[e] \in ExperimentFiles
         /\ exps[e].manifest.dataset = scenario.dataset
         /\ exps[e].manifest.generate = scenario.generate
         /\ exps[e].manifest.judged = scenario.judged
         /\ exps[e].manifest.code \in Codes
         /\ StagesOf(exps[e].manifest) = Plan
         /\ exps[e].dirs \in [CaseIds(scenario.dataset) -> CaseDir]
         /\ e \in Experiments
  <1>1. exps[e] \in ExperimentFiles /\ e \in Experiments
    BY DEF RunnerTypeOK
  <1>2. /\ exps[e].manifest.dataset = scenario.dataset
        /\ exps[e].manifest.generate = scenario.generate
        /\ exps[e].manifest.judged = scenario.judged
        /\ exps[e].manifest.code \in Codes
        /\ exps[e].dirs \in [CaseIds(scenario.dataset) -> CaseDir]
    BY <1>1 DEF ExperimentFiles
  <1> QED BY <1>1, <1>2 DEF Plan, PlanOf, StagesOf

LEMMA CasePlaces ==
  ASSUME scenario \in Scenarios, NEW u \in DOMAIN Units, NEW i \in DOMAIN Units[u]
  PROVE  /\ Units[u][i].id \in CaseIds(scenario.dataset)
         /\ i \in 1 .. Len(Units[u]) /\ Len(Units[u]) \in Nat
  BY UnitsAreCases DEF CaseIds

LEMMA SamePlace ==
  ASSUME scenario \in Scenarios, NEW u \in DOMAIN Units, NEW i \in DOMAIN Units[u],
         NEW v \in DOMAIN Units, NEW j \in DOMAIN Units[v], Units[u][i].id = Units[v][j].id
  PROVE  u = v /\ i = j
  <1> DEFINE d == scenario.dataset
  <1>0. /\ Spot(u, i) \in DOMAIN d /\ Units[u][i] = d[Spot(u, i)]
        /\ Spot(v, j) \in DOMAIN d /\ Units[v][j] = d[Spot(v, j)]
    BY UnitsAreCases
  <1>1. Spot(u, i) = Spot(v, j)
    BY <1>0, ScenariosAreValid
  <1> QED BY <1>1, UnitsAreCases

LEMMA FiledExtendsIn ==
  ASSUME scenario \in Scenarios, NEW entries, NEW contract, NEW question, NEW memory,
         NEW vals \in Seq(Values), NEW value \in Values,
         FiledIn(scenario, entries, contract, question, memory, vals),
         KeyAt(scenario, contract, question, memory, vals, Len(vals) + 1) \in DOMAIN entries,
         entries[KeyAt(scenario, contract, question, memory, vals, Len(vals) + 1)].value = value
  PROVE  FiledIn(scenario, entries, contract, question, memory, Append(vals, value))
  <1> DEFINE more == Append(vals, value)
  <1>1. ASSUME NEW i \in 1 .. Len(vals) + 1
        PROVE  SubSeq(more, 1, i - 1) = SubSeq(vals, 1, i - 1)
    <2>1. SubSeq(more, 1, i - 1) \in Seq(Values) /\ SubSeq(vals, 1, i - 1) \in Seq(Values)
      OBVIOUS
    <2>2. Len(SubSeq(more, 1, i - 1)) = i - 1 /\ Len(SubSeq(vals, 1, i - 1)) = i - 1
      OBVIOUS
    <2>3. \A k \in 1 .. i - 1 : SubSeq(more, 1, i - 1)[k] = SubSeq(vals, 1, i - 1)[k]
      OBVIOUS
    <2> QED BY <2>1, <2>2, <2>3
  <1>2. \A i \in 1 .. Len(vals) + 1 :
          KeyAt(scenario, contract, question, memory, more, i) = KeyAt(scenario, contract, question, memory, vals, i)
    <2> HIDE DEF more
    <2> QED BY <1>1 DEF KeyAt
  <1>3. Len(more) = Len(vals) + 1 /\ more[Len(vals) + 1] = value
        /\ \A i \in 1 .. Len(vals) : more[i] = vals[i]
    OBVIOUS
  <1> SUFFICES ASSUME NEW i \in 1 .. Len(vals) + 1
               PROVE  /\ KeyAt(scenario, contract, question, memory, more, i) \in DOMAIN entries
                      /\ entries[KeyAt(scenario, contract, question, memory, more, i)].value = more[i]
    BY <1>3 DEF FiledIn
  <1> HIDE DEF more
  <1>4. CASE i = Len(vals) + 1
    BY <1>2, <1>3, <1>4
  <1>5. CASE i \in 1 .. Len(vals)
    BY <1>2, <1>3, <1>5 DEF FiledIn
  <1> QED BY <1>4, <1>5

LEMMA FiledSame ==
  ASSUME scenario \in Scenarios, NEW contract, NEW question, NEW memory,
         NEW a \in Seq(Values), NEW b \in Seq(Values), Len(a) = Len(b),
         Filed(contract, question, memory, a), Filed(contract, question, memory, b)
  PROVE  a = b
  <1> DEFINE T == {n \in Nat : n <= Len(a) /\ SubSeq(a, 1, n) # SubSeq(b, 1, n)}
  <1>1. SUFFICES T = {}
    <2>1. Len(a) \notin T
      BY <1>1
    <2>2. SubSeq(a, 1, Len(a)) = a /\ SubSeq(b, 1, Len(b)) = b /\ Len(a) \in Nat
      OBVIOUS
    <2> QED BY <2>1, <2>2
  <1>2. SUFFICES ASSUME T # {} PROVE FALSE
    OBVIOUS
  <1>3. PICK n \in T : \A m \in T : n <= m
    <2> HIDE DEF T
    <2>1. T \in SUBSET Nat
      BY DEF T
    <2> QED BY <1>2, <2>1, Least
  <1>4. n \in Nat /\ n # 0
    <2>1. SubSeq(a, 1, 0) = SubSeq(b, 1, 0)
      OBVIOUS
    <2> QED BY <1>3, <2>1
  <1>5. n - 1 \notin T /\ n - 1 \in Nat /\ n \in 1 .. Len(a)
    BY <1>3, <1>4
  <1>6. SubSeq(a, 1, n - 1) = SubSeq(b, 1, n - 1)
    BY <1>5
  <1>7. KeyAt(scenario, contract, question, memory, a, n) = KeyAt(scenario, contract, question, memory, b, n)
    BY <1>6 DEF KeyAt
  <1>8. a[n] = b[n]
    BY <1>5, <1>7 DEF Filed, FiledIn
  <1>9. SubSeq(a, 1, n) = SubSeq(b, 1, n)
    <2>1. SubSeq(a, 1, n) = Append(SubSeq(a, 1, n - 1), a[n])
      BY <1>5
    <2>2. SubSeq(b, 1, n) = Append(SubSeq(b, 1, n - 1), b[n])
      BY <1>5
    <2> QED BY <1>6, <1>8, <2>1, <2>2
  <1> QED BY <1>3, <1>9

LEMMA InvIsExact ==
  ASSUME BaseInv PROVE ExactReuse
  <1>0. scenario \in Scenarios
    BY DEF BaseInv, RunnerTypeOK
  <1> SUFFICES ASSUME NEW e \in Existing, NEW f \in Existing,
                      exps[e].manifest.code = exps[f].manifest.code,
                      NEW u \in DOMAIN Units, NEW v \in DOMAIN Units,
                      NEW i \in DOMAIN Units[u], NEW j \in DOMAIN Units[v],
                      Units[u][i].question = Units[v][j].question,
                      NEW k \in Succeeded(exps[e].dirs[Units[u][i].id].attempts),
                      NEW l \in Succeeded(exps[f].dirs[Units[v][j].id].attempts),
                      exps[e].dirs[Units[u][i].id].attempts[k].asked
                        = exps[f].dirs[Units[v][j].id].attempts[l].asked
               PROVE  exps[e].dirs[Units[u][i].id].attempts[k].vals
                        = exps[f].dirs[Units[v][j].id].attempts[l].vals
    BY DEF ExactReuse
  <1> DEFINE a == exps[e].dirs[Units[u][i].id].attempts[k]
             b == exps[f].dirs[Units[v][j].id].attempts[l]
  <1>1. /\ Len(a.vals) = Len(Plan)
        /\ Filed(exps[e].manifest.code, Units[u][i].question, a.asked, a.vals)
    BY DEF BaseInv, RecordsOK, Succeeded
  <1>2. /\ Len(b.vals) = Len(Plan)
        /\ Filed(exps[f].manifest.code, Units[v][j].question, b.asked, b.vals)
    BY DEF BaseInv, RecordsOK, Succeeded
  <1>3. a.vals \in Seq(Values)
    <2>1. exps[e].dirs[Units[u][i].id] \in CaseDir
      BY <1>0, ManifestFacts, CasePlaces DEF BaseInv
    <2>2. exps[e].dirs[Units[u][i].id].attempts \in Seq(AttemptFile)
      BY <2>1 DEF CaseDir
    <2>3. a \in AttemptFile
      BY <2>2 DEF Succeeded
    <2> QED BY <2>3 DEF AttemptFile
  <1>4. b.vals \in Seq(Values)
    <2>1. exps[f].dirs[Units[v][j].id] \in CaseDir
      BY <1>0, ManifestFacts, CasePlaces DEF BaseInv
    <2>2. exps[f].dirs[Units[v][j].id].attempts \in Seq(AttemptFile)
      BY <2>1 DEF CaseDir
    <2>3. b \in AttemptFile
      BY <2>2 DEF Succeeded
    <2> QED BY <2>3 DEF AttemptFile
  <1> HIDE DEF a, b
  <1> QED BY <1>0, <1>1, <1>2, <1>3, <1>4, FiledSame DEF a, b

-----------------------------------------------------------------------------
(* What a step keeps.                                                       *)

CacheGrows ==
  \A k \in DOMAIN cache : k \in DOMAIN cache' /\ cache'[k].value = cache[k].value

ManifestsStay ==
  /\ Existing \subseteq Existing'
  /\ \A e \in Existing : exps'[e].manifest = exps[e].manifest

Kept == scenario' = scenario /\ CacheGrows /\ ManifestsStay

CacheTyped == cache \in [DOMAIN cache -> [value : Values, intact : BOOLEAN]]

\* What every step of a thread leaves as it must be, its own row apart.
FrameOK ==
  /\ scenario' = scenario /\ code' = code /\ budget' \in [DOMAIN scenario.budget -> Nat]
  /\ Existing' = Existing /\ exps' \in [Existing -> ExperimentFiles]
  /\ ManifestsStay /\ CacheGrows /\ CacheTyped'
  /\ run' \in [Experiments -> RunnerRow]
  /\ \A f \in Experiments : run'[f].pc = run[f].pc /\ run'[f].unit = run[f].unit

LEMMA SameUnits ==
  ASSUME scenario' = scenario
  PROVE  /\ Units' = Units /\ Plan' = Plan
         /\ \A u, i : Spot(u, i)' = Spot(u, i)
         /\ ExperimentFiles' = ExperimentFiles /\ RunnerRow' = RunnerRow
  BY DEF Units, Plan, Spot, ExperimentFiles, RunnerRow

LEMMA FiledStays ==
  ASSUME Kept, NEW contract, NEW question, NEW memory, NEW vals,
         FiledIn(scenario, cache, contract, question, memory, vals)
  PROVE  FiledIn(scenario, cache', contract, question, memory, vals)
  BY DEF FiledIn, Kept, CacheGrows

LEMMA ThreadStays ==
  ASSUME Kept, NEW e \in Existing, NEW u, NEW w, ThreadOK(e, u, w)
  PROVE  ThreadOK(e, u, w)'
  <1>1. Units' = Units /\ Plan' = Plan /\ exps'[e].manifest = exps[e].manifest
        /\ scenario' = scenario
    BY SameUnits DEF Kept, ManifestsStay
  <1>2. ASSUME NEW c, NEW q, Filed(c, q, w.runtime.memory, w.vals)
        PROVE  FiledIn(scenario', cache', c, q, w.runtime.memory, w.vals)
    BY <1>1, <1>2, FiledStays DEF Filed
  <1> QED BY <1>1, <1>2 DEF ThreadOK, Filed

LEMMA RecordsStay ==
  ASSUME Kept, RecordsOK, exps' = exps
  PROVE  RecordsOK'
  <1>1. Units' = Units /\ Plan' = Plan /\ Existing' = Existing /\ scenario' = scenario
    BY SameUnits DEF Kept, Existing
  <1>2. ASSUME NEW c, NEW q, NEW m, NEW v, Filed(c, q, m, v)
        PROVE  FiledIn(scenario', cache', c, q, m, v)
    BY <1>1, <1>2, FiledStays DEF Filed
  <1> QED BY <1>1, <1>2 DEF RecordsOK, Filed

LEMMA WorkSet ==
  ASSUME RunnerTypeOK, NEW e \in Experiments, NEW u \in DOMAIN Units, NEW w \in WorkerRow,
         SetWork(e, u, w)
  PROVE  /\ work' \in [Experiments -> [DOMAIN Units -> WorkerRow]]
         /\ work'[e][u] = w
         /\ \A f \in Experiments : \A v \in DOMAIN Units :
              f # e \/ v # u => work'[f][v] = work[f][v]
  <1>0. work \in [Experiments -> [DOMAIN Units -> WorkerRow]]
    BY DEF RunnerTypeOK
  <1>1. work' = [work EXCEPT ![e] = [work[e] EXCEPT ![u] = w]]
    BY <1>0 DEF SetWork
  <1> DEFINE rows == [work[e] EXCEPT ![u] = w]
  <1>2. rows \in [DOMAIN Units -> WorkerRow] /\ rows[u] = w
        /\ \A v \in DOMAIN Units : v # u => rows[v] = work[e][v]
    BY <1>0
  <1> HIDE DEF rows
  <1> QED BY <1>0, <1>1, <1>2 DEF rows

LEMMA ThreadMoves ==
  ASSUME BaseInv, NEW e \in Existing, NEW u \in DOMAIN Units, run[e].pc = "on", FrameOK,
         NEW w \in WorkerRow, w.pc \notin {"off", "queued"}, SetWork(e, u, w),
         ThreadOK(e, u, w)', RecordsOK'
  PROVE  BaseInv'
  <1>0. RunnerTypeOK /\ e \in Experiments /\ scenario \in Scenarios
    BY DEF BaseInv, RunnerTypeOK
  <1>1. Kept /\ Units' = Units /\ ExperimentFiles' = ExperimentFiles /\ RunnerRow' = RunnerRow
        /\ Existing' = Existing
    BY SameUnits DEF Kept, FrameOK
  <1>2. /\ work' \in [Experiments -> [DOMAIN Units -> WorkerRow]]
        /\ work'[e][u] = w
        /\ \A f \in Experiments : \A v \in DOMAIN Units :
              f # e \/ v # u => work'[f][v] = work[f][v]
    BY <1>0, WorkSet
  <1>3. RunnerTypeOK'
    <2>1. ASSUME NEW f \in Experiments
          PROVE  /\ run'[f].pc # "off" => f \in Existing'
                 /\ \A v \in DOMAIN Units :
                      /\ work'[f][v].pc # "off" => run'[f].pc \in {"plan", "on"}
                      /\ work'[f][v].pc \notin {"off", "queued"} => run'[f].pc = "on"
      <3>1. run'[f].pc = run[f].pc
        BY DEF FrameOK
      <3>2. run[f].pc # "off" => f \in Existing
        BY <1>0 DEF RunnerTypeOK
      <3>3. ASSUME NEW v \in DOMAIN Units
            PROVE  /\ work'[f][v].pc # "off" => run'[f].pc \in {"plan", "on"}
                   /\ work'[f][v].pc \notin {"off", "queued"} => run'[f].pc = "on"
        <4>1. CASE f = e /\ v = u
          BY <1>2, <3>1, <4>1
        <4>2. CASE ~(f = e /\ v = u)
          <5>1. work'[f][v] = work[f][v]
            BY <1>2, <4>2
          <5> QED BY <1>0, <3>1, <5>1 DEF RunnerTypeOK
        <4> QED BY <4>1, <4>2
      <3> QED BY <1>1, <3>1, <3>2, <3>3
    <2>2. /\ scenario' \in Scenarios /\ code' \in Codes
          /\ budget' \in [DOMAIN scenario'.budget -> Nat]
          /\ Existing' \subseteq Experiments /\ exps' \in [Existing' -> ExperimentFiles']
          /\ CacheTyped' /\ run' \in [Experiments -> RunnerRow']
          /\ work' \in [Experiments -> [DOMAIN Units' -> WorkerRow]]
      BY <1>0, <1>1, <1>2 DEF FrameOK, RunnerTypeOK
    <2> QED BY <1>1, <2>1, <2>2 DEF RunnerTypeOK, CacheTyped
  <1>4. SessionsGenerate'
    BY <1>1 DEF BaseInv, SessionsGenerate, Kept
  <1>5. ThreadsOK'
    <2> SUFFICES ASSUME NEW f \in Existing, NEW v \in DOMAIN Units PROVE ThreadOK(f, v, work[f][v])'
      BY <1>1 DEF ThreadsOK
    <2>0. f \in Experiments
      BY <1>0 DEF RunnerTypeOK
    <2>1. CASE f = e /\ v = u
      BY <1>2, <2>1 DEF ThreadOK
    <2>2. CASE ~(f = e /\ v = u)
      <3>1. work'[f][v] = work[f][v]
        BY <1>2, <2>0, <2>2
      <3>2. ThreadOK(f, v, work[f][v])
        BY DEF BaseInv, ThreadsOK
      <3>3. \A x : ThreadOK(f, v, x) => ThreadOK(f, v, x)'
        BY <1>1, ThreadStays
      <3> QED BY <3>1, <3>2, <3>3 DEF ThreadOK
    <2> QED BY <2>1, <2>2
  <1>6. \A f \in Experiments : run'[f].pc = "plan" => run'[f].unit # 0
    BY DEF BaseInv, FrameOK
  <1> QED BY <1>3, <1>4, <1>5, <1>6 DEF BaseInv

-----------------------------------------------------------------------------
(* A thread on its way through the stages.                                  *)

LEMMA QuietMove ==
  ASSUME BaseInv, NEW e \in Existing, NEW u \in DOMAIN Units, run[e].pc = "on",
         UNCHANGED <<scenario, code, exps, cache>>,
         budget' \in [DOMAIN scenario.budget -> Nat], run' \in [Experiments -> RunnerRow],
         \A f \in Experiments : run'[f].pc = run[f].pc /\ run'[f].unit = run[f].unit,
         NEW w \in WorkerRow, w.pc \notin {"off", "queued"}, SetWork(e, u, w), ThreadOK(e, u, w)
  PROVE  BaseInv'
  <1>1. Existing' = Existing /\ exps \in [Existing -> ExperimentFiles] /\ CacheTyped
    BY DEF BaseInv, RunnerTypeOK, Existing, CacheTyped
  <1>2. FrameOK /\ Kept
    BY <1>1 DEF FrameOK, Kept, ManifestsStay, CacheGrows, CacheTyped
  <1>3. ThreadOK(e, u, w)'
    BY <1>2, ThreadStays
  <1>4. RecordsOK'
    BY <1>2, RecordsStay DEF BaseInv
  <1> QED BY <1>2, <1>3, <1>4, ThreadMoves

LEMMA ThreadFacts ==
  ASSUME BaseInv, NEW e \in Experiments, NEW u \in DOMAIN Units, run[e].pc = "on"
  PROVE  /\ e \in Existing /\ scenario \in Scenarios /\ RunnerTypeOK
         /\ work[e][u] \in WorkerRow /\ ThreadOK(e, u, work[e][u])
         /\ run \in [Experiments -> RunnerRow] /\ budget \in [DOMAIN scenario.budget -> Nat]
         /\ Units[u] \in Seq(CasesOf(scenario.dataset)) /\ Len(Units[u]) \in Nat \ {0}
         /\ DOMAIN Units[u] = 1 .. Len(Units[u])
  <1>1. e \in Existing /\ scenario \in Scenarios /\ RunnerTypeOK
    BY DEF BaseInv, RunnerTypeOK
  <1>2. work[e][u] \in WorkerRow /\ run \in [Experiments -> RunnerRow]
        /\ budget \in [DOMAIN scenario.budget -> Nat]
    BY <1>1 DEF RunnerTypeOK
  <1>3. ThreadOK(e, u, work[e][u])
    BY <1>1 DEF BaseInv, ThreadsOK
  <1> QED BY <1>1, <1>2, <1>3, UnitsAreCases

LEMMA RowPhase ==
  ASSUME NEW w \in WorkerRow, NEW pc \in WorkerPhases
  PROVE  LET x == [w EXCEPT !.pc = pc] IN
         /\ x \in WorkerRow /\ x.pc = pc
         /\ x.turn = w.turn /\ x.runtime = w.runtime /\ x.stage = w.stage
         /\ x.vals = w.vals /\ x.out = w.out /\ x.state = w.state
         /\ x.number = w.number /\ x.mode = w.mode /\ x.fresh = w.fresh
  BY DEF WorkerRow

LEMMA RowOutcome ==
  ASSUME NEW w \in WorkerRow, NEW pc \in WorkerPhases,
         NEW out \in Outcome,
         NEW x, x = [w EXCEPT !.pc = pc, !.out = out]
  PROVE  /\ x \in WorkerRow /\ x.pc = pc /\ x.out = out
         /\ x.turn = w.turn /\ x.runtime = w.runtime /\ x.stage = w.stage
         /\ x.vals = w.vals /\ x.state = w.state
         /\ x.number = w.number /\ x.mode = w.mode /\ x.fresh = w.fresh
  BY DEF WorkerRow

LEMMA RunStays ==
  ASSUME RunnerTypeOK, run' = run
  PROVE  /\ run' \in [Experiments -> RunnerRow]
         /\ \A f \in Experiments : run'[f].pc = run[f].pc /\ run'[f].unit = run[f].unit
  BY DEF RunnerTypeOK

LEMMA SpendTyped ==
  ASSUME budget \in [DOMAIN scenario.budget -> Nat], NEW what, Spend(what)
  PROVE  budget' \in [DOMAIN scenario.budget -> Nat]
  <1>1. budget[what] > 0 /\ budget' = [budget EXCEPT ![what] = @ - 1]
    BY DEF Spend
  <1>2. CASE what \in DOMAIN scenario.budget
    <2>1. budget[what] - 1 \in Nat
      BY <1>1, <1>2
    <2> QED BY <1>1, <2>1
  <1>3. CASE what \notin DOMAIN scenario.budget
    BY <1>1, <1>3
  <1> QED BY <1>2, <1>3

LEMMA SameBudget ==
  ASSUME BaseInv, UNCHANGED budget
  PROVE  RunnerTypeOK /\ budget' \in [DOMAIN scenario.budget -> Nat]
  BY DEF BaseInv, RunnerTypeOK

LEMMA GotoKeeps ==
  ASSUME BaseInv, NEW e \in Experiments, NEW u \in DOMAIN Units, run[e].pc = "on",
         UNCHANGED <<scenario, code, budget, exps, cache>>,
         run' \in [Experiments -> RunnerRow],
         \A f \in Experiments : run'[f].pc = run[f].pc /\ run'[f].unit = run[f].unit,
         NEW pc \in WorkerPhases \ {"off", "queued"}, Goto(e, u, pc),
         ThreadOK(e, u, [work[e][u] EXCEPT !.pc = pc])
  PROVE  BaseInv'
  <1>0. e \in Existing /\ work[e][u] \in WorkerRow
        /\ budget' \in [DOMAIN scenario.budget -> Nat]
    BY ThreadFacts
  <1> DEFINE w == [work[e][u] EXCEPT !.pc = pc]
  <1>1. w \in WorkerRow /\ w.pc = pc
    BY <1>0, RowPhase
  <1>2. SetWork(e, u, w) /\ ThreadOK(e, u, w)
    BY DEF Goto
  <1> HIDE DEF w
  <1> QED BY <1>0, <1>1, <1>2, QuietMove

\* A failure can be recorded from every stage of an attempt.
LEMMA FailKeeps ==
  ASSUME BaseInv, NEW e \in Experiments, NEW u \in DOMAIN Units, run[e].pc = "on",
         UNCHANGED <<scenario, code, exps, cache, run>>,
         budget' \in [DOMAIN scenario.budget -> Nat],
         work[e][u].pc \in Staged, NEW error \in Errors, NEW retryable \in BOOLEAN,
         Fail(e, u, error, retryable)
  PROVE  BaseInv'
  <1> DEFINE w == [work[e][u] EXCEPT !.pc = "record", !.out = Failure(error, retryable)]
  <1>1. Failure(error, retryable) \in Outcome
        /\ Failure(error, retryable).status \in {"failed", "interrupted"}
    BY DEF Failure, Outcome, AttemptStatuses, State
  <1>2. /\ w \in WorkerRow /\ w.pc = "record" /\ w.out = Failure(error, retryable)
        /\ w.turn = work[e][u].turn /\ w.runtime = work[e][u].runtime
        /\ w.vals = work[e][u].vals
    <2>1. work[e][u] \in WorkerRow /\ "record" \in WorkerPhases
      BY ThreadFacts DEF WorkerPhases
    <2> DEFINE out == Failure(error, retryable)
    <2>2. out \in Outcome
      BY <1>1
    <2> HIDE DEF out
    <2>3. w = [work[e][u] EXCEPT !.pc = "record", !.out = out]
      BY DEF out
    <2> HIDE DEF w
    <2>4. /\ w \in WorkerRow /\ w.pc = "record" /\ w.out = out
          /\ w.turn = work[e][u].turn /\ w.runtime = work[e][u].runtime
          /\ w.vals = work[e][u].vals
      BY <2>1, <2>2, <2>3 DEF WorkerRow
    <2> QED BY <2>4 DEF out
  <1>3. SetWork(e, u, w)
    BY DEF Fail
  <1> HIDE DEF w
  <1>4. ThreadOK(e, u, w)
    BY <1>1, <1>2, ThreadFacts DEF ThreadOK, Staged, AtWork, Dispatched, AttemptStatuses
  <1>5. e \in Existing /\ RunnerTypeOK
    BY ThreadFacts
  <1> QED BY <1>2, <1>3, <1>4, <1>5, RunStays, QuietMove

LEMMA GotoQuietly ==
  ASSUME BaseInv, NEW e \in Experiments, NEW u \in DOMAIN Units, run[e].pc = "on",
         UNCHANGED <<scenario, code, budget, exps, cache, run>>,
         NEW pc \in WorkerPhases \ {"off", "queued"}, Goto(e, u, pc),
         ThreadOK(e, u, [work[e][u] EXCEPT !.pc = pc])
  PROVE  BaseInv'
  <1>1. UNCHANGED <<scenario, code, budget, exps, cache>> /\ run' = run /\ RunnerTypeOK
    BY DEF BaseInv
  <1>2. /\ run' \in [Experiments -> RunnerRow]
        /\ \A f \in Experiments : run'[f].pc = run[f].pc /\ run'[f].unit = run[f].unit
    BY <1>1, RunStays
  <1> QED BY <1>1, <1>2, GotoKeeps

LEMMA FailQuietly ==
  ASSUME BaseInv, NEW e \in Experiments, NEW u \in DOMAIN Units, run[e].pc = "on",
         UNCHANGED <<scenario, code, budget, exps, cache, run>>,
         work[e][u].pc \in Staged, NEW error \in Errors, NEW retryable \in BOOLEAN,
         Fail(e, u, error, retryable)
  PROVE  BaseInv'
  <1>1. UNCHANGED <<scenario, code, exps, cache, run>>
        /\ budget' \in [DOMAIN scenario.budget -> Nat]
    BY SameBudget
  <1> QED BY <1>1, FailKeeps

LEMMA FailsQuietly ==
  ASSUME BaseInv, NEW e \in Experiments, NEW u \in DOMAIN Units, run[e].pc = "on",
         UNCHANGED <<scenario, code, budget, exps, cache, run>>,
         work[e][u].pc \in {"begun", "stage", "call", "publish"},
         \/ Fail(e, u, "controlled_interrupt", TRUE)
         \/ \E error \in {"executor_contract_error", "replay_cache_miss",
                           "cache_corruption", "cache_conflict"} : Fail(e, u, error, FALSE)
  PROVE  BaseInv'
  <1>1. work[e][u].pc \in Staged
    BY DEF Staged, Dispatched
  <1>2. TRUE \in BOOLEAN /\ FALSE \in BOOLEAN
    OBVIOUS
  <1>3. CASE Fail(e, u, "controlled_interrupt", TRUE)
    <2>1. "controlled_interrupt" \in Errors
      BY DEF Errors
    <2> QED BY <1>1, <1>2, <1>3, <2>1, FailQuietly, Zenon
  <1>4. CASE \E error \in {"executor_contract_error", "replay_cache_miss",
                           "cache_corruption", "cache_conflict"} : Fail(e, u, error, FALSE)
    <2> PICK error \in {"executor_contract_error", "replay_cache_miss",
                        "cache_corruption", "cache_conflict"} : Fail(e, u, error, FALSE)
      BY <1>4
    <2>1. error \in Errors
      BY DEF Errors
    <2> QED BY <1>1, <1>2, <2>1, FailQuietly, Zenon
  <1> QED BY <1>3, <1>4

LEMMA TakeUnitKeeps ==
  ASSUME BaseInv, NEW e \in Experiments, NEW u \in DOMAIN Units, TakeUnit(e, u)
  PROVE  BaseInv'
  <1>1. run[e].pc = "on" /\ work[e][u].pc = "queued" /\ Goto(e, u, "turn")
        /\ UNCHANGED <<scenario, code, budget, exps, cache, run>>
    BY DEF TakeUnit, At
  <1>2. ThreadOK(e, u, [work[e][u] EXCEPT !.pc = "turn"])
    BY <1>1, ThreadFacts DEF ThreadOK, Staged, AtWork, Dispatched, WorkerRow
  <1> QED BY <1>1, <1>2, GotoQuietly DEF WorkerPhases

LEMMA EnterCaseKeeps ==
  ASSUME BaseInv, NEW e \in Experiments, NEW u \in DOMAIN Units, EnterCase(e, u)
  PROVE  BaseInv'
  <1>1. run[e].pc = "on" /\ work[e][u].pc = "begun"
        /\ UNCHANGED <<scenario, code, budget, exps, cache, run>>
    BY DEF EnterCase, At
  <1>2. CASE Fail(e, u, "controlled_interrupt", TRUE)
    BY <1>1, <1>2, FailsQuietly
  <1>3. CASE Fail(e, u, "executor_contract_error", FALSE)
    BY <1>1, <1>3, FailsQuietly
  <1>4. CASE Goto(e, u, "stage")
    <2>1. ThreadOK(e, u, [work[e][u] EXCEPT !.pc = "stage"])
      BY <1>1, ThreadFacts DEF ThreadOK, Staged, AtWork, Dispatched, WorkerRow
    <2> QED BY <1>1, <1>4, <2>1, GotoQuietly DEF WorkerPhases
  <1> QED BY <1>2, <1>3, <1>4 DEF EnterCase

LEMMA DispatchKeeps ==
  ASSUME BaseInv, NEW e \in Experiments, NEW u \in DOMAIN Units,
         CallStopped(e, u) \/ Dispatch(e, u)
  PROVE  BaseInv'
  <1>1. run[e].pc = "on" /\ work[e][u].pc = "call"
        /\ UNCHANGED <<scenario, code, budget, exps, cache, run>>
    BY DEF CallStopped, Dispatch, At
  <1>2. CASE CallStopped(e, u)
    BY <1>1, <1>2, FailsQuietly DEF CallStopped
  <1>3. CASE Dispatch(e, u)
    <2>1. ThreadOK(e, u, [work[e][u] EXCEPT !.pc = "wait"])
      BY <1>1, ThreadFacts DEF ThreadOK, Staged, AtWork, Dispatched, WorkerRow
    <2>2. Goto(e, u, "wait")
      BY <1>3 DEF Dispatch
    <2> QED BY <1>1, <2>1, <2>2, GotoQuietly DEF WorkerPhases
  <1> QED BY <1>2, <1>3

LEMMA AnswerKeeps ==
  ASSUME BaseInv, NEW e \in Experiments, NEW u \in DOMAIN Units, NEW answer \in Answers,
         Answer(e, u, answer)
  PROVE  BaseInv'
  <1> DEFINE w == [work[e][u] EXCEPT !.pc = "publish", !.answer = answer]
  <1>1. run[e].pc = "on" /\ work[e][u].pc = "wait" /\ SetWork(e, u, w)
        /\ UNCHANGED <<scenario, code, budget, exps, cache, run>>
    BY DEF Answer, At
  <1>2. w \in WorkerRow /\ w.pc = "publish"
    <2>1. work[e][u] \in WorkerRow /\ answer \in Values
      BY <1>1, ThreadFacts DEF Values
    <2> QED BY <2>1 DEF WorkerRow, WorkerPhases
  <1>3. ThreadOK(e, u, w)
    <2>1. work[e][u] \in WorkerRow /\ ThreadOK(e, u, work[e][u])
      BY <1>1, ThreadFacts
    <2>2. w.turn = work[e][u].turn /\ w.runtime = work[e][u].runtime /\ w.vals = work[e][u].vals
          /\ w.stage = work[e][u].stage
      BY <2>1 DEF WorkerRow
    <2> HIDE DEF w
    <2> QED BY <1>1, <1>2, <2>1, <2>2 DEF ThreadOK, Staged, AtWork, Dispatched
  <1>4. e \in Existing
    BY <1>1, ThreadFacts
  <1> HIDE DEF w
  <1> QED BY <1>1, <1>2, <1>3, <1>4, SameBudget, RunStays, QuietMove

LEMMA ProviderFailsKeeps ==
  ASSUME BaseInv, NEW e \in Experiments, NEW u \in DOMAIN Units, NEW retryable \in BOOLEAN,
         ProviderFails(e, u, retryable)
  PROVE  BaseInv'
  <1>1. run[e].pc = "on" /\ work[e][u].pc = "wait" /\ Spend("failures")
        /\ UNCHANGED <<scenario, code, exps, cache, run>>
        /\ Fail(e, u, "provider_failure", retryable)
    BY DEF ProviderFails, At
  <1>2. budget' \in [DOMAIN scenario.budget -> Nat]
    BY <1>1, ThreadFacts, SpendTyped
  <1>3. work[e][u].pc \in Staged
    BY <1>1 DEF Staged, Dispatched
  <1>4. "provider_failure" \in Errors
    BY DEF Errors
  <1> QED BY <1>1, <1>2, <1>3, <1>4, FailKeeps, Zenon

LEMMA RequestCallKeeps ==
  ASSUME BaseInv, NEW e \in Experiments, NEW u \in DOMAIN Units, RequestCall(e, u)
  PROVE  BaseInv'
  <1>1. run[e].pc = "on" /\ work[e][u].pc = "stage" /\ ~Finished(e, u)
        /\ UNCHANGED <<scenario, code, budget, exps, cache, run>>
    BY DEF RequestCall, Produces, At
  <1>2. CASE Fail(e, u, "executor_contract_error", FALSE)
    BY <1>1, <1>2, FailsQuietly
  <1>3. CASE Goto(e, u, "call")
    <2>1. work[e][u].stage <= Len(Plan) /\ work[e][u].vals \in Seq(Values)
      BY <1>1, ThreadFacts, ManifestFacts, PlanFacts DEF Finished, WorkerRow
    <2>2. ThreadOK(e, u, [work[e][u] EXCEPT !.pc = "call"])
      BY <1>1, <2>1, ThreadFacts, PlanFacts DEF ThreadOK, Staged, AtWork, Dispatched, WorkerRow
    <2> QED BY <1>1, <1>3, <2>2, GotoQuietly DEF WorkerPhases
  <1> QED BY <1>2, <1>3 DEF RequestCall

LEMMA ReplayMissKeeps ==
  ASSUME BaseInv, NEW e \in Experiments, NEW u \in DOMAIN Units, ReplayMiss(e, u)
  PROVE  BaseInv'
  <1>1. run[e].pc = "on" /\ work[e][u].pc = "stage"
        /\ UNCHANGED <<scenario, code, budget, exps, cache, run>>
        /\ Fail(e, u, "replay_cache_miss", FALSE)
    BY DEF ReplayMiss, At
  <1> QED BY <1>1, FailsQuietly

LEMMA RunTerminates ==
  ASSUME RunnerTypeOK, NEW e \in Experiments, NEW u \in DOMAIN Units,
         work[e][u].turn \in DOMAIN Units[u], Terminate(e, u)
  PROVE  /\ run' \in [Experiments -> RunnerRow]
         /\ \A f \in Experiments : run'[f].pc = run[f].pc /\ run'[f].unit = run[f].unit
  <1>0. run \in [Experiments -> RunnerRow] /\ run[e] \in RunnerRow /\ scenario \in Scenarios
    BY DEF RunnerTypeOK
  <1> DEFINE r == [run[e] EXCEPT !.terminal = @ \cup {CurrentCase(e, u).id}]
  <1>1. CurrentCase(e, u).id \in CaseIds(scenario.dataset)
    BY <1>0, CasePlaces DEF CurrentCase
  <1>2. r \in RunnerRow /\ r.pc = run[e].pc /\ r.unit = run[e].unit
    BY <1>0, <1>1 DEF RunnerRow
  <1>3. run' = [run EXCEPT ![e] = r]
    BY DEF Terminate, SetRun
  <1> HIDE DEF r
  <1> QED BY <1>0, <1>2, <1>3

LEMMA FilesOf ==
  ASSUME BaseInv, NEW e \in Existing, NEW u \in DOMAIN Units, NEW i \in DOMAIN Units[u]
  PROVE  /\ exps[e].dirs[Units[u][i].id] \in CaseDir
         /\ exps[e].dirs[Units[u][i].id].attempts \in Seq(AttemptFile)
         /\ Len(exps[e].dirs[Units[u][i].id].attempts) \in Nat
  <1>1. RunnerTypeOK /\ scenario \in Scenarios
    BY DEF BaseInv, RunnerTypeOK
  <1>2. exps[e].dirs[Units[u][i].id] \in CaseDir
    BY <1>1, ManifestFacts, CasePlaces
  <1>3. exps[e].dirs[Units[u][i].id].attempts \in Seq(AttemptFile)
    BY <1>2 DEF CaseDir
  <1>4. \A files \in Seq(AttemptFile) : Len(files) \in Nat
    OBVIOUS
  <1> QED BY <1>2, <1>3, <1>4

LEMMA BeginAttemptKeeps ==
  ASSUME BaseInv, NEW e \in Experiments, NEW u \in DOMAIN Units, run[e].pc = "on",
         UNCHANGED <<scenario, code, budget, exps, cache>>,
         work[e][u].pc \in {"turn", "retry"}, work[e][u].turn \in DOMAIN Units[u],
         BeginAttempt(e, u)
  PROVE  BaseInv'
  <1>0. /\ e \in Existing /\ scenario \in Scenarios /\ RunnerTypeOK
        /\ work[e][u] \in WorkerRow /\ ThreadOK(e, u, work[e][u])
        /\ budget' \in [DOMAIN scenario.budget -> Nat]
    BY ThreadFacts
  <1> DEFINE id == CurrentCase(e, u).id
             number == Len(exps[e].dirs[id].attempts) + 1
             mode == AttemptMode(run[e].mode, number)
  <1>1. number \in Nat /\ mode \in CacheModes
    <2>1. number \in Nat
      <3>1. Len(exps[e].dirs[id].attempts) \in Nat
        BY <1>0, FilesOf DEF CurrentCase
      <3>2. \A n \in Nat : n + 1 \in Nat
        OBVIOUS
      <3> HIDE DEF id
      <3> QED BY <3>1, <3>2, Zenon
    <2>2. run[e].mode \in CacheModes
      BY <1>0 DEF RunnerTypeOK, RunnerRow
    <2> QED BY <2>1, <2>2 DEF AttemptMode, CacheModes
  <1>2. CASE Goto(e, u, "raised") /\ UNCHANGED run
    <2>1. ThreadOK(e, u, [work[e][u] EXCEPT !.pc = "raised"])
      BY <1>0 DEF ThreadOK, Staged, AtWork, Dispatched, WorkerRow
    <2> QED BY <1>0, <1>2, <2>1, GotoQuietly DEF WorkerPhases
  <1>3. CASE Goto(e, u, "done") /\ Terminate(e, u)
    <2>1. ThreadOK(e, u, [work[e][u] EXCEPT !.pc = "done"])
      BY <1>0 DEF ThreadOK, Staged, AtWork, Dispatched, WorkerRow
    <2>2. /\ run' \in [Experiments -> RunnerRow]
          /\ \A f \in Experiments : run'[f].pc = run[f].pc /\ run'[f].unit = run[f].unit
      BY <1>0, <1>3, RunTerminates
    <2>3. Goto(e, u, "done") /\ "done" \in WorkerPhases \ {"off", "queued"}
      BY <1>3 DEF WorkerPhases
    <2> QED BY <2>1, <2>2, <2>3, GotoKeeps
  <1>4. CASE /\ SetWork(e, u,
                   [work[e][u] EXCEPT !.pc = "begun", !.number = number, !.mode = mode,
                             !.runtime = IF @ = NoRuntime THEN NewRuntime(work[e][u].state, mode) ELSE @,
                             !.stage = 1, !.vals = <<>>, !.fresh = {}])
             /\ UNCHANGED run
    <2> DEFINE runtime == IF work[e][u].runtime = NoRuntime THEN NewRuntime(work[e][u].state, mode)
                          ELSE work[e][u].runtime
               w == [work[e][u] EXCEPT !.pc = "begun", !.number = number, !.mode = mode,
                             !.runtime = runtime, !.stage = 1, !.vals = <<>>, !.fresh = {}]
    <2>1. runtime \in Runtime
      <3>1. work[e][u].runtime \in Runtime \cup {NoRuntime} /\ work[e][u].state \in State
        BY <1>0 DEF WorkerRow
      <3>2. NewRuntime(work[e][u].state, mode) \in Runtime
        BY <1>1, <3>1 DEF NewRuntime, Runtime, State
      <3> QED BY <3>1, <3>2
    <2>2. /\ w \in WorkerRow /\ w.pc = "begun" /\ w.turn = work[e][u].turn
          /\ w.runtime = runtime /\ w.stage = 1 /\ w.vals = <<>>
      <3> HIDE DEF runtime, number, mode
      <3>1. <<>> \in Seq(Values) /\ {} \in SUBSET Nat /\ 1 \in Nat /\ "begun" \in WorkerPhases
        BY DEF WorkerPhases
      <3> QED BY <1>0, <1>1, <2>1, <3>1 DEF WorkerRow
    <2>3. SetWork(e, u, w)
      <3>1. work[e][u].runtime = work[e][u].runtime
        OBVIOUS
      <3> HIDE DEF number, mode
      <3> QED BY <1>4
    <2>4. ThreadOK(e, u, w)
      <3>1. Filed(exps[e].manifest.code, Units[u][w.turn].question, w.runtime.memory, w.vals)
        BY <2>2 DEF Filed, FiledIn
      <3>2. Len(w.vals) = 0 /\ Len(Plan) \in Nat
        BY <1>0, <2>2, PlanFacts
      <3> HIDE DEF w, runtime
      <3> QED BY <2>1, <2>2, <3>1, <3>2 DEF ThreadOK, Staged, AtWork, Dispatched
    <2> HIDE DEF w
    <2> QED BY <1>0, <1>4, <2>2, <2>3, <2>4, RunStays, QuietMove
  <1> QED
    <2> HIDE DEF number, mode
    <2> QED BY <1>2, <1>3, <1>4 DEF BeginAttempt, number, mode, id

LEMMA StartTurnKeeps ==
  ASSUME BaseInv, NEW e \in Experiments, NEW u \in DOMAIN Units,
         StartTurn(e, u) \/ RetryAttempt(e, u)
  PROVE  BaseInv'
  <1>1. run[e].pc = "on" /\ UNCHANGED <<scenario, code, budget, exps, cache>>
        /\ work[e][u].pc \in {"turn", "retry"}
    BY DEF StartTurn, RetryAttempt, At
  <1>2. CASE StartTurn(e, u) /\ Goto(e, u, "done") /\ UNCHANGED run
    <2>1. ThreadOK(e, u, [work[e][u] EXCEPT !.pc = "done"])
      BY <1>1, ThreadFacts DEF ThreadOK, Staged, AtWork, Dispatched, WorkerRow
    <2> QED BY <1>1, <1>2, <2>1, GotoQuietly DEF WorkerPhases
  <1>3. CASE StartTurn(e, u) /\ ~(work[e][u].turn > Len(Units[u])) /\ BeginAttempt(e, u)
    <2>1. work[e][u].turn \in DOMAIN Units[u]
      BY <1>1, <1>3, ThreadFacts DEF ThreadOK, StartTurn, At
    <2> QED BY <1>1, <1>3, <2>1, BeginAttemptKeeps
  <1>4. CASE RetryAttempt(e, u)
    <2>1. work[e][u].turn \in DOMAIN Units[u]
      BY <1>1, <1>4, ThreadFacts DEF ThreadOK, RetryAttempt, At
    <2> QED BY <1>1, <1>4, <2>1, BeginAttemptKeeps DEF RetryAttempt
  <1> QED BY <1>2, <1>3, <1>4 DEF StartTurn

-----------------------------------------------------------------------------

\* The key a thread looks up is the one its next value is filed under.
LEMMA KeyIsNext ==
  ASSUME BaseInv, NEW e \in Experiments, NEW u \in DOMAIN Units, run[e].pc = "on",
         work[e][u].pc \in {"stage", "publish"}, work[e][u].pc = "stage" => ~Finished(e, u)
  PROVE  /\ StageKey(e, u) =
              KeyAt(scenario, exps[e].manifest.code, Units[u][work[e][u].turn].question,
                    work[e][u].runtime.memory, work[e][u].vals, Len(work[e][u].vals) + 1)
         /\ Len(work[e][u].vals) < Len(Plan) /\ work[e][u].stage = Len(work[e][u].vals) + 1
  <1>0. /\ e \in Existing /\ scenario \in Scenarios /\ RunnerTypeOK
        /\ work[e][u] \in WorkerRow /\ ThreadOK(e, u, work[e][u])
    BY ThreadFacts
  <1>1. work[e][u].vals \in Seq(Values) /\ work[e][u].stage = Len(work[e][u].vals) + 1
    BY <1>0 DEF WorkerRow, ThreadOK, Staged, Dispatched
  <1>2. SubSeq(work[e][u].vals, 1, (Len(work[e][u].vals) + 1) - 1) = work[e][u].vals
    BY <1>1
  <1>3. StageAt(e, u) = PlanOf(scenario)[Len(work[e][u].vals) + 1]
        /\ exps[e].manifest.generate = scenario.generate
    BY <1>0, <1>1, ManifestFacts DEF StageAt, Plan
  <1>4. StageKey(e, u) =
           KeyAt(scenario, exps[e].manifest.code, Units[u][work[e][u].turn].question,
                 work[e][u].runtime.memory, work[e][u].vals, Len(work[e][u].vals) + 1)
    BY <1>2, <1>3 DEF StageKey, KeyAt, StageContract, CurrentCase
  <1>5. Len(work[e][u].vals) < Len(Plan)
    <2>1. CASE work[e][u].pc = "stage"
      BY <1>0, <1>1, <2>1, ManifestFacts, PlanFacts DEF Finished
    <2>2. CASE work[e][u].pc = "publish"
      BY <1>0, <2>2 DEF ThreadOK, Dispatched
    <2> QED BY <2>1, <2>2
  <1> QED BY <1>1, <1>4, <1>5

\* A value that is in the cache under the thread's key becomes its next one.
LEMMA UseKeeps ==
  ASSUME BaseInv, NEW e \in Experiments, NEW u \in DOMAIN Units, run[e].pc = "on",
         work[e][u].pc \in {"stage", "publish"}, work[e][u].pc = "stage" => ~Finished(e, u),
         UNCHANGED <<scenario, code, budget, exps, run>>, CacheGrows, CacheTyped',
         NEW value \in Values, StageKey(e, u) \in DOMAIN cache',
         cache'[StageKey(e, u)].value = value,
         Use(e, u, value) \/ UseFresh(e, u, value)
  PROVE  BaseInv'
  <1>0. /\ e \in Existing /\ scenario \in Scenarios /\ RunnerTypeOK
        /\ work[e][u] \in WorkerRow /\ ThreadOK(e, u, work[e][u])
    BY ThreadFacts
  <1>1. PICK w \in WorkerRow :
          /\ w.pc = "stage" /\ w.stage = work[e][u].stage + 1
          /\ w.vals = Append(work[e][u].vals, value)
          /\ w.turn = work[e][u].turn /\ w.runtime = work[e][u].runtime
          /\ SetWork(e, u, w)
    <2>1. work[e][u].fresh \in SUBSET Nat /\ work[e][u].fresh \cup {work[e][u].stage} \in SUBSET Nat
      BY <1>0 DEF WorkerRow
    <2>2. CASE Use(e, u, value)
      <3> DEFINE w == [work[e][u] EXCEPT !.pc = "stage", !.stage = @ + 1, !.vals = Append(@, value)]
      <3>1. SetWork(e, u, w)
        BY <2>2 DEF Use
      <3>2. w = [work[e][u] EXCEPT !.pc = "stage", !.stage = work[e][u].stage + 1,
                   !.vals = Append(work[e][u].vals, value), !.fresh = work[e][u].fresh]
        BY <1>0 DEF WorkerRow
      <3> HIDE DEF w
      <3>3. /\ w \in WorkerRow /\ w.pc = "stage" /\ w.stage = work[e][u].stage + 1
            /\ w.vals = Append(work[e][u].vals, value)
            /\ w.turn = work[e][u].turn /\ w.runtime = work[e][u].runtime
        <4>1. work[e][u].stage + 1 \in Nat /\ Append(work[e][u].vals, value) \in Seq(Values)
              /\ "stage" \in WorkerPhases
          BY <1>0 DEF WorkerRow, WorkerPhases
        <4> QED BY <1>0, <2>1, <3>2, <4>1 DEF WorkerRow
      <3> QED BY <3>1, <3>3
    <2>3. CASE UseFresh(e, u, value)
      <3> DEFINE w == [work[e][u] EXCEPT !.pc = "stage", !.stage = @ + 1, !.vals = Append(@, value),
                          !.fresh = @ \cup {work[e][u].stage}]
      <3>1. SetWork(e, u, w)
        BY <2>3 DEF UseFresh
      <3>2. w = [work[e][u] EXCEPT !.pc = "stage", !.stage = work[e][u].stage + 1,
                   !.vals = Append(work[e][u].vals, value),
                   !.fresh = work[e][u].fresh \cup {work[e][u].stage}]
        BY <1>0 DEF WorkerRow
      <3> HIDE DEF w
      <3>3. /\ w \in WorkerRow /\ w.pc = "stage" /\ w.stage = work[e][u].stage + 1
            /\ w.vals = Append(work[e][u].vals, value)
            /\ w.turn = work[e][u].turn /\ w.runtime = work[e][u].runtime
        <4>1. work[e][u].stage + 1 \in Nat /\ Append(work[e][u].vals, value) \in Seq(Values)
              /\ "stage" \in WorkerPhases
          BY <1>0 DEF WorkerRow, WorkerPhases
        <4> QED BY <1>0, <2>1, <3>2, <4>1 DEF WorkerRow
      <3> QED BY <3>1, <3>3
    <2> QED BY <2>2, <2>3
  <1>2. FrameOK /\ Kept
    <2>1. Existing' = Existing /\ exps \in [Existing -> ExperimentFiles]
      BY <1>0 DEF RunnerTypeOK, Existing
    <2>2. budget' \in [DOMAIN scenario.budget -> Nat]
      BY SameBudget
    <2> QED BY <1>0, <2>1, <2>2, RunStays DEF FrameOK, Kept, ManifestsStay
  <1>3. RecordsOK'
    BY <1>2, RecordsStay DEF BaseInv
  <1>4. ThreadOK(e, u, w)'
    <2> DEFINE c == exps[e].manifest.code
               q == Units[u][w.turn].question
               m == w.runtime.memory
               vals == work[e][u].vals
    <2>1. w.turn \in DOMAIN Units[u] /\ w.runtime \in Runtime
      BY <1>0, <1>1 DEF ThreadOK, Staged, AtWork, Dispatched
    <2>2. vals \in Seq(Values) /\ Len(vals) < Len(Plan) /\ work[e][u].stage = Len(vals) + 1
      BY <1>0, KeyIsNext DEF WorkerRow
    <2>3. FiledIn(scenario, cache', c, q, m, vals)
      <3>1. FiledIn(scenario, cache, c, q, m, vals)
        BY <1>0, <1>1 DEF ThreadOK, Staged, Dispatched, Filed
      <3> QED BY <1>2, <3>1, FiledStays
    <2>4. StageKey(e, u) = KeyAt(scenario, c, q, m, vals, Len(vals) + 1)
      BY <1>1, KeyIsNext
    <2>5. FiledIn(scenario, cache', c, q, m, Append(vals, value))
      <3> HIDE DEF c, q, m, vals
      <3> QED BY <1>0, <2>2, <2>3, <2>4, FiledExtendsIn
    <2>6. Len(w.vals) = Len(vals) + 1 /\ Len(vals) + 1 <= Len(Plan) /\ w.stage = Len(w.vals) + 1
      BY <1>0, <1>1, <2>2, PlanFacts
    <2>7. Units' = Units /\ Plan' = Plan
      BY SameUnits
    <2> QED BY <1>1, <2>1, <2>5, <2>6, <2>7 DEF ThreadOK, Staged, AtWork, Dispatched, Filed
  <1>5. run[e].pc = "on" /\ w.pc \notin {"off", "queued"}
    BY <1>1
  <1> QED BY <1>0, <1>1, <1>2, <1>3, <1>4, <1>5, ThreadMoves

LEMMA StageHitKeeps ==
  ASSUME BaseInv, NEW e \in Experiments, NEW u \in DOMAIN Units, StageHit(e, u)
  PROVE  BaseInv'
  <1>1. /\ run[e].pc = "on" /\ work[e][u].pc = "stage" /\ ~Finished(e, u)
        /\ StageKey(e, u) \in DOMAIN cache
        /\ UNCHANGED <<scenario, code, budget, exps, cache, run>>
    BY DEF StageHit, At, Cached
  <1>2. CASE Use(e, u, cache[StageKey(e, u)].value)
    <2>1. CacheTyped /\ cache[StageKey(e, u)].value \in Values
      BY <1>1, ThreadFacts DEF RunnerTypeOK, CacheTyped
    <2>2. CacheGrows /\ CacheTyped'
      BY <1>1, <2>1 DEF CacheGrows, CacheTyped
    <2> QED BY <1>1, <1>2, <2>1, <2>2, UseKeeps
  <1>3. CASE Fail(e, u, "cache_corruption", FALSE)
    BY <1>1, <1>3, FailsQuietly
  <1> QED BY <1>2, <1>3 DEF StageHit

LEMMA WriteKeeps ==
  ASSUME BaseInv, NEW e \in Experiments, NEW u \in DOMAIN Units, run[e].pc = "on",
         work[e][u].pc \in {"stage", "publish"}, work[e][u].pc = "stage" => ~Finished(e, u),
         UNCHANGED <<scenario, code, budget, exps, run>>,
         NEW value \in Values, WriteImmutable(e, u, value)
  PROVE  BaseInv'
  <1> DEFINE key == StageKey(e, u)
  <1>1. CacheTyped
    BY ThreadFacts DEF RunnerTypeOK, CacheTyped
  <1> HIDE DEF key
  <1>2. CASE /\ key \notin DOMAIN cache
             /\ cache' = [k \in DOMAIN cache \cup {key} |->
                         IF k = key THEN [value |-> value, intact |-> TRUE] ELSE cache[k]]
             /\ UseFresh(e, u, value)
    <2>1. CacheGrows /\ CacheTyped' /\ key \in DOMAIN cache' /\ cache'[key].value = value
      BY <1>1, <1>2 DEF CacheGrows, CacheTyped
    <2> QED BY <1>2, <2>1, UseKeeps DEF key
  <1>3. CASE UNCHANGED cache /\ key \in DOMAIN cache /\ cache[key].value = value /\ UseFresh(e, u, value)
    <2>1. CacheGrows /\ CacheTyped' /\ key \in DOMAIN cache' /\ cache'[key].value = value
      BY <1>1, <1>3 DEF CacheGrows, CacheTyped
    <2> QED BY <1>3, <2>1, UseKeeps DEF key
  <1>4. CASE UNCHANGED cache /\ \/ Fail(e, u, "cache_corruption", FALSE)
                                \/ Fail(e, u, "cache_conflict", FALSE)
    BY <1>4, FailsQuietly
  <1>5. CASE UNCHANGED cache /\ work[e][u].pc = "publish" /\ Goto(e, u, "raised")
    <2>1. work[e][u] \in WorkerRow /\ ThreadOK(e, u, work[e][u])
      BY ThreadFacts
    <2>2. ThreadOK(e, u, [work[e][u] EXCEPT !.pc = "raised"])
      BY <1>5, <2>1 DEF ThreadOK, Staged, AtWork, Dispatched, WorkerRow
    <2> QED BY <1>5, <2>2, GotoQuietly DEF WorkerPhases
  <1> QED BY <1>2, <1>3, <1>4, <1>5 DEF WriteImmutable, FailPublication, Cached, key

LEMMA StoreKeeps ==
  ASSUME BaseInv, NEW e \in Experiments, NEW u \in DOMAIN Units,
         LocalStage(e, u) \/ PublishStage(e, u)
  PROVE  BaseInv'
  <1>1. CASE LocalStage(e, u)
    <2>1. run[e].pc = "on" /\ work[e][u].pc = "stage" /\ ~Finished(e, u)
          /\ WriteImmutable(e, u, Computed) /\ UNCHANGED <<scenario, code, budget, exps, run>>
      BY <1>1 DEF LocalStage, Produces, At
    <2>2. Computed \in Values
      BY DEF Values
    <2> QED BY <2>1, <2>2, WriteKeeps
  <1>2. CASE PublishStage(e, u)
    <2>1. run[e].pc = "on" /\ work[e][u].pc = "publish"
          /\ WriteImmutable(e, u, work[e][u].answer) /\ UNCHANGED <<scenario, code, budget, exps, run>>
      BY <1>2 DEF PublishStage, At
    <2>2. work[e][u].answer \in Values
      BY <2>1, ThreadFacts DEF WorkerRow
    <2> QED BY <2>1, <2>2, WriteKeeps
  <1> QED BY <1>1, <1>2

-----------------------------------------------------------------------------
(* The end of an attempt.                                                   *)

LEMMA SessionsAnswer ==
  ASSUME BaseInv, NEW e \in Existing, NEW u \in DOMAIN Units, IsSession(Units[u])
  PROVE  Len(Plan) >= 4
  <1>1. scenario \in Scenarios
    BY DEF BaseInv, RunnerTypeOK
  <1>2. 1 \in DOMAIN Units[u] /\ Spot(u, 1) \in DOMAIN scenario.dataset
        /\ Units[u][1] = scenario.dataset[Spot(u, 1)]
    BY <1>1, UnitsAreCases
  <1>3. scenario.dataset[Spot(u, 1)].group # NoGroup
    BY <1>2 DEF IsSession
  <1>4. scenario.generate
    BY <1>2, <1>3 DEF BaseInv, SessionsGenerate
  <1> QED BY <1>1, <1>4, PlanFacts

LEMMA SucceedCaseKeeps ==
  ASSUME BaseInv, NEW e \in Experiments, NEW u \in DOMAIN Units, SucceedCase(e, u)
  PROVE  BaseInv'
  <1>1. run[e].pc = "on" /\ work[e][u].pc = "stage" /\ Finished(e, u)
        /\ UNCHANGED <<scenario, code, budget, exps, cache, run>>
    BY DEF SucceedCase, At
  <1>0. /\ e \in Existing /\ scenario \in Scenarios /\ RunnerTypeOK
        /\ work[e][u] \in WorkerRow /\ ThreadOK(e, u, work[e][u])
    BY <1>1, ThreadFacts
  <1>2. /\ work[e][u].vals \in Seq(Values) /\ work[e][u].runtime \in Runtime
        /\ work[e][u].turn \in DOMAIN Units[u]
        /\ work[e][u].stage = Len(work[e][u].vals) + 1 /\ Len(work[e][u].vals) <= Len(Plan)
        /\ Filed(exps[e].manifest.code, Units[u][work[e][u].turn].question,
                 work[e][u].runtime.memory, work[e][u].vals)
    BY <1>0, <1>1 DEF WorkerRow, ThreadOK, Staged, AtWork
  <1>3. Len(work[e][u].vals) = Len(Plan)
    <2>1. work[e][u].stage > Len(Plan)
      BY <1>0, <1>1, ManifestFacts DEF Finished
    <2>2. Len(work[e][u].vals) \in Nat /\ Len(Plan) \in Nat
      BY <1>0, <1>2, PlanFacts
    <2> QED BY <1>2, <2>1, <2>2
  <1> DEFINE after == StateAfter(e, u)
             out == [status |-> "succeeded", retryable |-> FALSE, error |-> "none", after |-> after]
             w == [work[e][u] EXCEPT !.pc = "record", !.out = out]
  <1>4. after \in State
    <2>1. CASE IsSession(Units[u])
      <3>1. Len(work[e][u].vals) >= 4
        BY <1>0, <1>3, <2>1, SessionsAnswer
      <3>2. work[e][u].vals[Generation] \in Values
        BY <1>2, <3>1 DEF Generation
      <3>3. work[e][u].runtime.memory \in Seq(Values)
        BY <1>2 DEF Runtime
      <3>4. Append(work[e][u].runtime.memory, work[e][u].vals[Generation]) \in Seq(Values)
        BY <3>2, <3>3
      <3> QED BY <2>1, <3>4 DEF StateAfter, State
    <2>2. CASE ~IsSession(Units[u])
      BY <2>2 DEF StateAfter, State
    <2> QED BY <2>1, <2>2
  <1>5. SetWork(e, u, w)
    BY DEF SucceedCase
  <1> HIDE DEF after
  <1>6. out \in Outcome /\ out.status = "succeeded"
    BY <1>4 DEF Outcome, AttemptStatuses, Errors
  <1> HIDE DEF out
  <1>7. /\ w \in WorkerRow /\ w.pc = "record" /\ w.out = out
        /\ w.turn = work[e][u].turn /\ w.runtime = work[e][u].runtime
        /\ w.vals = work[e][u].vals
    <2>1. "record" \in WorkerPhases
      BY DEF WorkerPhases
    <2> QED BY <1>0, <1>6, <2>1 DEF WorkerRow
  <1> HIDE DEF w
  <1>8. ThreadOK(e, u, w)
    BY <1>2, <1>3, <1>6, <1>7 DEF ThreadOK, Staged, AtWork, Dispatched, AttemptStatuses
  <1> QED BY <1>0, <1>1, <1>5, <1>7, <1>8, SameBudget, RunStays, QuietMove

-----------------------------------------------------------------------------

LEMMA DirsSet ==
  ASSUME RunnerTypeOK, NEW e \in Existing,
         NEW dirs \in [CaseIds(scenario.dataset) -> CaseDir], SetDirs(e, dirs)
  PROVE  /\ Existing' = Existing /\ exps' \in [Existing -> ExperimentFiles] /\ ManifestsStay
         /\ \A f \in Existing : f # e => exps'[f] = exps[f]
         /\ exps'[e].dirs = dirs
  <1>0. exps \in [Existing -> ExperimentFiles] /\ exps[e] \in ExperimentFiles
    BY DEF RunnerTypeOK
  <1> DEFINE x == [exps[e] EXCEPT !.dirs = dirs]
  <1>1. x \in ExperimentFiles /\ x.dirs = dirs /\ x.manifest = exps[e].manifest
    BY <1>0 DEF ExperimentFiles
  <1>2. exps' = [exps EXCEPT ![e] = x]
    BY DEF SetDirs
  <1> HIDE DEF x
  <1>3. exps' \in [Existing -> ExperimentFiles] /\ exps'[e] = x
        /\ \A f \in Existing : f # e => exps'[f] = exps[f]
    BY <1>0, <1>1, <1>2
  <1>4. Existing' = Existing
    BY <1>2 DEF Existing
  <1> QED BY <1>1, <1>3, <1>4 DEF ManifestsStay

LEMMA DirSet ==
  ASSUME RunnerTypeOK, NEW e \in Existing, NEW id \in CaseIds(scenario.dataset),
         NEW dir \in CaseDir, SetDir(e, id, dir)
  PROVE  /\ Existing' = Existing /\ exps' \in [Existing -> ExperimentFiles] /\ ManifestsStay
         /\ \A f \in Existing : f # e => exps'[f] = exps[f]
         /\ exps'[e].dirs[id] = dir
         /\ \A other \in CaseIds(scenario.dataset) :
               other # id => exps'[e].dirs[other] = exps[e].dirs[other]
  <1>0. exps \in [Existing -> ExperimentFiles] /\ exps[e] \in ExperimentFiles
        /\ exps[e].dirs \in [CaseIds(scenario.dataset) -> CaseDir]
    BY ManifestFacts DEF RunnerTypeOK
  <1> DEFINE dirs == [exps[e].dirs EXCEPT ![id] = dir]
  <1>1. dirs \in [CaseIds(scenario.dataset) -> CaseDir] /\ dirs[id] = dir
        /\ \A other \in CaseIds(scenario.dataset) : other # id => dirs[other] = exps[e].dirs[other]
    BY <1>0
  <1>2. SetDirs(e, dirs)
    BY <1>0 DEF SetDir, SetDirs
  <1> HIDE DEF dirs
  <1> QED BY <1>1, <1>2, DirsSet

\* Files that only change in what reuse does not look at, and a new file that
\* is in order, keep the records in order.
LEMMA RecordsCarryOver ==
  ASSUME RecordsOK, scenario' = scenario, cache' = cache, Existing' = Existing, ManifestsStay,
         \A f \in Existing : \A v \in DOMAIN Units : \A i \in DOMAIN Units[v] :
           LET old == exps[f].dirs[Units[v][i].id].attempts
               new == exps'[f].dirs[Units[v][i].id].attempts
           IN  \A k \in DOMAIN new :
                 \/ /\ k \in DOMAIN old /\ new[k].status = old[k].status
                    /\ new[k].vals = old[k].vals /\ new[k].asked = old[k].asked
                 \/ new[k].status = "succeeded" =>
                      /\ Len(new[k].vals) = Len(Plan)
                      /\ Filed(exps[f].manifest.code, Units[v][i].question,
                               new[k].asked, new[k].vals)
  PROVE  RecordsOK'
  <1>1. Units' = Units /\ Plan' = Plan /\ \A f \in Existing : exps'[f].manifest = exps[f].manifest
    BY SameUnits DEF ManifestsStay
  <1>2. ASSUME NEW f \in Existing, NEW v \in DOMAIN Units, NEW i \in DOMAIN Units[v],
               NEW k \in DOMAIN exps'[f].dirs[Units[v][i].id].attempts,
               exps'[f].dirs[Units[v][i].id].attempts[k].status = "succeeded"
        PROVE  LET file == exps'[f].dirs[Units[v][i].id].attempts[k] IN
               /\ Len(file.vals) = Len(Plan)
               /\ Filed(exps[f].manifest.code, Units[v][i].question, file.asked, file.vals)
    <2> DEFINE old == exps[f].dirs[Units[v][i].id].attempts
               new == exps'[f].dirs[Units[v][i].id].attempts
    <2>1. CASE /\ k \in DOMAIN old /\ new[k].status = old[k].status
               /\ new[k].vals = old[k].vals /\ new[k].asked = old[k].asked
      <3>1. /\ Len(old[k].vals) = Len(Plan)
            /\ Filed(exps[f].manifest.code, Units[v][i].question, old[k].asked, old[k].vals)
        BY <1>2, <2>1 DEF RecordsOK
      <3> QED BY <2>1, <3>1
    <2>2. CASE /\ Len(new[k].vals) = Len(Plan)
               /\ Filed(exps[f].manifest.code, Units[v][i].question, new[k].asked, new[k].vals)
      BY <2>2
    <2> QED BY <1>2, <2>1, <2>2
  <1>3. \A c, q, m, vals : Filed(c, q, m, vals) => FiledIn(scenario', cache', c, q, m, vals)
    BY DEF Filed
  <1> SUFFICES ASSUME NEW f \in Existing', NEW v \in DOMAIN Units', NEW i \in DOMAIN Units'[v],
                        NEW k \in DOMAIN exps'[f].dirs[Units'[v][i].id].attempts,
                        exps'[f].dirs[Units'[v][i].id].attempts[k].status = "succeeded"
                 PROVE  LET file == exps'[f].dirs[Units'[v][i].id].attempts[k] IN
                        /\ Len(file.vals) = Len(Plan')
                        /\ FiledIn(scenario', cache', exps'[f].manifest.code, Units'[v][i].question,
                                   file.asked, file.vals)
    BY DEF RecordsOK, Filed
  <1> DEFINE file == exps'[f].dirs[Units[v][i].id].attempts[k]
  <1>5. /\ f \in Existing /\ v \in DOMAIN Units /\ i \in DOMAIN Units[v]
        /\ k \in DOMAIN exps'[f].dirs[Units[v][i].id].attempts /\ file.status = "succeeded"
    BY <1>1
  <1>6. /\ Len(file.vals) = Len(Plan)
        /\ Filed(exps[f].manifest.code, Units[v][i].question, file.asked, file.vals)
    BY <1>2, <1>5
  <1>7. FiledIn(scenario', cache', exps[f].manifest.code, Units[v][i].question, file.asked, file.vals)
    BY <1>3, <1>6
  <1>8. exps'[f].manifest = exps[f].manifest
    BY <1>1, <1>5
  <1> QED
    <2> HIDE DEF file
    <2> QED BY <1>1, <1>6, <1>7, <1>8 DEF file

-----------------------------------------------------------------------------

LEMMA Writes ==
  ASSUME NEW dir \in CaseDir, NEW number \in Nat, NEW file \in AttemptFile,
         MayWriteAttempt(dir, number, file)
  PROVE  LET next == WriteAttempt(dir, number, file) IN
         /\ next \in CaseDir
         /\ \A k \in DOMAIN next.attempts :
               next.attempts[k] = file \/ (k \in DOMAIN dir.attempts /\ next.attempts[k] = dir.attempts[k])
  <1> DEFINE old == dir.attempts
             new == [k \in DOMAIN old \cup {number} |-> IF k = number THEN file ELSE old[k]]
  <1>1. dir.attempts \in Seq(AttemptFile)
    BY DEF CaseDir
  <1>2. PICK n \in Nat : old \in [1 .. n -> AttemptFile]
    <2> HIDE DEF old
    <2>1. \A s \in Seq(AttemptFile) : Len(s) \in Nat /\ s \in [1 .. Len(s) -> AttemptFile]
      OBVIOUS
    <2> QED BY <1>1, <2>1 DEF old
  <1>3. number \in 1 .. n \/ number = n + 1
    <2>1. CASE number \in DOMAIN old
      BY <1>2, <2>1
    <2>2. CASE number \notin DOMAIN old
      <3>1. number = Cardinality(DOMAIN old) + 1
        BY <2>2 DEF MayWriteAttempt
      <3>2. Cardinality(1 .. n) = n
        BY FS_Interval
      <3> HIDE DEF old
      <3> QED BY <1>2, <3>1, <3>2
    <2> QED BY <2>1, <2>2
  <1> HIDE DEF old
  <1>4. \E m \in Nat : new \in [1 .. m -> AttemptFile]
    <2>1. CASE number \in 1 .. n
      <3>1. DOMAIN old \cup {number} = 1 .. n
        BY <1>2, <2>1
      <3> QED BY <1>2, <3>1
    <2>2. CASE number = n + 1
      <3>1. DOMAIN old \cup {number} = 1 .. n + 1 /\ n + 1 \in Nat
        BY <1>2, <2>2
      <3>2. new \in [1 .. n + 1 -> AttemptFile]
        BY <1>2, <2>2, <3>1
      <3> QED BY <3>1, <3>2
    <2> QED BY <1>3, <2>1, <2>2
  <1>5. new \in Seq(AttemptFile)
    <2> HIDE DEF new
    <2> QED BY <1>4
  <1>6. \A k \in DOMAIN new : new[k] = file \/ (k \in DOMAIN old /\ new[k] = old[k])
    OBVIOUS
  <1>7. WriteAttempt(dir, number, file) = [dir EXCEPT !.attempts = new]
    BY DEF WriteAttempt, old
  <1> HIDE DEF new
  <1>8. [dir EXCEPT !.attempts = new] \in CaseDir /\ [dir EXCEPT !.attempts = new].attempts = new
    BY <1>5 DEF CaseDir
  <1> QED BY <1>6, <1>7, <1>8 DEF old

LEMMA PayloadTyped ==
  ASSUME NEW w \in WorkerRow, w.runtime \in Runtime, w.out.status \in AttemptStatuses
  PROVE  LET file == AttemptPayload(w.number, w.mode, w.out, w.state, w.runtime.memory, w.vals, w.fresh)
         IN  /\ file \in AttemptFile
             /\ file.status = w.out.status /\ file.vals = w.vals /\ file.asked = w.runtime.memory
  <1>1. /\ w.number \in Nat /\ w.mode \in CacheModes /\ w.state \in State
        /\ w.vals \in Seq(Values) /\ w.fresh \in SUBSET Nat /\ w.out \in Outcome
    BY DEF WorkerRow
  <1>2. w.out.retryable \in BOOLEAN /\ w.out.error \in Errors /\ w.out.after \in State
    BY <1>1 DEF Outcome
  <1>3. w.runtime.memory \in Seq(Values)
    BY DEF Runtime
  <1> QED BY <1>1, <1>2, <1>3 DEF AttemptPayload, AttemptFile

LEMMA RowEnds ==
  ASSUME NEW w \in WorkerRow, NEW pc \in WorkerPhases
  PROVE  LET x == [w EXCEPT !.runtime = NoRuntime, !.pc = pc] IN
         x \in WorkerRow /\ x.pc = pc /\ x.turn = w.turn
  BY DEF WorkerRow

LEMMA RecordAttemptKeeps ==
  ASSUME BaseInv, NEW e \in Experiments, NEW u \in DOMAIN Units, RecordAttempt(e, u)
  PROVE  BaseInv'
  <1>1. run[e].pc = "on" /\ work[e][u].pc = "record" /\ UNCHANGED <<scenario, code, budget, cache>>
    BY DEF RecordAttempt, At
  <1>0. /\ e \in Existing /\ scenario \in Scenarios /\ RunnerTypeOK
        /\ work[e][u] \in WorkerRow /\ ThreadOK(e, u, work[e][u])
        /\ budget' \in [DOMAIN scenario.budget -> Nat]
    BY <1>1, ThreadFacts
  <1>2. /\ work[e][u].turn \in DOMAIN Units[u] /\ work[e][u].runtime \in Runtime
        /\ Filed(exps[e].manifest.code, Units[u][work[e][u].turn].question,
                 work[e][u].runtime.memory, work[e][u].vals)
        /\ work[e][u].out.status \in AttemptStatuses
        /\ work[e][u].out.status = "succeeded" => Len(work[e][u].vals) = Len(Plan)
    BY <1>0, <1>1 DEF ThreadOK, AtWork
  <1> DEFINE id == CurrentCase(e, u).id
             dir == exps[e].dirs[id]
             file == Payload(e, u)
             next == WriteAttempt(dir, work[e][u].number, file)
  <1>3. id = Units[u][work[e][u].turn].id /\ id \in CaseIds(scenario.dataset) /\ dir \in CaseDir
    BY <1>0, <1>2, FilesOf, CasePlaces DEF CurrentCase
  <1>4. CASE Goto(e, u, "raised") /\ UNCHANGED <<exps, run>>
    <2>1. ThreadOK(e, u, [work[e][u] EXCEPT !.pc = "raised"])
      BY <1>0 DEF ThreadOK, Staged, AtWork, Dispatched, WorkerRow
    <2> QED BY <1>0, <1>1, <1>4, <2>1, GotoQuietly DEF WorkerPhases
  <1>5. CASE /\ MayWriteAttempt(dir, work[e][u].number, file)
             /\ SetDir(e, id, next)
             /\ IF work[e][u].out.status = "succeeded"
                THEN Goto(e, u, "mark") /\ UNCHANGED run ELSE AfterFailure(e, u)
    <2>1. /\ file \in AttemptFile /\ file.status = work[e][u].out.status
          /\ file.vals = work[e][u].vals /\ file.asked = work[e][u].runtime.memory
      BY <1>0, <1>2, PayloadTyped DEF Payload
    <2>2. work[e][u].number \in Nat
      BY <1>0 DEF WorkerRow
    <2> HIDE DEF file, dir, id
    <2>3. /\ next \in CaseDir
          /\ \A k \in DOMAIN next.attempts :
                \/ next.attempts[k] = file
                \/ k \in DOMAIN dir.attempts /\ next.attempts[k] = dir.attempts[k]
      BY <1>3, <1>5, <2>1, <2>2, Writes
    <2> HIDE DEF next
    <2>4. /\ Existing' = Existing /\ exps' \in [Existing -> ExperimentFiles] /\ ManifestsStay
          /\ \A f \in Existing : f # e => exps'[f] = exps[f]
          /\ exps'[e].dirs[id] = next
          /\ \A other \in CaseIds(scenario.dataset) :
                other # id => exps'[e].dirs[other] = exps[e].dirs[other]
      BY <1>0, <1>3, <1>5, <2>3, DirSet
    <2>5. RecordsOK'
      <3> SUFFICES ASSUME NEW f \in Existing, NEW v \in DOMAIN Units, NEW i \in DOMAIN Units[v],
                          NEW k \in DOMAIN exps'[f].dirs[Units[v][i].id].attempts
                   PROVE  LET old == exps[f].dirs[Units[v][i].id].attempts
                              new == exps'[f].dirs[Units[v][i].id].attempts
                          IN  \/ /\ k \in DOMAIN old /\ new[k].status = old[k].status
                                 /\ new[k].vals = old[k].vals /\ new[k].asked = old[k].asked
                              \/ new[k].status = "succeeded" =>
                                   /\ Len(new[k].vals) = Len(Plan)
                                   /\ Filed(exps[f].manifest.code, Units[v][i].question,
                                            new[k].asked, new[k].vals)
        BY <1>1, <2>4, RecordsCarryOver DEF BaseInv
      <3>1. Units[v][i].id \in CaseIds(scenario.dataset)
        BY <1>0, CasePlaces
      <3>2. CASE f = e /\ Units[v][i].id = id
        <4>1. v = u /\ i = work[e][u].turn
          BY <1>0, <1>2, <1>3, <3>2, SamePlace
        <4>2. CASE next.attempts[k] = file
          BY <1>2, <2>1, <2>4, <3>2, <4>1, <4>2
        <4>3. CASE k \in DOMAIN dir.attempts /\ next.attempts[k] = dir.attempts[k]
          BY <2>4, <3>2, <4>3 DEF dir
        <4> QED BY <2>3, <2>4, <3>2, <4>2, <4>3
      <3>3. CASE ~(f = e /\ Units[v][i].id = id)
        <4>1. exps'[f].dirs[Units[v][i].id] = exps[f].dirs[Units[v][i].id]
          BY <2>4, <3>1, <3>3
        <4> QED BY <4>1
      <3> QED BY <3>2, <3>3
    <2>6. CacheGrows /\ CacheTyped'
      BY <1>0, <1>1 DEF CacheGrows, CacheTyped, RunnerTypeOK
    <2>7. CASE work[e][u].out.status = "succeeded" /\ Goto(e, u, "mark") /\ UNCHANGED run
      <3>1. FrameOK
        BY <1>0, <1>1, <2>4, <2>6, <2>7, RunStays DEF FrameOK
      <3>2. PICK w \in WorkerRow : /\ w.pc = "mark" /\ w.turn = work[e][u].turn
                                  /\ w.runtime = work[e][u].runtime /\ SetWork(e, u, w)
        BY <1>0, <2>7, RowPhase DEF WorkerPhases, Goto
      <3>3. w.pc \notin {"off", "queued"}
        BY <3>2
      <3>4. ThreadOK(e, u, w)'
        <4>1. Units' = Units
          BY <1>1, SameUnits
        <4> QED BY <1>2, <3>2, <4>1 DEF ThreadOK, Staged, AtWork, Dispatched
      <3> QED BY <1>0, <1>1, <2>5, <3>1, <3>2, <3>3, <3>4, ThreadMoves
    <2>8. CASE AfterFailure(e, u)
      <3>1. PICK pc \in {"done", "retry"} :
               SetWork(e, u, [work[e][u] EXCEPT !.runtime = NoRuntime, !.pc = pc])
        BY <2>8 DEF AfterFailure
      <3>2. /\ run' \in [Experiments -> RunnerRow]
            /\ \A f \in Experiments : run'[f].pc = run[f].pc /\ run'[f].unit = run[f].unit
        <4>1. Terminate(e, u) \/ run' = run
          BY <2>8 DEF AfterFailure
        <4> QED BY <1>0, <1>2, <4>1, RunTerminates, RunStays
      <3>3. FrameOK
        BY <1>0, <1>1, <2>4, <2>6, <3>2 DEF FrameOK
      <3>4. PICK w \in WorkerRow : w.pc = pc /\ w.turn = work[e][u].turn /\ SetWork(e, u, w)
        <4>1. pc \in WorkerPhases
          BY DEF WorkerPhases
        <4> QED BY <1>0, <3>1, <4>1, RowEnds
      <3>6. ThreadOK(e, u, w)'
        <4>1. Units' = Units
          BY <1>1, SameUnits
        <4> QED BY <1>2, <3>4, <4>1 DEF ThreadOK, Staged, AtWork, Dispatched
      <3>7. w.pc \notin {"off", "queued"}
        BY <3>4
      <3> QED BY <1>0, <1>1, <2>5, <3>3, <3>4, <3>6, <3>7, ThreadMoves
    <2> QED BY <1>5, <2>7, <2>8
  <1> QED
    <2> HIDE DEF next, file, dir
    <2> QED BY <1>4, <1>5 DEF RecordAttempt, next, dir, file, id

-----------------------------------------------------------------------------
(* The steps of a runner.                                                   *)

\* What a step keeps besides the rows of the threads.
Settled ==
  /\ Kept /\ code' \in Codes /\ budget' \in [DOMAIN scenario.budget -> Nat]
  /\ Existing' \subseteq Experiments /\ exps' \in [Existing' -> ExperimentFiles]
  /\ CacheTyped' /\ SessionsGenerate' /\ RecordsOK'

LEMMA Moves ==
  ASSUME BaseInv, Settled,
         run' \in [Experiments -> RunnerRow],
         work' \in [Experiments -> [DOMAIN Units -> WorkerRow]],
         \A f \in Experiments : /\ run'[f].pc # "off" => f \in Existing'
                                /\ run'[f].pc = "plan" => run'[f].unit # 0,
         \A f \in Experiments : \A v \in DOMAIN Units :
            \/ work'[f][v].pc = "off"
            \/ \E w \in WorkerRow :
                  /\ work'[f][v] = w /\ f \in Existing /\ ThreadOK(f, v, w)
                  /\ run'[f].pc \in {"plan", "on"}
                  /\ w.pc # "queued" => run'[f].pc = "on"
  PROVE  BaseInv'
  <1>0. RunnerTypeOK /\ scenario \in Scenarios
    BY DEF BaseInv, RunnerTypeOK
  <1>1. /\ scenario' = scenario /\ Units' = Units
        /\ ExperimentFiles' = ExperimentFiles /\ RunnerRow' = RunnerRow
    BY SameUnits DEF Settled, Kept
  <1>2. RunnerTypeOK'
    <2>1. ASSUME NEW f \in Experiments
          PROVE  /\ run'[f].pc # "off" => f \in Existing'
                 /\ \A v \in DOMAIN Units :
                      /\ work'[f][v].pc # "off" => run'[f].pc \in {"plan", "on"}
                      /\ work'[f][v].pc \notin {"off", "queued"} => run'[f].pc = "on"
      OBVIOUS
    <2> QED BY <1>0, <1>1, <2>1 DEF Settled, RunnerTypeOK, CacheTyped
  <1>3. ThreadsOK'
    <2> SUFFICES ASSUME NEW f \in Existing', NEW v \in DOMAIN Units PROVE ThreadOK(f, v, work[f][v])'
      BY <1>1 DEF ThreadsOK
    <2>0. f \in Experiments
      BY DEF Settled
    <2>1. CASE work'[f][v].pc = "off"
      BY <2>1 DEF ThreadOK, Staged, AtWork, Dispatched
    <2>2. CASE \E w \in WorkerRow : work'[f][v] = w /\ f \in Existing /\ ThreadOK(f, v, w)
      <3> PICK w \in WorkerRow : work'[f][v] = w /\ f \in Existing /\ ThreadOK(f, v, w)
        BY <2>2
      <3>1. ThreadOK(f, v, w)'
        BY ThreadStays DEF Settled
      <3> QED BY <3>1 DEF ThreadOK
    <2> QED BY <2>0, <2>1, <2>2
  <1> QED BY <1>2, <1>3 DEF BaseInv, Settled

\* The rows of the threads before the step.
LEMMA RowsWere ==
  ASSUME BaseInv, NEW f \in Experiments, NEW v \in DOMAIN Units
  PROVE  \/ work[f][v].pc = "off"
         \/ /\ work[f][v] \in WorkerRow /\ f \in Existing /\ ThreadOK(f, v, work[f][v])
            /\ run[f].pc \in {"plan", "on"}
            /\ work[f][v].pc # "queued" => run[f].pc = "on"
  <1>1. RunnerTypeOK /\ work[f][v] \in WorkerRow
    BY DEF BaseInv, RunnerTypeOK
  <1>2. work[f][v].pc # "off" => run[f].pc \in {"plan", "on"} /\ f \in Existing
    BY <1>1 DEF RunnerTypeOK
  <1>3. f \in Existing => ThreadOK(f, v, work[f][v])
    BY DEF BaseInv, ThreadsOK
  <1>4. work[f][v].pc \notin {"off", "queued"} => run[f].pc = "on"
    BY <1>1 DEF RunnerTypeOK
  <1> QED BY <1>1, <1>2, <1>3, <1>4

LEMMA IdleRows == IdleWorker \in WorkerRow /\ IdleWorker.pc = "off"
  BY DEF IdleWorker, WorkerRow, WorkerPhases, State, CacheModes, Values, Outcome, Errors

LEMMA NobodyMoves ==
  ASSUME BaseInv, Settled, run' = run, work' = work
  PROVE  BaseInv'
  <1>1. /\ run \in [Experiments -> RunnerRow]
        /\ work \in [Experiments -> [DOMAIN Units -> WorkerRow]]
        /\ \A f \in Experiments : /\ run[f].pc # "off" => f \in Existing
                                  /\ run[f].pc = "plan" => run[f].unit # 0
        /\ Existing \subseteq Existing'
    BY DEF BaseInv, RunnerTypeOK, Settled, Kept, ManifestsStay
  <1>2. ASSUME NEW f \in Experiments, NEW v \in DOMAIN Units
        PROVE  \/ work[f][v].pc = "off"
               \/ \E w \in WorkerRow :
                     /\ work[f][v] = w /\ f \in Existing /\ ThreadOK(f, v, w)
                     /\ run[f].pc \in {"plan", "on"}
                     /\ w.pc # "queued" => run[f].pc = "on"
    BY RowsWere
  <1> QED BY <1>1, <1>2, Moves

LEMMA RunnerGoes ==
  ASSUME BaseInv, Settled, NEW e \in Existing' , NEW r \in RunnerRow, SetRun(e, r), work' = work,
         r.pc = "plan" => r.unit # 0,
         \A v \in DOMAIN Units : /\ work[e][v].pc # "off" => r.pc \in {"plan", "on"}
                                 /\ work[e][v].pc \notin {"off", "queued"} => r.pc = "on"
  PROVE  BaseInv'
  <1>1. /\ run \in [Experiments -> RunnerRow]
        /\ work \in [Experiments -> [DOMAIN Units -> WorkerRow]]
        /\ \A f \in Experiments : /\ run[f].pc # "off" => f \in Existing
                                  /\ run[f].pc = "plan" => run[f].unit # 0
        /\ Existing \subseteq Existing' /\ e \in Experiments
    BY DEF BaseInv, RunnerTypeOK, Settled, Kept, ManifestsStay
  <1>2. /\ run' \in [Experiments -> RunnerRow] /\ run'[e] = r
        /\ \A f \in Experiments : f # e => run'[f] = run[f]
    BY <1>1 DEF SetRun
  <1>3. ASSUME NEW f \in Experiments, NEW v \in DOMAIN Units
        PROVE  \/ work'[f][v].pc = "off"
               \/ \E w \in WorkerRow :
                     /\ work'[f][v] = w /\ f \in Existing /\ ThreadOK(f, v, w)
                     /\ run'[f].pc \in {"plan", "on"}
                     /\ w.pc # "queued" => run'[f].pc = "on"
    <2>1. CASE work[f][v].pc = "off"
      BY <2>1
    <2>2. CASE /\ work[f][v] \in WorkerRow /\ f \in Existing /\ ThreadOK(f, v, work[f][v])
               /\ run[f].pc \in {"plan", "on"}
               /\ work[f][v].pc # "queued" => run[f].pc = "on"
      <3>1. work[f][v].pc # "off" =>
               /\ run'[f].pc \in {"plan", "on"}
               /\ work[f][v].pc # "queued" => run'[f].pc = "on"
        BY <1>2, <2>2
      <3> QED BY <2>2, <3>1
    <2> QED BY <2>1, <2>2, RowsWere
  <1>4. \A f \in Experiments : /\ run'[f].pc # "off" => f \in Existing'
                               /\ run'[f].pc = "plan" => run'[f].unit # 0
    BY <1>1, <1>2
  <1> QED BY <1>1, <1>2, <1>3, <1>4, Moves

LEMMA RunnerStops ==
  ASSUME BaseInv, Settled, NEW e \in Existing, NEW r \in RunnerRow, SetRun(e, r), StopWork(e),
         r.pc = "off"
  PROVE  BaseInv'
  <1>1. /\ run \in [Experiments -> RunnerRow]
        /\ work \in [Experiments -> [DOMAIN Units -> WorkerRow]]
        /\ \A f \in Experiments : /\ run[f].pc # "off" => f \in Existing
                                  /\ run[f].pc = "plan" => run[f].unit # 0
        /\ Existing \subseteq Existing' /\ e \in Experiments
    BY DEF BaseInv, RunnerTypeOK, Settled, Kept, ManifestsStay
  <1>2. /\ run' \in [Experiments -> RunnerRow] /\ run'[e] = r
        /\ \A f \in Experiments : f # e => run'[f] = run[f]
    BY <1>1 DEF SetRun
  <1> DEFINE idle == [u \in DOMAIN Units |-> IdleWorker]
  <1>3. idle \in [DOMAIN Units -> WorkerRow] /\ \A v \in DOMAIN Units : idle[v].pc = "off"
    BY IdleRows
  <1>4. work' = [work EXCEPT ![e] = idle]
    BY DEF StopWork
  <1> HIDE DEF idle
  <1>5. /\ work' \in [Experiments -> [DOMAIN Units -> WorkerRow]]
        /\ \A v \in DOMAIN Units : work'[e][v].pc = "off"
        /\ \A f \in Experiments : f # e => work'[f] = work[f]
    BY <1>1, <1>3, <1>4
  <1>6. ASSUME NEW f \in Experiments, NEW v \in DOMAIN Units
        PROVE  \/ work'[f][v].pc = "off"
               \/ \E w \in WorkerRow :
                     /\ work'[f][v] = w /\ f \in Existing /\ ThreadOK(f, v, w)
                     /\ run'[f].pc \in {"plan", "on"}
                     /\ w.pc # "queued" => run'[f].pc = "on"
    <2>1. CASE f = e
      BY <1>5, <2>1
    <2>2. CASE f # e
      <3>1. work'[f][v] = work[f][v] /\ run'[f] = run[f]
        BY <1>2, <1>5, <2>2
      <3> QED BY <3>1, RowsWere
    <2> QED BY <2>1, <2>2
  <1>7. \A f \in Experiments : /\ run'[f].pc # "off" => f \in Existing'
                               /\ run'[f].pc = "plan" => run'[f].unit # 0
    BY <1>1, <1>2
  <1> QED BY <1>2, <1>5, <1>6, <1>7, Moves

LEMMA SameSettled ==
  ASSUME BaseInv, scenario' = scenario, code' \in Codes,
         budget' \in [DOMAIN scenario.budget -> Nat],
         CacheGrows, CacheTyped', exps' = exps
  PROVE  Settled
  <1>1. Existing' = Existing /\ Kept
    BY DEF Existing, Kept, ManifestsStay
  <1>2. SessionsGenerate'
    BY <1>1 DEF BaseInv, SessionsGenerate
  <1>3. RecordsOK'
    BY <1>1, RecordsStay DEF BaseInv
  <1> QED BY <1>1, <1>2, <1>3 DEF Settled, BaseInv, RunnerTypeOK

LEMMA SameCache ==
  ASSUME BaseInv, cache' = cache
  PROVE  CacheGrows /\ CacheTyped'
  BY DEF BaseInv, RunnerTypeOK, CacheGrows, CacheTyped

-----------------------------------------------------------------------------

LEMMA ScanKeeps ==
  ASSUME BaseInv, NEW e \in Experiments, ScanDirectory(e)
  PROVE  BaseInv'
  <1>1. run[e].pc = "start" /\ UNCHANGED <<scenario, code, budget, exps, cache, work>>
    BY DEF ScanDirectory
  <1>2. RunnerTypeOK /\ e \in Existing /\ run[e] \in RunnerRow
        /\ \A v \in DOMAIN Units : work[e][v].pc = "off"
    BY <1>1 DEF BaseInv, RunnerTypeOK
  <1>3. Settled
    BY <1>1, <1>2, SameBudget, SameCache, SameSettled DEF RunnerTypeOK
  <1>4. PICK r \in RunnerRow : SetRun(e, r) /\ (r.pc = "plan" => r.unit # 0)
    <2>1. CASE SetRun(e, [run[e] EXCEPT !.pc = "off", !.result = "blocked"])
      <3>1. /\ [run[e] EXCEPT !.pc = "off", !.result = "blocked"] \in RunnerRow
            /\ [run[e] EXCEPT !.pc = "off", !.result = "blocked"].pc = "off"
        BY <1>2 DEF RunnerRow, RunPhases, Results
      <3> QED BY <2>1, <3>1
    <2>2. CASE SetRun(e, [run[e] EXCEPT !.pc = "plan", !.unit = 1])
      <3>1. /\ [run[e] EXCEPT !.pc = "plan", !.unit = 1] \in RunnerRow
            /\ [run[e] EXCEPT !.pc = "plan", !.unit = 1].unit = 1
        BY <1>2 DEF RunnerRow, RunPhases
      <3>2. 1 # 0
        OBVIOUS
      <3> QED BY <2>2, <3>1, <3>2
    <2> QED BY <2>1, <2>2 DEF ScanDirectory
  <1>5. e \in Existing'
    BY <1>1, <1>2 DEF Existing
  <1> QED BY <1>1, <1>2, <1>3, <1>4, <1>5, RunnerGoes

LEMMA StartThreadsKeeps ==
  ASSUME BaseInv, NEW e \in Experiments, StartThreads(e)
  PROVE  BaseInv'
  <1>1. run[e].pc = "plan" /\ UNCHANGED <<scenario, code, budget, exps, cache, work>>
    BY DEF StartThreads
  <1>2. RunnerTypeOK /\ e \in Existing /\ run[e] \in RunnerRow
    BY <1>1 DEF BaseInv, RunnerTypeOK
  <1>3. Settled
    BY <1>1, <1>2, SameBudget, SameCache, SameSettled DEF RunnerTypeOK
  <1>4. PICK r \in RunnerRow : SetRun(e, r) /\ r.pc = "on"
    BY <1>2 DEF StartThreads, RunnerRow, RunPhases
  <1>5. e \in Existing'
    BY <1>1, <1>2 DEF Existing
  <1> QED BY <1>1, <1>2, <1>3, <1>4, <1>5, RunnerGoes

LEMMA FinishRunKeeps ==
  ASSUME BaseInv, NEW e \in Experiments, FinishRun(e)
  PROVE  BaseInv'
  <1>1. run[e].pc = "on" /\ StopWork(e) /\ UNCHANGED <<scenario, code, budget, exps, cache>>
    BY DEF FinishRun
  <1>2. RunnerTypeOK /\ e \in Existing /\ run[e] \in RunnerRow
    BY <1>1 DEF BaseInv, RunnerTypeOK
  <1>3. Settled
    BY <1>1, <1>2, SameBudget, SameCache, SameSettled DEF RunnerTypeOK
  <1> DEFINE result == IF \E u \in DOMAIN Units : work[e][u].pc = "raised" THEN "raised" ELSE Summary(e)
  <1>4. result \in Results
    BY DEF Summary, Results
  <1>5. SetRun(e, [run[e] EXCEPT !.pc = "off", !.result = result])
    BY DEF FinishRun
  <1> HIDE DEF result
  <1>6. PICK r \in RunnerRow : SetRun(e, r) /\ r.pc = "off"
    <2>1. /\ [run[e] EXCEPT !.pc = "off", !.result = result] \in RunnerRow
          /\ [run[e] EXCEPT !.pc = "off", !.result = result].pc = "off"
      BY <1>2, <1>4 DEF RunnerRow, RunPhases
    <2> QED BY <1>5, <2>1
  <1> QED BY <1>1, <1>2, <1>3, <1>6, RunnerStops

-----------------------------------------------------------------------------
(* Directories.                                                             *)

\* The files agree in what reuse looks at.
SameAnswers(new, old) ==
  \A k \in DOMAIN new : /\ k \in DOMAIN old /\ new[k].status = old[k].status
                        /\ new[k].vals = old[k].vals /\ new[k].asked = old[k].asked

LEMMA DirsSettle ==
  ASSUME BaseInv, scenario' = scenario, code' \in Codes, cache' = cache,
         budget' \in [DOMAIN scenario.budget -> Nat], NEW e \in Existing,
         NEW dirs \in [CaseIds(scenario.dataset) -> CaseDir], SetDirs(e, dirs),
         \A id \in CaseIds(scenario.dataset) :
            SameAnswers(dirs[id].attempts, exps[e].dirs[id].attempts)
  PROVE  Settled
  <1>0. RunnerTypeOK /\ scenario \in Scenarios
    BY DEF BaseInv, RunnerTypeOK
  <1>1. /\ Existing' = Existing /\ exps' \in [Existing -> ExperimentFiles] /\ ManifestsStay
        /\ \A f \in Existing : f # e => exps'[f] = exps[f]
        /\ exps'[e].dirs = dirs
    BY <1>0, DirsSet
  <1>2. Kept /\ CacheTyped'
    BY <1>1, SameCache DEF Kept
  <1>3. SessionsGenerate'
    BY <1>1 DEF BaseInv, SessionsGenerate
  <1>4. RecordsOK'
    <2>1. ASSUME NEW f \in Existing, NEW v \in DOMAIN Units, NEW i \in DOMAIN Units[v]
          PROVE  SameAnswers(exps'[f].dirs[Units[v][i].id].attempts,
                             exps[f].dirs[Units[v][i].id].attempts)
      <3>1. CASE f = e
        BY <1>0, <1>1, <3>1, CasePlaces
      <3>2. CASE f # e
        BY <1>1, <3>2 DEF SameAnswers
      <3> QED BY <3>1, <3>2
    <2>2. RecordsOK
      BY DEF BaseInv
    <2> SUFFICES ASSUME NEW f \in Existing, NEW v \in DOMAIN Units, NEW i \in DOMAIN Units[v]
                 PROVE  LET old == exps[f].dirs[Units[v][i].id].attempts
                            new == exps'[f].dirs[Units[v][i].id].attempts
                        IN  \A k \in DOMAIN new :
                              \/ /\ k \in DOMAIN old /\ new[k].status = old[k].status
                                 /\ new[k].vals = old[k].vals /\ new[k].asked = old[k].asked
                              \/ new[k].status = "succeeded" =>
                                   /\ Len(new[k].vals) = Len(Plan)
                                   /\ Filed(exps[f].manifest.code, Units[v][i].question,
                                            new[k].asked, new[k].vals)
      BY <1>1, <2>2, RecordsCarryOver
    <2> QED BY <2>1 DEF SameAnswers
  <1> QED BY <1>0, <1>1, <1>2, <1>3, <1>4 DEF Settled, RunnerTypeOK

LEMMA DirSettles ==
  ASSUME BaseInv, scenario' = scenario, code' \in Codes, cache' = cache,
         budget' \in [DOMAIN scenario.budget -> Nat], NEW e \in Existing,
         NEW id \in CaseIds(scenario.dataset), NEW dir \in CaseDir, SetDir(e, id, dir),
         SameAnswers(dir.attempts, exps[e].dirs[id].attempts)
  PROVE  Settled
  <1>0. RunnerTypeOK /\ exps[e] \in ExperimentFiles
        /\ exps[e].dirs \in [CaseIds(scenario.dataset) -> CaseDir]
    BY ManifestFacts DEF BaseInv, RunnerTypeOK
  <1> DEFINE dirs == [exps[e].dirs EXCEPT ![id] = dir]
  <1>1. dirs \in [CaseIds(scenario.dataset) -> CaseDir] /\ dirs[id] = dir
        /\ \A other \in CaseIds(scenario.dataset) : other # id => dirs[other] = exps[e].dirs[other]
    BY <1>0
  <1>2. SetDirs(e, dirs)
    BY <1>0 DEF SetDir, SetDirs
  <1> HIDE DEF dirs
  <1>3. \A other \in CaseIds(scenario.dataset) :
           SameAnswers(dirs[other].attempts, exps[e].dirs[other].attempts)
    BY <1>1 DEF SameAnswers
  <1> QED BY <1>1, <1>2, <1>3, DirsSettle

-----------------------------------------------------------------------------

LEMMA Marks ==
  ASSUME NEW dir \in CaseDir, NEW number,
         dir.marker # NoMarker \/ number \in DOMAIN dir.attempts
  PROVE  MarkComplete(dir, number) \in CaseDir /\ MarkComplete(dir, number).attempts = dir.attempts
  <1>1. CASE dir.marker # NoMarker
    BY <1>1 DEF MarkComplete
  <1>2. CASE dir.marker = NoMarker
    <2>1. dir.attempts \in Seq(AttemptFile)
      BY DEF CaseDir
    <2>2. number \in Nat /\ dir.attempts[number] \in AttemptFile
      BY <1>2, <2>1
    <2>3. MarkerFor(dir.attempts, number) \in MarkerFile
      BY <2>2 DEF MarkerFor, MarkerFile
    <2>4. MarkComplete(dir, number) = [dir EXCEPT !.marker = MarkerFor(dir.attempts, number)]
      BY <1>2 DEF MarkComplete
    <2> QED BY <2>3, <2>4 DEF CaseDir
  <1> QED BY <1>1, <1>2

\* The latest of the attempts, when there is one.
LEMMA LatestOne ==
  ASSUME NEW files \in Seq(AttemptFile), DOMAIN files # {}
  PROVE  Cardinality(DOMAIN files) \in DOMAIN files
  <1>1. PICK n \in Nat : DOMAIN files = 1 .. n
    OBVIOUS
  <1>2. Cardinality(1 .. n) = n
    BY FS_Interval
  <1>3. n \in 1 .. n
    BY <1>1
  <1> QED BY <1>1, <1>2, <1>3

LEMMA Commits ==
  ASSUME NEW dir \in CaseDir
  PROVE  CommitPending(dir) \in CaseDir /\ CommitPending(dir).attempts = dir.attempts
  <1>1. CASE dir.marker # NoMarker \/ Succeeded(dir.attempts) = {}
    BY <1>1 DEF CommitPending
  <1>2. CASE ~(dir.marker # NoMarker \/ Succeeded(dir.attempts) = {})
    <2>1. dir.attempts \in Seq(AttemptFile)
      BY DEF CaseDir
    <2>2. DOMAIN dir.attempts # {}
      BY <1>2 DEF Succeeded
    <2>3. Cardinality(DOMAIN dir.attempts) \in DOMAIN dir.attempts
      BY <2>1, <2>2, LatestOne
    <2>4. CommitPending(dir) = MarkComplete(dir, Cardinality(DOMAIN dir.attempts))
      BY <1>2 DEF CommitPending
    <2> QED BY <2>3, <2>4, Marks
  <1> QED BY <1>1, <1>2

LEMMA MarkCaseKeeps ==
  ASSUME BaseInv, NEW e \in Experiments, NEW u \in DOMAIN Units, MarkCase(e, u)
  PROVE  BaseInv'
  <1>1. run[e].pc = "on" /\ work[e][u].pc = "mark" /\ UNCHANGED <<scenario, code, budget, cache>>
    BY DEF MarkCase, At
  <1>0. /\ e \in Existing /\ scenario \in Scenarios /\ RunnerTypeOK
        /\ work[e][u] \in WorkerRow /\ ThreadOK(e, u, work[e][u])
        /\ budget' \in [DOMAIN scenario.budget -> Nat]
        /\ run \in [Experiments -> RunnerRow] /\ run[e] \in RunnerRow
    BY <1>1, ThreadFacts
  <1>2. /\ work[e][u].turn \in DOMAIN Units[u] /\ work[e][u].runtime \in Runtime
    BY <1>0, <1>1 DEF ThreadOK, AtWork
  <1> DEFINE id == CurrentCase(e, u).id
             dir == exps[e].dirs[id]
             next == MarkComplete(dir, work[e][u].number)
             r == [run[e] EXCEPT !.completed = @ + 1,
                     !.stop = @ \/ (run[e].after > 0 /\ run[e].completed + 1 >= run[e].after)]
  <1>3. id = Units[u][work[e][u].turn].id /\ id \in CaseIds(scenario.dataset) /\ dir \in CaseDir
    BY <1>0, <1>2, FilesOf, CasePlaces DEF CurrentCase
  <1>4. CASE Goto(e, u, "raised") /\ UNCHANGED <<exps, run>>
    <2>1. ThreadOK(e, u, [work[e][u] EXCEPT !.pc = "raised"])
      BY <1>0 DEF ThreadOK, Staged, AtWork, Dispatched, WorkerRow
    <2> QED BY <1>0, <1>1, <1>4, <2>1, GotoQuietly DEF WorkerPhases
  <1>5. CASE /\ MayMarkComplete(dir, work[e][u].number)
             /\ SetDir(e, id, next)
             /\ SetWork(e, u, [work[e][u] EXCEPT !.pc = "turn", !.turn = @ + 1,
                                 !.state = work[e][u].out.after, !.runtime = KeptRuntime(e, u)])
             /\ SetRun(e, r)
    <2> HIDE DEF dir, id, r
    <2>1. next \in CaseDir /\ next.attempts = dir.attempts
      BY <1>3, <1>5, Marks DEF MayMarkComplete
    <2> HIDE DEF next
    <2>2. Settled
      <3>1. SameAnswers(next.attempts, exps[e].dirs[id].attempts)
        BY <2>1 DEF SameAnswers, dir
      <3>2. scenario' = scenario /\ code' \in Codes /\ cache' = cache
        BY <1>0, <1>1 DEF RunnerTypeOK
      <3> QED BY <1>0, <1>3, <1>5, <2>1, <3>1, <3>2, DirSettles
    <2>3. /\ r \in RunnerRow /\ r.pc = run[e].pc /\ r.unit = run[e].unit
      <3>1. run[e].completed + 1 \in Nat /\ run[e].after \in Nat /\ run[e].stop \in BOOLEAN
        BY <1>0 DEF RunnerRow
      <3>2. (run[e].stop \/ (run[e].after > 0 /\ run[e].completed + 1 >= run[e].after)) \in BOOLEAN
        BY <3>1
      <3> QED BY <1>0, <3>1, <3>2 DEF RunnerRow, r
    <2>4. /\ run' \in [Experiments -> RunnerRow]
          /\ \A f \in Experiments : run'[f].pc = run[f].pc /\ run'[f].unit = run[f].unit
      BY <1>0, <1>5, <2>3 DEF SetRun
    <2>5. KeptRuntime(e, u) \in Runtime \cup {NoRuntime} /\ work[e][u].out.after \in State
      <3>1. work[e][u].out.after \in State
        BY <1>0 DEF WorkerRow, Outcome
      <3>2. work[e][u].runtime \in Runtime
        BY <1>2
      <3> QED BY <3>1, <3>2 DEF KeptRuntime, Runtime, State
    <2>6. PICK w \in WorkerRow : /\ w.pc = "turn" /\ w.turn = work[e][u].turn + 1 /\ SetWork(e, u, w)
      <3> DEFINE kept == KeptRuntime(e, u)
                 x == [work[e][u] EXCEPT !.pc = "turn", !.turn = @ + 1,
                                 !.state = work[e][u].out.after, !.runtime = kept]
      <3>1. SetWork(e, u, x)
        BY <1>5
      <3>2. work[e][u].turn + 1 \in Nat /\ "turn" \in WorkerPhases
        BY <1>0 DEF WorkerRow, WorkerPhases
      <3>3. kept \in Runtime \cup {NoRuntime}
        BY <2>5
      <3> HIDE DEF kept
      <3>4. x \in WorkerRow /\ x.pc = "turn" /\ x.turn = work[e][u].turn + 1
        BY <1>0, <2>5, <3>2, <3>3 DEF WorkerRow
      <3> QED BY <3>1, <3>4
    <2>7. ThreadOK(e, u, w)'
      <3>1. Units' = Units
        BY <1>1, SameUnits
      <3>2. w.turn \in 1 .. Len(Units[u]) + 1
        <4>1. /\ Len(Units[u]) \in Nat /\ work[e][u].turn \in 1 .. Len(Units[u])
          BY <1>0, <1>2, CasePlaces
        <4> QED BY <2>6, <4>1
      <3> QED BY <2>6, <3>1, <3>2 DEF ThreadOK, Staged, AtWork, Dispatched
    <2>8. FrameOK
      <3>1. Existing' = Existing /\ exps' \in [Existing -> ExperimentFiles]
        BY <1>0, <1>3, <1>5, <2>1, DirSet
      <3> QED BY <1>0, <1>1, <2>2, <2>4, <3>1 DEF FrameOK, Settled, Kept
    <2>9. RecordsOK' /\ w.pc \notin {"off", "queued"}
      BY <2>2, <2>6 DEF Settled
    <2> QED BY <1>0, <1>1, <2>6, <2>7, <2>8, <2>9, ThreadMoves
  <1> QED
    <2> HIDE DEF next, dir, r
    <2> QED BY <1>4, <1>5 DEF MarkCase, next, dir, id, r

-----------------------------------------------------------------------------
(* Preparation.                                                            *)

\* The state in front of a turn is one an attempt has left.
LEMMA BeforeTyped ==
  ASSUME BaseInv, NEW e \in Existing, NEW u \in DOMAIN Units,
         NEW i \in DOMAIN Units[u],
         i = 1 \/ Done(Histories(exps[e].dirs)[Units[u][i - 1].id])
  PROVE  StateBefore(Units[u], Histories(exps[e].dirs), i) \in State
  <1>0. scenario \in Scenarios /\ RunnerTypeOK
    BY DEF BaseInv, RunnerTypeOK
  <1>1. CASE i = 1
    <2>1. <<>> \in Seq(Values)
      OBVIOUS
    <2> QED BY <1>1, <2>1 DEF StateBefore, InitialState, State
  <1>2. CASE i # 1
    <2> DEFINE id == Units[u][i - 1].id
               files == exps[e].dirs[id].attempts
    <2>1. i - 1 \in DOMAIN Units[u]
      BY <1>0, <1>2, CasePlaces
    <2>2. files \in Seq(AttemptFile) /\ id \in CaseIds(scenario.dataset)
      BY <1>0, <2>1, FilesOf, CasePlaces
    <2>3. Histories(exps[e].dirs)[id] = files
      BY <1>0, <2>2, ManifestFacts DEF Histories
    <2>4. DOMAIN files # {}
      BY <1>2, <2>3 DEF Done, Succeeded
    <2> HIDE DEF files
    <2>5. Cardinality(DOMAIN files) \in DOMAIN files
      BY <2>2, <2>4, LatestOne
    <2>6. LatestAttempt(files) \in AttemptFile
      BY <2>2, <2>5 DEF LatestAttempt
    <2> QED BY <1>2, <2>3, <2>6 DEF StateBefore, AttemptFile
  <1> QED BY <1>1, <1>2

LEMMA PrepareSettles ==
  ASSUME BaseInv, NEW e \in Existing, PrepareUnit(e)
  PROVE  Settled
  <1>0. RunnerTypeOK /\ exps[e].dirs \in [CaseIds(scenario.dataset) -> CaseDir]
    BY ManifestFacts DEF BaseInv
  <1> DEFINE unit == Units[run[e].unit]
             sound == SoundPrefix(unit, Histories(exps[e].dirs))
             dirs == [id \in DOMAIN exps[e].dirs |->
                         IF \E i \in 1 .. sound : unit[i].id = id
                         THEN CommitPending(exps[e].dirs[id]) ELSE exps[e].dirs[id]]
  <1>1. SetDirs(e, dirs) /\ UNCHANGED <<scenario, code, budget, cache>>
    BY DEF PrepareUnit
  <1> HIDE DEF sound, unit
  <1>2. \A id \in CaseIds(scenario.dataset) :
           dirs[id] \in CaseDir /\ dirs[id].attempts = exps[e].dirs[id].attempts
    BY <1>0, Commits
  <1>3. dirs \in [CaseIds(scenario.dataset) -> CaseDir]
    BY <1>0, <1>2
  <1> HIDE DEF dirs
  <1>4. \A id \in CaseIds(scenario.dataset) :
           SameAnswers(dirs[id].attempts, exps[e].dirs[id].attempts)
    BY <1>2 DEF SameAnswers
  <1>5. scenario' = scenario /\ code' \in Codes /\ cache' = cache
        /\ budget' \in [DOMAIN scenario.budget -> Nat]
    BY <1>0, <1>1, SameBudget DEF RunnerTypeOK
  <1> QED BY <1>1, <1>3, <1>4, <1>5, DirsSettle

LEMMA PrepareUnitKeeps ==
  ASSUME BaseInv, NEW e \in Experiments, PrepareUnit(e)
  PROVE  BaseInv'
  <1> DEFINE u == run[e].unit
             unit == Units[u]
             histories == Histories(exps[e].dirs)
             done == CompletedPrefix(unit, histories)
             next == unit[done + 1].id
  <1>1. run[e].pc = "plan" /\ u <= Len(Units)
    BY DEF PrepareUnit
  <1>2. RunnerTypeOK /\ scenario \in Scenarios /\ e \in Existing /\ run[e] \in RunnerRow
        /\ run \in [Experiments -> RunnerRow]
        /\ work \in [Experiments -> [DOMAIN Units -> WorkerRow]]
    BY <1>1 DEF BaseInv, RunnerTypeOK
  <1>3. Settled
    BY <1>2, PrepareSettles
  <1>4. u \in Nat /\ u # 0 /\ u + 1 # 0 /\ u + 1 \in Nat
    <2>1. u \in Nat /\ u # 0
      BY <1>1, <1>2 DEF BaseInv, RunnerRow
    <2> HIDE DEF u
    <2> QED BY <2>1
  <1>5. u \in DOMAIN Units
    BY <1>1, <1>2, <1>4, UnitsAreCases
  <1>6. e \in Existing'
    BY <1>2, <1>3 DEF Settled, Kept, ManifestsStay
  <1>7. \A v \in DOMAIN Units : work[e][v].pc \in {"off", "queued"}
    BY <1>1, <1>2 DEF RunnerTypeOK
  <1>8. done \in 0 .. Len(unit) /\ Len(unit) \in Nat
        /\ \A i \in 1 .. done : Done(histories[unit[i].id])
    BY <1>2, <1>5, UnitsAreCases, CompletedPrefixes
  <1>9. done # Len(unit) => done + 1 \in DOMAIN unit /\ next \in CaseIds(scenario.dataset)
    <2> SUFFICES ASSUME done # Len(unit)
                 PROVE  done + 1 \in DOMAIN unit /\ next \in CaseIds(scenario.dataset)
      OBVIOUS
    <2>1. DOMAIN unit = 1 .. Len(unit)
      BY <1>2, <1>5, UnitsAreCases
    <2>2. done + 1 \in DOMAIN unit
      <3>1. \A n \in Nat : \A d \in 0 .. n : d # n => d + 1 \in 1 .. n
        OBVIOUS
      <3> HIDE DEF done, unit
      <3> QED BY <1>8, <2>1, <3>1
    <2> QED BY <1>2, <1>5, <2>2, CasePlaces
  <1> HIDE DEF done, next, histories, unit, u
  <1>10. CASE SetRun(e, [run[e] EXCEPT !.pc = "off", !.result = "refused"]) /\ StopWork(e)
    <2>1. /\ [run[e] EXCEPT !.pc = "off", !.result = "refused"] \in RunnerRow
          /\ [run[e] EXCEPT !.pc = "off", !.result = "refused"].pc = "off"
      BY <1>2 DEF RunnerRow, RunPhases, Results
    <2> QED BY <1>2, <1>3, <1>10, <2>1, RunnerStops
  <1>11. CASE SetRun(e, [run[e] EXCEPT !.unit = u + 1]) /\ UNCHANGED work
    <2>1. /\ [run[e] EXCEPT !.unit = u + 1] \in RunnerRow
          /\ [run[e] EXCEPT !.unit = u + 1].pc = "plan" /\ [run[e] EXCEPT !.unit = u + 1].unit = u + 1
      BY <1>1, <1>2, <1>4 DEF RunnerRow
    <2>2. PICK r \in RunnerRow : SetRun(e, r) /\ r.pc = "plan" /\ r.unit # 0
      BY <1>4, <1>11, <2>1
    <2> QED BY <1>3, <1>6, <1>7, <1>11, <2>2, RunnerGoes
  <1>12. CASE /\ done # Len(unit) /\ UNCHANGED work
              /\ SetRun(e, [run[e] EXCEPT !.unit = u + 1, !.terminal = @ \cup {next}])
    <2> DEFINE r == [run[e] EXCEPT !.unit = u + 1, !.terminal = @ \cup {next}]
    <2>1. r \in RunnerRow /\ r.pc = "plan" /\ r.unit = u + 1
      BY <1>1, <1>2, <1>4, <1>9, <1>12 DEF RunnerRow
    <2>2. SetRun(e, r)
      BY <1>12
    <2> HIDE DEF r
    <2>3. PICK x \in RunnerRow : SetRun(e, x) /\ x.pc = "plan" /\ x.unit # 0
      BY <1>4, <2>1, <2>2
    <2> QED BY <1>3, <1>6, <1>7, <1>12, <2>3, RunnerGoes
  <1>13. CASE /\ done # Len(unit) /\ SetRun(e, [run[e] EXCEPT !.unit = u + 1])
              /\ SetWork(e, u, [IdleWorker EXCEPT !.pc = "queued", !.turn = done + 1,
                                  !.state = StateBefore(unit, histories, done + 1)])
    <2> DEFINE before == StateBefore(unit, histories, done + 1)
               w == [IdleWorker EXCEPT !.pc = "queued", !.turn = done + 1, !.state = before]
               r == [run[e] EXCEPT !.unit = u + 1]
    <2>1. before \in State
      <3>1. done + 1 \in DOMAIN unit /\ (done + 1) - 1 = done /\ (done + 1 = 1 \/ done \in 1 .. done)
        BY <1>8, <1>9, <1>13
      <3>2. done + 1 = 1 \/ Done(histories[unit[(done + 1) - 1].id])
        BY <1>8, <3>1
      <3> QED BY <1>2, <1>5, <3>1, <3>2, BeforeTyped DEF unit, histories
    <2> HIDE DEF before
    <2>2. w \in WorkerRow /\ w.pc = "queued" /\ w.turn = done + 1
      <3>1. "queued" \in WorkerPhases /\ done + 1 \in Nat
        BY <1>8 DEF WorkerPhases
      <3>2. IdleWorker \in WorkerRow
        BY IdleRows
      <3> HIDE DEF before
      <3> QED BY <2>1, <3>1, <3>2 DEF WorkerRow
    <2>3. SetWork(e, u, w)
      BY <1>13 DEF before
    <2> HIDE DEF w
    <2>4. ThreadOK(e, u, w)
      <3>1. w.turn \in 1 .. Len(Units[u]) + 1
        <4>1. done + 1 \in 1 .. Len(unit) + 1
          BY <1>8
        <4> QED BY <2>2, <4>1 DEF unit
      <3> QED BY <2>2, <3>1 DEF ThreadOK, Staged, AtWork, Dispatched
    <2>5. r \in RunnerRow /\ r.pc = "plan" /\ r.unit = u + 1
      BY <1>1, <1>2, <1>4 DEF RunnerRow
    <2>6. /\ run' \in [Experiments -> RunnerRow] /\ run'[e] = r
          /\ \A f \in Experiments : f # e => run'[f] = run[f]
      <3>1. run' = [run EXCEPT ![e] = r]
        BY <1>13 DEF SetRun
      <3> HIDE DEF r
      <3> QED BY <1>2, <2>5, <3>1
    <2> HIDE DEF r
    <2>7. /\ work' \in [Experiments -> [DOMAIN Units -> WorkerRow]]
          /\ work'[e][u] = w
          /\ \A f \in Experiments : \A v \in DOMAIN Units :
               f # e \/ v # u => work'[f][v] = work[f][v]
      BY <1>2, <1>5, <2>2, <2>3, WorkSet
    <2>8. ASSUME NEW f \in Experiments, NEW v \in DOMAIN Units
          PROVE  \/ work'[f][v].pc = "off"
                 \/ \E x \in WorkerRow :
                       /\ work'[f][v] = x /\ f \in Existing /\ ThreadOK(f, v, x)
                       /\ run'[f].pc \in {"plan", "on"}
                       /\ x.pc # "queued" => run'[f].pc = "on"
      <3>1. CASE f = e /\ v = u
        BY <1>2, <2>2, <2>4, <2>5, <2>6, <2>7, <3>1
      <3>2. CASE ~(f = e /\ v = u)
        <4>1. work'[f][v] = work[f][v]
          BY <2>7, <3>2
        <4>2. run'[f].pc = run[f].pc
          BY <1>1, <2>5, <2>6
        <4> QED BY <4>1, <4>2, RowsWere
      <3> QED BY <3>1, <3>2
    <2>9. \A f \in Experiments : /\ run'[f].pc # "off" => f \in Existing'
                                 /\ run'[f].pc = "plan" => run'[f].unit # 0
      <3>1. \A f \in Experiments : /\ run[f].pc # "off" => f \in Existing'
                                   /\ run[f].pc = "plan" => run[f].unit # 0
        BY <1>2, <1>3 DEF BaseInv, RunnerTypeOK, Settled, Kept, ManifestsStay
      <3> QED BY <1>4, <1>6, <2>5, <2>6, <3>1
    <2> QED BY <1>3, <2>6, <2>7, <2>8, <2>9, Moves
  <1> QED
    <2>1. \/ SetRun(e, [run[e] EXCEPT !.pc = "off", !.result = "refused"]) /\ StopWork(e)
          \/ SetRun(e, [run[e] EXCEPT !.unit = u + 1]) /\ UNCHANGED work
          \/ /\ done # Len(unit) /\ UNCHANGED work
             /\ SetRun(e, [run[e] EXCEPT !.unit = u + 1, !.terminal = @ \cup {next}])
          \/ /\ done # Len(unit) /\ SetRun(e, [run[e] EXCEPT !.unit = u + 1])
             /\ SetWork(e, u, [IdleWorker EXCEPT !.pc = "queued", !.turn = done + 1,
                                  !.state = StateBefore(unit, histories, done + 1)])
      BY DEF PrepareUnit, u, unit, histories, done, next
    <2> QED BY <1>10, <1>11, <1>12, <1>13, <2>1

-----------------------------------------------------------------------------
(* The calls, the environment and the aggregator.                          *)

LEMMA NewDirsTyped == EmptyDir \in CaseDir /\ EmptyDir.attempts = <<>>
  BY DEF EmptyDir, CaseDir

LEMMA Creates ==
  ASSUME BaseInv, UNCHANGED <<scenario, code, cache>>, NEW e \in Experiments,
         NEW mode \in CacheModes, budget' \in [DOMAIN scenario.budget -> Nat],
         Create(e, PlannedManifest(mode))
  PROVE  Settled /\ e \in Existing'
  <1>0. RunnerTypeOK /\ scenario \in Scenarios /\ code \in Codes
        /\ exps \in [Existing -> ExperimentFiles] /\ Existing \subseteq Experiments
    BY DEF BaseInv, RunnerTypeOK
  <1> DEFINE manifest == PlannedManifest(mode)
             new == [manifest |-> manifest,
                     dirs |-> [id \in CaseIds(manifest.dataset) |-> EmptyDir]]
  <1>1. /\ manifest.dataset = scenario.dataset /\ manifest.generate = scenario.generate
        /\ manifest \in [dataset : {scenario.dataset}, generate : {scenario.generate},
                 judged : {scenario.judged}, external : BOOLEAN, code : Codes,
                 concurrency : {scenario.concurrency}, default : CacheModes]
    <2>1. (scenario.external /\ mode # "replay") \in BOOLEAN
      OBVIOUS
    <2> QED BY <1>0, <2>1 DEF PlannedManifest, Manifest
  <1>2. /\ e \notin Existing /\ PolicyAllows(manifest)
        /\ exps' = [f \in Existing \cup {e} |-> IF f = e THEN new ELSE exps[f]]
    BY DEF Create, FirstFree
  <1> HIDE DEF manifest
  <1>3. /\ new \in ExperimentFiles
        /\ \A id \in CaseIds(scenario.dataset) : new.dirs[id].attempts = <<>>
    <2>1. [id \in CaseIds(manifest.dataset) |-> EmptyDir] \in [CaseIds(scenario.dataset) -> CaseDir]
      BY <1>1, NewDirsTyped
    <2>2. new \in ExperimentFiles
      BY <1>1, <2>1 DEF ExperimentFiles
    <2> QED BY <1>1, <2>2, NewDirsTyped
  <1> HIDE DEF new
  <1>4. /\ Existing' = Existing \cup {e} /\ exps' \in [Existing' -> ExperimentFiles]
        /\ exps'[e] = new /\ \A f \in Existing : exps'[f] = exps[f]
    <2>1. Existing' = Existing \cup {e}
      BY <1>2 DEF Existing
    <2> QED BY <1>0, <1>2, <1>3, <2>1
  <1>5. Kept /\ CacheTyped'
    BY <1>4, SameCache DEF Kept, ManifestsStay
  <1>6. SessionsGenerate'
    BY <1>1, <1>2 DEF PolicyAllows, SessionsGenerate
  <1>7. RecordsOK'
    <2>1. Units' = Units /\ Plan' = Plan
      BY SameUnits
    <2>2. \A c, q, m, vals : Filed(c, q, m, vals) => FiledIn(scenario', cache', c, q, m, vals)
      BY DEF Filed
    <2> SUFFICES ASSUME NEW f \in Existing', NEW v \in DOMAIN Units, NEW i \in DOMAIN Units[v],
                        NEW k \in DOMAIN exps'[f].dirs[Units[v][i].id].attempts,
                        exps'[f].dirs[Units[v][i].id].attempts[k].status = "succeeded"
                 PROVE  LET file == exps'[f].dirs[Units[v][i].id].attempts[k] IN
                        /\ Len(file.vals) = Len(Plan)
                        /\ FiledIn(scenario', cache', exps'[f].manifest.code, Units[v][i].question,
                                   file.asked, file.vals)
      BY <2>1 DEF RecordsOK, Filed
    <2>3. CASE f = e
      <3>1. exps'[f].dirs[Units[v][i].id].attempts = <<>>
        BY <1>0, <1>3, <1>4, <2>3, CasePlaces
      <3> QED BY <3>1
    <2>4. CASE f \in Existing
      <3>1. exps'[f] = exps[f]
        BY <1>4, <2>4
      <3>2. RecordsOK
        BY DEF BaseInv
      <3>3. LET file == exps[f].dirs[Units[v][i].id].attempts[k] IN
            /\ Len(file.vals) = Len(Plan)
            /\ Filed(exps[f].manifest.code, Units[v][i].question, file.asked, file.vals)
        BY <2>4, <3>1, <3>2 DEF RecordsOK
      <3> QED BY <2>2, <3>1, <3>3
    <2> QED BY <1>4, <2>3, <2>4
  <1>8. Existing' \subseteq Experiments /\ code' \in Codes
    BY <1>0, <1>4
  <1>9. exps' \in [Existing' -> ExperimentFiles]
    BY <1>4
  <1> QED BY <1>4, <1>5, <1>6, <1>7, <1>8, <1>9 DEF Settled

LEMMA Starts ==
  ASSUME BaseInv, Settled, NEW e \in Existing', e \in Experiments, run[e].pc = "off",
         NEW mode \in CacheModes, NEW after \in Nat, StartRunner(e, mode, after), work' = work
  PROVE  BaseInv'
  <1>1. \A v \in DOMAIN Units : work[e][v].pc = "off"
    BY DEF BaseInv, RunnerTypeOK
  <1>2. PICK r \in RunnerRow : SetRun(e, r) /\ r.pc = "start"
    <2> DEFINE r == [IdleRun EXCEPT !.pc = "start", !.mode = mode, !.after = after]
    <2>1. r \in RunnerRow /\ r.pc = "start"
      BY DEF IdleRun, RunnerRow, RunPhases, Results
    <2>2. SetRun(e, r)
      BY DEF StartRunner
    <2> HIDE DEF r
    <2> QED BY <2>1, <2>2
  <1> QED BY <1>1, <1>2, RunnerGoes

LEMMA LifecycleKeeps ==
  ASSUME BaseInv, Lifecycle PROVE BaseInv'
  <1>0. /\ RunnerTypeOK /\ scenario \in Scenarios /\ scenario.stopAfter \subseteq Nat
        /\ budget \in [DOMAIN scenario.budget -> Nat] /\ code \in Codes
    BY ScenariosAreValid DEF BaseInv, RunnerTypeOK
  <1>1. ASSUME NEW e \in Experiments, NEW mode \in CacheModes, NEW after \in scenario.stopAfter,
               Launch(e, mode, after)
        PROVE  BaseInv'
    <2>1. /\ run[e].pc = "off" /\ Spend("launches") /\ Create(e, PlannedManifest(mode))
          /\ StartRunner(e, mode, after) /\ UNCHANGED <<scenario, code, cache, work>>
      BY <1>1 DEF Launch
    <2>2. Settled /\ e \in Existing'
      BY <1>0, <2>1, SpendTyped, Creates
    <2> QED BY <1>0, <2>1, <2>2, Starts
  <1>2. ASSUME NEW e \in Experiments, NEW mode \in CacheModes, NEW after \in scenario.stopAfter,
               Relaunch(e, mode, after)
        PROVE  BaseInv'
    <2>1. /\ run[e].pc = "off" /\ e \in Existing /\ Spend("resumes")
          /\ StartRunner(e, mode, after) /\ UNCHANGED <<scenario, code, exps, cache, work>>
      BY <1>2 DEF Relaunch
    <2>2. Settled
      <3>1. budget' \in [DOMAIN scenario.budget -> Nat]
        BY <1>0, <2>1, SpendTyped
      <3>2. scenario' = scenario /\ code' \in Codes /\ exps' = exps
        BY <1>0, <2>1
      <3> QED BY <2>1, <3>1, <3>2, SameCache, SameSettled
    <2>3. e \in Existing'
      BY <2>1 DEF Existing
    <2> QED BY <1>0, <2>1, <2>2, <2>3, Starts
  <1>3. ASSUME NEW source \in Experiments, NEW e \in Experiments, NewReplay(source, e),
               StartRunner(e, "replay", 0) \/ run' = run
        PROVE  BaseInv'
    <2>1. /\ run[e].pc = "off" /\ Spend("replays") /\ Create(e, PlannedManifest("replay"))
          /\ UNCHANGED <<scenario, code, cache, work>>
      BY <1>3 DEF NewReplay
    <2>2. "replay" \in CacheModes /\ 0 \in Nat
      BY DEF CacheModes
    <2>3. budget' \in [DOMAIN scenario.budget -> Nat]
      BY <1>0, <2>1, SpendTyped
    <2>4. Settled /\ e \in Existing'
      BY <2>1, <2>2, <2>3, Creates, Zenon
    <2>5. work' = work
      BY <2>1
    <2>6. CASE StartRunner(e, "replay", 0)
      BY <2>1, <2>2, <2>4, <2>5, <2>6, Starts, Zenon
    <2>7. CASE run' = run
      BY <2>4, <2>5, <2>7, NobodyMoves
    <2> QED BY <1>3, <2>6, <2>7
  <1>4. ASSUME NEW source \in Experiments, NEW e \in Experiments,
               ReplayExperiment(source, e) \/ ReplayWithProviders(source, e)
        PROVE  BaseInv'
    <2>1. NewReplay(source, e) /\ (StartRunner(e, "replay", 0) \/ run' = run)
      BY <1>4 DEF ReplayExperiment, ReplayWithProviders
    <2> QED BY <1>3, <2>1
  <1>5. ASSUME NEW e \in Experiments, NEW mode \in CacheModes, NEW after \in scenario.stopAfter,
               \/ RunExperiment(e, mode, after) \/ ResumeExperiment(e, mode, after)
               \/ RunWithProviders(e, mode, after) \/ ResumeWithProviders(e, mode, after)
        PROVE  BaseInv'
    <2>1. Launch(e, mode, after) \/ Relaunch(e, mode, after)
      BY <1>5 DEF RunExperiment, RunWithProviders, ResumeExperiment, ResumeWithProviders
    <2> QED BY <1>1, <1>2, <2>1
  <1> QED BY <1>4, <1>5 DEF Lifecycle

-----------------------------------------------------------------------------

LEMMA RequestStopKeeps ==
  ASSUME BaseInv, NEW e \in Experiments, RequestStop(e) PROVE BaseInv'
  <1>1. /\ run[e].pc # "off" /\ Spend("stops") /\ SetRun(e, [run[e] EXCEPT !.stop = TRUE])
        /\ UNCHANGED <<scenario, code, exps, cache, work>>
    BY DEF RequestStop
  <1>2. /\ RunnerTypeOK /\ e \in Existing /\ run[e] \in RunnerRow /\ code \in Codes
        /\ budget \in [DOMAIN scenario.budget -> Nat]
    BY <1>1 DEF BaseInv, RunnerTypeOK
  <1>3. Settled /\ e \in Existing'
    <2>1. budget' \in [DOMAIN scenario.budget -> Nat]
      BY <1>1, <1>2, SpendTyped
    <2> QED BY <1>1, <1>2, <2>1, SameCache, SameSettled DEF Existing
  <1>4. PICK r \in RunnerRow : SetRun(e, r) /\ r.pc = run[e].pc /\ r.unit = run[e].unit
    <2>1. /\ [run[e] EXCEPT !.stop = TRUE] \in RunnerRow
          /\ [run[e] EXCEPT !.stop = TRUE].pc = run[e].pc
          /\ [run[e] EXCEPT !.stop = TRUE].unit = run[e].unit
      BY <1>2 DEF RunnerRow
    <2> QED BY <1>1, <2>1
  <1>5. \A v \in DOMAIN Units : /\ work[e][v].pc # "off" => r.pc \in {"plan", "on"}
                                /\ work[e][v].pc \notin {"off", "queued"} => r.pc = "on"
    BY <1>2, <1>4 DEF RunnerTypeOK
  <1>6. r.pc = "plan" => r.unit # 0
    BY <1>4 DEF BaseInv
  <1> QED BY <1>1, <1>3, <1>4, <1>5, <1>6, RunnerGoes

LEMMA CrashKeeps ==
  ASSUME BaseInv, NEW e \in Experiments, Crash(e) PROVE BaseInv'
  <1>1. /\ run[e].pc # "off" /\ Spend("crashes") /\ SetRun(e, [IdleRun EXCEPT !.result = "crashed"])
        /\ StopWork(e) /\ UNCHANGED <<scenario, code, exps, cache>>
    BY DEF Crash
  <1>2. /\ RunnerTypeOK /\ e \in Existing /\ code \in Codes
        /\ budget \in [DOMAIN scenario.budget -> Nat]
    BY <1>1 DEF BaseInv, RunnerTypeOK
  <1>3. Settled
    <2>1. budget' \in [DOMAIN scenario.budget -> Nat]
      BY <1>1, <1>2, SpendTyped
    <2> QED BY <1>1, <1>2, <2>1, SameCache, SameSettled
  <1>4. PICK r \in RunnerRow : SetRun(e, r) /\ r.pc = "off"
    <2>1. /\ [IdleRun EXCEPT !.result = "crashed"] \in RunnerRow
          /\ [IdleRun EXCEPT !.result = "crashed"].pc = "off"
      BY DEF IdleRun, RunnerRow, RunPhases, Results, CacheModes
    <2> QED BY <1>1, <2>1
  <1> QED BY <1>1, <1>2, <1>3, <1>4, RunnerStops

LEMMA DamageKeeps ==
  ASSUME BaseInv, NEW e \in Existing, NEW id \in DOMAIN exps[e].dirs,
         \/ DamageMarker(e, id) \/ StrayFile(e, id)
         \/ \E number \in DOMAIN exps[e].dirs[id].attempts : DamageAttempt(e, id, number)
  PROVE  BaseInv'
  <1>1. /\ Spend("damages") /\ UNCHANGED <<scenario, code, cache, run, work>>
    BY DEF DamageMarker, StrayFile, DamageAttempt
  <1>2. /\ RunnerTypeOK /\ code \in Codes /\ budget' \in [DOMAIN scenario.budget -> Nat]
        /\ id \in CaseIds(scenario.dataset) /\ exps[e].dirs[id] \in CaseDir
    <2>1. RunnerTypeOK /\ code \in Codes /\ budget \in [DOMAIN scenario.budget -> Nat]
      BY DEF BaseInv, RunnerTypeOK
    <2> QED BY <1>1, <2>1, SpendTyped, ManifestFacts
  <1> DEFINE old == exps[e].dirs[id]
  <1>3. old.attempts \in Seq(AttemptFile) /\ old.marker \in MarkerFile \cup {NoMarker}
    BY <1>2 DEF CaseDir
  <1>4. PICK dir \in CaseDir : SetDir(e, id, dir) /\ SameAnswers(dir.attempts, old.attempts)
    <2>1. CASE DamageMarker(e, id)
      <3> DEFINE dir == [old EXCEPT !.marker.intact = FALSE]
      <3>1. SetDir(e, id, dir)
        BY <2>1 DEF DamageMarker
      <3>2. old.marker \in MarkerFile
        BY <1>3, <2>1 DEF DamageMarker
      <3>3. dir = [old EXCEPT !.marker = [old.marker EXCEPT !.intact = FALSE]]
        OBVIOUS
      <3>4. [old.marker EXCEPT !.intact = FALSE] \in MarkerFile
        BY <3>2 DEF MarkerFile
      <3> HIDE DEF dir
      <3>5. dir \in CaseDir /\ dir.attempts = old.attempts
        BY <1>2, <3>3, <3>4 DEF CaseDir
      <3>6. SameAnswers(dir.attempts, old.attempts)
        BY <3>5 DEF SameAnswers
      <3> QED BY <3>1, <3>5, <3>6
    <2>2. CASE StrayFile(e, id)
      <3> DEFINE dir == [old EXCEPT !.junk = TRUE]
      <3>1. SetDir(e, id, dir)
        BY <2>2 DEF StrayFile
      <3>2. dir \in CaseDir /\ dir.attempts = old.attempts
        BY <1>2 DEF CaseDir
      <3> HIDE DEF dir
      <3>3. SameAnswers(dir.attempts, old.attempts)
        BY <3>2 DEF SameAnswers
      <3> QED BY <3>1, <3>2, <3>3
    <2>3. ASSUME NEW number \in DOMAIN old.attempts, DamageAttempt(e, id, number)
          PROVE  \E dir \in CaseDir : SetDir(e, id, dir) /\ SameAnswers(dir.attempts, old.attempts)
      <3> DEFINE dir == [old EXCEPT !.attempts[number].intact = FALSE]
                 file == [old.attempts[number] EXCEPT !.intact = FALSE]
                 files == [old.attempts EXCEPT ![number] = file]
      <3>1. SetDir(e, id, dir)
        BY <2>3 DEF DamageAttempt
      <3>2. old.attempts[number] \in AttemptFile
        BY <1>3
      <3>3. /\ file \in AttemptFile /\ file.status = old.attempts[number].status
            /\ file.vals = old.attempts[number].vals /\ file.asked = old.attempts[number].asked
        BY <3>2 DEF AttemptFile
      <3>4. dir = [old EXCEPT !.attempts = files]
        OBVIOUS
      <3> HIDE DEF file
      <3>5. files \in Seq(AttemptFile) /\ DOMAIN files = DOMAIN old.attempts
            /\ \A k \in DOMAIN files : files[k] = IF k = number THEN file ELSE old.attempts[k]
        BY <1>3, <3>3
      <3> HIDE DEF files, dir
      <3>6. dir \in CaseDir /\ dir.attempts = files
        BY <1>2, <3>4, <3>5 DEF CaseDir
      <3>7. SameAnswers(files, old.attempts)
        BY <3>3, <3>5 DEF SameAnswers
      <3> QED BY <3>1, <3>6, <3>7
    <2> QED BY <2>1, <2>2, <2>3
  <1>5. Settled
    <2>1. scenario' = scenario /\ code' \in Codes /\ cache' = cache
      BY <1>1, <1>2
    <2> QED BY <1>2, <1>4, <2>1, DirSettles
  <1> QED BY <1>1, <1>5, NobodyMoves

LEMMA EnvironmentKeeps ==
  ASSUME BaseInv, Environment PROVE BaseInv'
  <1>0. /\ code \in Codes /\ budget \in [DOMAIN scenario.budget -> Nat] /\ CacheTyped
    BY DEF BaseInv, RunnerTypeOK, CacheTyped
  <1>1. ASSUME NEW key \in DOMAIN cache, DamageCache(key) PROVE BaseInv'
    <2>1. /\ Spend("damages") /\ cache' = [cache EXCEPT ![key].intact = FALSE]
          /\ UNCHANGED <<scenario, code, exps, run, work>>
      BY <1>1 DEF DamageCache
    <2>2. budget' \in [DOMAIN scenario.budget -> Nat]
      BY <1>0, <2>1, SpendTyped
    <2>3. CacheGrows /\ CacheTyped'
      <3> DEFINE entry == [cache[key] EXCEPT !.intact = FALSE]
      <3>1. cache[key] \in [value : Values, intact : BOOLEAN]
        BY <1>0 DEF CacheTyped
      <3>2. entry \in [value : Values, intact : BOOLEAN] /\ entry.value = cache[key].value
        BY <3>1
      <3>3. cache' = [cache EXCEPT ![key] = entry]
        BY <2>1
      <3> HIDE DEF entry
      <3> QED BY <1>0, <3>2, <3>3 DEF CacheTyped, CacheGrows
    <2>4. Settled
      BY <1>0, <2>1, <2>2, <2>3, SameSettled
    <2> QED BY <2>1, <2>4, NobodyMoves
  <1>2. ASSUME NEW c \in Codes, Upgrade(c) PROVE BaseInv'
    <2>1. Spend("upgrades") /\ code' = c /\ UNCHANGED <<scenario, exps, cache, run, work>>
      BY <1>2 DEF Upgrade
    <2>2. budget' \in [DOMAIN scenario.budget -> Nat]
      BY <1>0, <2>1, SpendTyped
    <2>3. Settled
      BY <2>1, <2>2, SameCache, SameSettled
    <2> QED BY <2>1, <2>3, NobodyMoves
  <1> QED BY <1>1, <1>2, RequestStopKeeps, CrashKeeps, DamageKeeps DEF Environment

LEMMA RunnerStepKeeps ==
  ASSUME BaseInv, NEW e \in Experiments, RunnerStep(e) PROVE BaseInv'
  <1>1. CASE Preparation(e)
    BY <1>1, ScanKeeps, PrepareUnitKeeps, StartThreadsKeeps DEF Preparation
  <1>2. ASSUME NEW u \in DOMAIN Units, UnitStep(e, u) PROVE BaseInv'
    <2>1. CASE TakeUnit(e, u) \/ StartTurn(e, u) \/ RetryAttempt(e, u) \/ EnterCase(e, u)
      BY <2>1, TakeUnitKeeps, StartTurnKeeps, EnterCaseKeeps
    <2>2. CASE \/ StageHit(e, u) \/ ReplayMiss(e, u) \/ LocalStage(e, u) \/ RequestCall(e, u)
               \/ CallStopped(e, u) \/ Dispatch(e, u) \/ PublishStage(e, u)
      BY <2>2, StageHitKeeps, ReplayMissKeeps, StoreKeeps, RequestCallKeeps, DispatchKeeps
    <2>3. CASE \/ \E answer \in Answers : Answer(e, u, answer)
               \/ \E retryable \in BOOLEAN : ProviderFails(e, u, retryable)
      BY <2>3, AnswerKeeps, ProviderFailsKeeps
    <2>4. CASE SucceedCase(e, u) \/ RecordAttempt(e, u) \/ MarkCase(e, u)
      BY <2>4, SucceedCaseKeeps, RecordAttemptKeeps, MarkCaseKeeps
    <2> QED BY <1>2, <2>1, <2>2, <2>3, <2>4 DEF UnitStep
  <1>3. CASE FinishRun(e)
    BY <1>3, FinishRunKeeps
  <1> QED BY <1>1, <1>2, <1>3 DEF RunnerStep

LEMMA NextKeeps == ASSUME BaseInv, Next PROVE BaseInv'
  BY LifecycleKeeps, RunnerStepKeeps, EnvironmentKeeps DEF Next

LEMMA NothingKeeps == ASSUME BaseInv, UNCHANGED runnerVars PROVE BaseInv'
  <1>1. UNCHANGED <<scenario, code, budget, exps, cache, run, work>>
    BY DEF runnerVars
  <1>2. Settled
    BY <1>1, SameBudget, SameCache, SameSettled DEF RunnerTypeOK
  <1> QED BY <1>1, <1>2, NobodyMoves

LEMMA AggregatorKeeps == ASSUME BaseInv, AggregatorStep PROVE BaseInv'
  <1>1. ASSUME NEW what, Spend(what), UNCHANGED <<scenario, code, exps, cache, run, work>>
        PROVE  BaseInv'
    <2>1. budget' \in [DOMAIN scenario.budget -> Nat]
      BY <1>1, SpendTyped DEF BaseInv, RunnerTypeOK
    <2>2. code \in Codes
      BY DEF BaseInv, RunnerTypeOK
    <2>3. Settled
      BY <1>1, <2>1, <2>2, SameCache, SameSettled
    <2> QED BY <1>1, <2>3, NobodyMoves
  <1>2. CASE (\E e \in Experiments : StartAggregation(e)) \/ AggCrash
    BY <1>1, <1>2 DEF StartAggregation, AggCrash
  <1>3. CASE \/ ScanCase \/ EvidenceCase \/ LoadCase \/ ProveCase \/ NextPass
             \/ MakeBundle \/ PublishFile \/ Published
    BY <1>3, NothingKeeps
       DEF ScanCase, EvidenceCase, LoadCase, ProveCase, ReadInto, NextPass, MakeBundle,
           PublishFile, Published
  <1> QED BY <1>2, <1>3 DEF AggregatorStep

LEMMA InitKeeps == ASSUME Init PROVE BaseInv
  <1>0. /\ scenario \in Scenarios /\ code \in Codes /\ budget = scenario.budget
        /\ exps = <<>> /\ cache = <<>>
        /\ run = [e \in Experiments |-> IdleRun]
        /\ work = [e \in Experiments |-> [u \in DOMAIN Units |-> IdleWorker]]
    BY DEF Init
  <1>1. Existing = {} /\ exps \in [Existing -> ExperimentFiles]
    BY <1>0 DEF Existing
  <1>2. CacheTyped
    BY <1>0 DEF CacheTyped
  <1>3. IdleRun \in RunnerRow /\ IdleRun.pc = "off"
    BY DEF IdleRun, RunnerRow, RunPhases, Results, CacheModes
  <1>4. /\ run \in [Experiments -> RunnerRow] /\ \A e \in Experiments : run[e].pc = "off"
    BY <1>0, <1>3
  <1>5. /\ work \in [Experiments -> [DOMAIN Units -> WorkerRow]]
        /\ \A e \in Experiments : \A u \in DOMAIN Units : work[e][u].pc = "off"
    BY <1>0, IdleRows
  <1>6. budget \in [DOMAIN scenario.budget -> Nat]
    BY <1>0, ScenariosAreValid
  <1>7. RunnerTypeOK
    BY <1>0, <1>1, <1>2, <1>4, <1>5, <1>6 DEF RunnerTypeOK, CacheTyped
  <1> QED BY <1>1, <1>4, <1>7 DEF BaseInv, SessionsGenerate, ThreadsOK, RecordsOK

\* The inductive invariant holds in every state of runners and aggregator.
LEMMA BaseInvAlways == AggSpec => []BaseInv
  <1>1. AggInit => BaseInv
    BY InitKeeps DEF AggInit
  <1>2. BaseInv /\ [AggNext]_allVars => BaseInv'
    BY NextKeeps, AggregatorKeeps, NothingKeeps DEF AggNext, allVars
  <1> QED BY <1>1, <1>2, PTL DEF AggSpec

\* Directories, cache, frames and threads keep their types, and a thread works
\* only for a runner that is preparing or running its units.
THEOREM RunnersStayTyped == AggSpec => []RunnerTypeOK
  <1>1. BaseInv => RunnerTypeOK
    BY DEF BaseInv
  <1> QED BY <1>1, BaseInvAlways, PTL

\* Exact reuse: equal questions from equal states under one contract give equal
\* stage values, whatever provider answered first, since every value in a
\* successful file is the one the cache holds under its key, and entries are
\* never replaced (ExactStageCache._write_immutable).
THEOREM CacheHitsAreExact == AggSpec => []ExactReuse
  BY BaseInvAlways, InvIsExact, PTL

-----------------------------------------------------------------------------
(* Sound directories.                                                      *)
(*                                                                         *)
(* SoundInv adds to BaseInv what the files of one experiment, the threads  *)
(* that work on them and the result of its runs say of each other.  All of *)
(* it is claimed of experiments whose directories are Clean: no stray file *)
(* and no file or marker whose bytes were changed.  Damage is counted, so  *)
(* that every directory is clean while nothing has been damaged.  A case   *)
(* is Open when it may be tried again and Hopeless when no resume can      *)
(* complete it.                                                            *)

Marked(d) == d.marker # NoMarker
AllMarked(unit, dirs) == \A j \in DOMAIN unit : Marked(dirs[unit[j].id])

DirClean(d) ==
  /\ ~d.junk
  /\ \A k \in DOMAIN d.attempts : d.attempts[k].intact
  /\ Marked(d) => d.marker.intact
Clean(dirs) == \A id \in DOMAIN dirs : DirClean(dirs[id])

\* What a case may be tried again after.
Open(a) ==
  Len(a) < MaxAttempts /\ \A k \in DOMAIN a : a[k].status # "succeeded" /\ a[k].retryable

\* A case that no resume completes.
Hopeless(a) == Succeeded(a) = {} /\ CannotGoOn(a)

DirSound(d, external) ==
  LET a == d.attempts IN
  /\ \A k \in DOMAIN a :
       /\ a[k].number = k
       /\ a[k].mode = "replay" => a[k].fresh = {}
       /\ external => a[k].error # "executor_contract_error"
       /\ a[k].status # "succeeded" => a[k].after = NoState
       /\ k < Len(a) => a[k].status # "succeeded" /\ a[k].retryable
  /\ Marked(d) => /\ a # <<>> /\ a[Len(a)].status = "succeeded"
                  /\ d.marker = MarkerFor(a, Len(a))

\* The state in front of a turn.
StateIn(unit, dirs, i) ==
  IF i = 1 THEN InitialState(unit)
  ELSE dirs[unit[i - 1].id].attempts[Len(dirs[unit[i - 1].id].attempts)].after

AfterSuccess(unit, before, vals) ==
  IF IsSession(unit) THEN Append(before, vals[Generation]) ELSE NoState

FileSound(unit, before, file) ==
  /\ file.before = before
  /\ IsSession(unit) => file.asked = before
  /\ file.status = "succeeded" => file.after = AfterSuccess(unit, before, file.vals)

TurnSound(unit, dirs, i) ==
  LET a == dirs[unit[i].id].attempts IN
  a # <<>> =>
    /\ \A j \in 1 .. i - 1 : Marked(dirs[unit[j].id])
    /\ \A k \in DOMAIN a : FileSound(unit, StateIn(unit, dirs, i), a[k])

OutcomeSound(unit, external, w) ==
  /\ external => w.out.error # "executor_contract_error"
  /\ w.out.after = IF w.out.status = "succeeded"
                   THEN AfterSuccess(unit, w.runtime.memory, w.vals) ELSE NoState

\* The runtime was built for the mode of the attempt.
BuiltFor(w) == w.runtime.mode = w.mode

AttemptSound(unit, external, w, a) ==
  /\ IsSession(unit) => w.runtime.memory = w.state
  /\ w.pc # "mark" => w.number = Len(a) + 1
  /\ w.mode = "replay" => w.fresh = {}
  /\ BuiltFor(w)
  /\ w.pc \in Dispatched => w.mode # "replay"
  /\ w.pc = "record" => OutcomeSound(unit, external, w)
  /\ w.pc = "mark" => /\ a # <<>> /\ w.number = Len(a) /\ a[Len(a)].status = "succeeded"
                      /\ w.out.after = a[Len(a)].after

\* The thread stands where the files of its unit end.
TurnKnown(unit, dirs, w) ==
  /\ \A j \in 1 .. w.turn - 1 : Marked(dirs[unit[j].id])
  /\ w.state = StateIn(unit, dirs, w.turn)
  /\ IsSession(unit) => w.state \in Seq(Values)
  /\ w.turn <= Len(unit) =>
       /\ ~Marked(dirs[unit[w.turn].id])
       /\ w.pc # "mark" => Open(dirs[unit[w.turn].id].attempts)

ThreadSound(unit, dirs, external, r, w) ==
  /\ w.pc = "raised" => w.turn \in DOMAIN unit
  /\ w.pc = "done" => r.stop \/ r.terminal # {} \/ AllMarked(unit, dirs)
  /\ w.pc \notin {"off", "done"} => TurnKnown(unit, dirs, w)
  /\ w.pc \in {"queued", "retry"} => w.runtime = NoRuntime
  /\ w.pc = "turn" /\ w.runtime # NoRuntime =>
       /\ w.runtime.mode = r.mode
       /\ IsSession(unit) => w.runtime.memory = w.state
       /\ w.turn <= Len(unit) => dirs[unit[w.turn].id].attempts = <<>>
  /\ w.pc \in AtWork => AttemptSound(unit, external, w, dirs[unit[w.turn].id].attempts)

UnitSound(unit, dirs, external, r, w) ==
  /\ \A i \in DOMAIN unit : TurnSound(unit, dirs, i)
  /\ ThreadSound(unit, dirs, external, r, w)

Planned(r, u) == r.pc = "on" \/ (r.pc = "plan" /\ u < r.unit)

\* What a run that is over says of its directories.
ResultSound(dirs, result) ==
  /\ result \notin {"blocked", "refused"}
  /\ result = "succeeded" => \A id \in DOMAIN dirs : Marked(dirs[id])
  /\ (\A id \in DOMAIN dirs : Marked(dirs[id])) => result \in {"none", "crashed", "succeeded"}
  /\ result = "completed_with_failures" => \E id \in DOMAIN dirs : Hopeless(dirs[id].attempts)

UnitSettled(units, dirs, r, ws, u) ==
  /\ r.pc = "plan" /\ u >= r.unit => ws[u].pc = "off"
  /\ Planned(r, u) /\ ws[u].pc = "off" => r.terminal # {} \/ AllMarked(units[u], dirs)

RunSound(units, dirs, r, ws) ==
  /\ \A id \in r.terminal : id \in DOMAIN dirs /\ Hopeless(dirs[id].attempts)
  /\ \A u \in DOMAIN units : UnitSettled(units, dirs, r, ws, u)
  /\ r.pc # "off" => r.result = "none"
  /\ r.pc = "off" => ResultSound(dirs, r.result)

ExpSound(units, dirs, external, r, ws) ==
  Clean(dirs) =>
    /\ \A id \in DOMAIN dirs : DirSound(dirs[id], external)
    /\ \A u \in DOMAIN units : UnitSound(units[u], dirs, external, r, ws[u])
    /\ RunSound(units, dirs, r, ws)

Sound(e) == ExpSound(Units, exps[e].dirs, exps[e].manifest.external, run[e], work[e])

FilesCounted ==
  \A e \in Existing : \A id \in DOMAIN exps[e].dirs : Len(exps[e].dirs[id].attempts) <= MaxAttempts
ResultsKnown ==
  \A e \in Experiments : /\ run[e].result # "partial"
                         /\ e \notin Existing => run[e].result = "none" /\ run[e].terminal = {}
DamagesCounted ==
  /\ budget.damages <= scenario.budget.damages
  /\ Undamaged => \A e \in Existing : Clean(exps[e].dirs)

SoundInv ==
  /\ BaseInv
  /\ \A e \in Existing : Sound(e)
  /\ FilesCounted /\ ResultsKnown /\ DamagesCounted

-----------------------------------------------------------------------------
(* Files that a step leaves alone.                                         *)

LEMMA StateCarries ==
  ASSUME NEW unit, Len(unit) \in Nat, DOMAIN unit = 1 .. Len(unit), NEW dirs, NEW dirs2,
         \A i \in DOMAIN unit : dirs2[unit[i].id] = dirs[unit[i].id],
         NEW i \in 1 .. Len(unit) + 1
  PROVE  StateIn(unit, dirs2, i) = StateIn(unit, dirs, i)
  <1>1. CASE i = 1
    <2>1. StateIn(unit, dirs, i) = InitialState(unit) /\ StateIn(unit, dirs2, i) = InitialState(unit)
      BY <1>1 DEF StateIn
    <2> QED BY <2>1
  <1>2. CASE i # 1
    <2>1. i - 1 \in DOMAIN unit
      BY <1>2
    <2>2. dirs2[unit[i - 1].id] = dirs[unit[i - 1].id]
      BY <2>1
    <2> QED BY <1>2, <2>2 DEF StateIn
  <1> QED BY <1>1, <1>2

LEMMA TurnCarries ==
  ASSUME NEW unit, Len(unit) \in Nat, DOMAIN unit = 1 .. Len(unit), NEW dirs, NEW dirs2,
         \A i \in DOMAIN unit : dirs2[unit[i].id] = dirs[unit[i].id],
         NEW i \in DOMAIN unit, TurnSound(unit, dirs, i)
  PROVE  TurnSound(unit, dirs2, i)
  <1>1. StateIn(unit, dirs2, i) = StateIn(unit, dirs, i)
    <2>1. i \in 1 .. Len(unit) + 1
      OBVIOUS
    <2> QED BY <2>1, StateCarries
  <1>2. \A j \in 1 .. i - 1 : dirs2[unit[j].id] = dirs[unit[j].id]
    OBVIOUS
  <1>3. dirs2[unit[i].id] = dirs[unit[i].id]
    OBVIOUS
  <1> QED BY <1>1, <1>2, <1>3 DEF TurnSound

\* Where the turn of a thread can be.
Stands(unit, w) ==
  /\ w.pc \notin {"off", "done", "raised"} => w.turn \in 1 .. Len(unit) + 1
  /\ w.pc \in AtWork \cup {"retry"} => w.turn \in DOMAIN unit

LEMMA KnownCarries ==
  ASSUME NEW unit, Len(unit) \in Nat, DOMAIN unit = 1 .. Len(unit), NEW dirs, NEW dirs2,
         \A i \in DOMAIN unit : dirs2[unit[i].id] = dirs[unit[i].id],
         NEW w, w.turn \in 1 .. Len(unit) + 1, TurnKnown(unit, dirs, w)
  PROVE  TurnKnown(unit, dirs2, w)
  <1>1. StateIn(unit, dirs2, w.turn) = StateIn(unit, dirs, w.turn)
    BY StateCarries
  <1>2. \A j \in 1 .. w.turn - 1 : dirs2[unit[j].id] = dirs[unit[j].id]
    OBVIOUS
  <1>3. w.turn <= Len(unit) => dirs2[unit[w.turn].id] = dirs[unit[w.turn].id]
    OBVIOUS
  <1> QED BY <1>1, <1>2, <1>3 DEF TurnKnown

LEMMA ThreadCarries ==
  ASSUME NEW unit, Len(unit) \in Nat, DOMAIN unit = 1 .. Len(unit), NEW dirs, NEW dirs2,
         \A i \in DOMAIN unit : dirs2[unit[i].id] = dirs[unit[i].id],
         NEW external, NEW r, NEW r2, r2.mode = r.mode, r.stop => r2.stop,
         r.terminal # {} => r2.terminal # {},
         NEW w, Stands(unit, w), ThreadSound(unit, dirs, external, r, w)
  PROVE  ThreadSound(unit, dirs2, external, r2, w)
  <1>1. AllMarked(unit, dirs2) <=> AllMarked(unit, dirs)
    BY DEF AllMarked
  <1>2. ASSUME w.pc \notin {"off", "done"} PROVE TurnKnown(unit, dirs2, w)
    <2>1. TurnKnown(unit, dirs, w)
      BY <1>2 DEF ThreadSound
    <2>2. w.turn \in 1 .. Len(unit) + 1
      <3>1. CASE w.pc = "raised"
        BY <3>1 DEF ThreadSound
      <3>2. CASE w.pc # "raised"
        BY <1>2, <3>2 DEF Stands
      <3> QED BY <3>1, <3>2
    <2> QED BY <2>1, <2>2, KnownCarries
  <1>3. w.pc = "turn" /\ w.turn <= Len(unit) => dirs2[unit[w.turn].id] = dirs[unit[w.turn].id]
    <2>1. w.pc = "turn" /\ w.turn <= Len(unit) => w.turn \in DOMAIN unit
      BY DEF Stands
    <2> QED BY <2>1
  <1>4. w.pc \in AtWork => dirs2[unit[w.turn].id] = dirs[unit[w.turn].id]
    BY DEF Stands
  <1> QED BY <1>1, <1>2, <1>3, <1>4 DEF ThreadSound

LEMMA UnitCarries ==
  ASSUME NEW unit, Len(unit) \in Nat, DOMAIN unit = 1 .. Len(unit), NEW dirs, NEW dirs2,
         \A i \in DOMAIN unit : dirs2[unit[i].id] = dirs[unit[i].id],
         NEW external, NEW r, NEW r2, r2.mode = r.mode, r.stop => r2.stop,
         r.terminal # {} => r2.terminal # {},
         NEW w, Stands(unit, w), UnitSound(unit, dirs, external, r, w)
  PROVE  UnitSound(unit, dirs2, external, r2, w)
  BY TurnCarries, ThreadCarries DEF UnitSound

-----------------------------------------------------------------------------
(* What a step leaves alone.                                               *)

LEMMA UnitFacts ==
  ASSUME scenario \in Scenarios, NEW u \in DOMAIN Units
  PROVE  /\ Len(Units[u]) \in Nat \ {0} /\ DOMAIN Units[u] = 1 .. Len(Units[u])
         /\ \A i \in DOMAIN Units[u] : Units[u][i].id \in CaseIds(scenario.dataset)
  <1>1. Units[u] \in Seq(CasesOf(scenario.dataset)) /\ Len(Units[u]) \in Nat \ {0}
    BY UnitsAreCases
  <1>2. DOMAIN Units[u] = 1 .. Len(Units[u])
    BY <1>1
  <1> QED BY <1>1, <1>2, CasePlaces

LEMMA ThreadsStand ==
  ASSUME BaseInv, NEW e \in Existing, NEW u \in DOMAIN Units
  PROVE  Stands(Units[u], work[e][u])
  <1>1. ThreadOK(e, u, work[e][u])
    BY DEF BaseInv, ThreadsOK
  <1>2. work[e][u] \in WorkerRow /\ scenario \in Scenarios
    BY DEF BaseInv, RunnerTypeOK
  <1>3. work[e][u].pc \in WorkerPhases
    BY <1>2 DEF WorkerRow
  <1>4. Len(Units[u]) \in Nat \ {0} /\ DOMAIN Units[u] = 1 .. Len(Units[u])
    BY <1>2, UnitFacts
  <1> QED BY <1>1, <1>3, <1>4 DEF ThreadOK, Stands, WorkerPhases, AtWork, Staged, Dispatched

LEMMA Spending ==
  ASSUME budget \in [DOMAIN scenario.budget -> Nat], scenario \in Scenarios,
         budget' = budget \/ \E what : Spend(what)
  PROVE  budget'.damages <= budget.damages /\ budget.damages \in Nat /\ budget'.damages \in Nat
  <1>1. "damages" \in DOMAIN scenario.budget
    BY ScenariosAreValid
  <1>2. budget.damages \in Nat
    BY <1>1
  <1>3. ASSUME NEW what, Spend(what)
        PROVE  budget'.damages <= budget.damages /\ budget'.damages \in Nat
    <2>1. CASE what = "damages"
      BY <1>1, <1>2, <1>3, <2>1 DEF Spend
    <2>2. CASE what # "damages"
      BY <1>1, <1>2, <1>3, <2>2 DEF Spend
    <2> QED BY <2>1, <2>2
  <1> QED BY <1>2, <1>3

LEMMA DamagesStay ==
  ASSUME SoundInv, scenario' = scenario,
         budget' = budget \/ \E what : Spend(what),
         \A f \in Existing' : \/ f \in Existing /\ (Clean(exps[f].dirs) => Clean(exps'[f].dirs))
                              \/ Clean(exps'[f].dirs)
  PROVE  DamagesCounted'
  <1>1. budget'.damages <= budget.damages /\ budget.damages \in Nat /\ budget'.damages \in Nat
    BY Spending DEF SoundInv, BaseInv, RunnerTypeOK
  <1>2. budget.damages <= scenario.budget.damages /\ (Undamaged => \A f \in Existing : Clean(exps[f].dirs))
    BY DEF SoundInv, DamagesCounted
  <1>3. scenario.budget.damages \in Nat
    BY ScenariosAreValid DEF SoundInv, BaseInv, RunnerTypeOK
  <1>4. budget'.damages <= scenario.budget.damages
    BY <1>1, <1>2, <1>3
  <1>5. Undamaged' => Undamaged
    BY <1>1, <1>2, <1>3 DEF Undamaged
  <1>6. Undamaged' => \A f \in Existing' : Clean(exps'[f].dirs)
    BY <1>2, <1>5
  <1> QED BY <1>4, <1>6 DEF DamagesCounted

\* What a step about one experiment must keep.
LEMMA SoundMoves ==
  ASSUME SoundInv, BaseInv', scenario' = scenario, NEW e \in Experiments,
         Existing \subseteq Existing', Existing' \subseteq Existing \cup {e},
         \A f \in Existing : f # e => exps'[f] = exps[f],
         \A f \in Experiments : f # e => run'[f] = run[f] /\ work'[f] = work[f],
         e \in Existing' => ExpSound(Units, exps'[e].dirs, exps'[e].manifest.external, run'[e], work'[e]),
         e \in Existing' => \A id \in DOMAIN exps'[e].dirs :
                               Len(exps'[e].dirs[id].attempts) <= MaxAttempts,
         run'[e].result # "partial",
         e \notin Existing' => run'[e].result = "none" /\ run'[e].terminal = {},
         DamagesCounted'
  PROVE  SoundInv'
  <1>1. Units' = Units
    BY SameUnits
  <1>2. Existing \subseteq Experiments
    BY DEF SoundInv, BaseInv, RunnerTypeOK
  <1>3. ASSUME NEW f \in Existing' PROVE Sound(f)'
    <2>1. CASE f = e
      BY <1>1, <2>1 DEF Sound
    <2>2. CASE f # e
      <3>1. f \in Existing /\ f \in Experiments
        BY <1>2, <2>2
      <3>2. exps'[f] = exps[f] /\ run'[f] = run[f] /\ work'[f] = work[f]
        BY <2>2, <3>1
      <3>3. ExpSound(Units, exps[f].dirs, exps[f].manifest.external, run[f], work[f])
        BY <3>1 DEF SoundInv, Sound
      <3> QED BY <1>1, <3>2, <3>3 DEF Sound
    <2> QED BY <2>1, <2>2
  <1>4. FilesCounted'
    <2>1. ASSUME NEW f \in Existing' PROVE \A id \in DOMAIN exps'[f].dirs : Len(exps'[f].dirs[id].attempts) <= MaxAttempts
      <3>1. CASE f = e
        BY <3>1
      <3>2. CASE f # e
        BY <3>2 DEF SoundInv, FilesCounted
      <3> QED BY <3>1, <3>2
    <2> QED BY <2>1 DEF FilesCounted
  <1>5. ResultsKnown'
    <2>1. ASSUME NEW f \in Experiments
          PROVE  /\ run'[f].result # "partial"
                 /\ f \notin Existing' => run'[f].result = "none" /\ run'[f].terminal = {}
      <3>1. CASE f = e
        BY <3>1
      <3>2. CASE f # e
        BY <3>2 DEF SoundInv, ResultsKnown
      <3> QED BY <3>1, <3>2
    <2> QED BY <2>1 DEF ResultsKnown
  <1> QED BY <1>3, <1>4, <1>5 DEF SoundInv

\* A step that leaves experiments, runs and threads alone.
LEMMA NobodyMovesSoundly ==
  ASSUME SoundInv, BaseInv', UNCHANGED <<scenario, exps, run, work>>,
         budget' = budget \/ \E what : Spend(what)
  PROVE  SoundInv'
  <1>0. Existing' = Existing
    BY DEF Existing
  <1>1. DamagesCounted'
    BY <1>0, DamagesStay
  <1>2. Units' = Units
    BY SameUnits
  <1>3. \A f \in Existing' : Sound(f)'
    BY <1>0, <1>2 DEF SoundInv, Sound
  <1>4. FilesCounted' /\ ResultsKnown'
    BY <1>0 DEF SoundInv, FilesCounted, ResultsKnown
  <1> QED BY <1>1, <1>3, <1>4 DEF SoundInv

\* The files of one experiment as its types have them.
LEMMA SoundFiles ==
  ASSUME BaseInv, NEW e \in Existing
  PROVE  /\ e \in Experiments /\ scenario \in Scenarios
         /\ exps[e].dirs \in [CaseIds(scenario.dataset) -> CaseDir]
         /\ run[e] \in RunnerRow
         /\ \A u \in DOMAIN Units : work[e][u] \in WorkerRow
  BY ManifestFacts DEF BaseInv, RunnerTypeOK

\* A thread goes on and its files stay as they are.
LEMMA ThreadGoesOn ==
  ASSUME SoundInv, BaseInv', NEW e \in Existing, NEW u \in DOMAIN Units, run[e].pc = "on",
         UNCHANGED <<scenario, exps>>, budget' = budget \/ \E what : Spend(what),
         \A f \in Experiments : f # e => run'[f] = run[f],
         run'[e].result = run[e].result,
         NEW w, SetWork(e, u, w), w.pc # "off",
         Clean(exps[e].dirs) =>
            /\ run'[e] = run[e]
            /\ ThreadSound(Units[u], exps[e].dirs, exps[e].manifest.external, run[e], w)
  PROVE  SoundInv'
  <1>0. /\ e \in Experiments /\ scenario \in Scenarios /\ BaseInv
        /\ Existing' = Existing
    BY SoundFiles DEF SoundInv, Existing
  <1>1. /\ \A f \in Experiments : f # e => work'[f] = work[f]
        /\ work'[e] = [work[e] EXCEPT ![u] = w]
    BY <1>0 DEF SetWork, BaseInv, RunnerTypeOK
  <1>2. DOMAIN work[e] = DOMAIN Units
    BY <1>0 DEF BaseInv, RunnerTypeOK
  <1>3. work'[e][u] = w /\ \A v \in DOMAIN Units : v # u => work'[e][v] = work[e][v]
    BY <1>1, <1>2
  <1>4. ASSUME Clean(exps[e].dirs)
        PROVE  /\ \A id \in DOMAIN exps[e].dirs : DirSound(exps[e].dirs[id], exps[e].manifest.external)
               /\ \A v \in DOMAIN Units :
                     UnitSound(Units[v], exps[e].dirs, exps[e].manifest.external, run[e], work'[e][v])
               /\ RunSound(Units, exps[e].dirs, run[e], work'[e])
    <2>1. /\ \A id \in DOMAIN exps[e].dirs : DirSound(exps[e].dirs[id], exps[e].manifest.external)
          /\ \A v \in DOMAIN Units :
               UnitSound(Units[v], exps[e].dirs, exps[e].manifest.external, run[e], work[e][v])
          /\ RunSound(Units, exps[e].dirs, run[e], work[e])
      BY <1>4 DEF SoundInv, Sound, ExpSound
    <2>2. ASSUME NEW v \in DOMAIN Units
          PROVE  UnitSound(Units[v], exps[e].dirs, exps[e].manifest.external, run[e], work'[e][v])
      <3>1. CASE v = u
        BY <1>3, <1>4, <2>1, <3>1 DEF UnitSound
      <3>2. CASE v # u
        BY <1>3, <2>1, <3>2
      <3> QED BY <3>1, <3>2
    <2>3. \A v \in DOMAIN Units : UnitSettled(Units, exps[e].dirs, run[e], work'[e], v)
      <3>1. ASSUME NEW v \in DOMAIN Units PROVE UnitSettled(Units, exps[e].dirs, run[e], work'[e], v)
        <4>1. UnitSettled(Units, exps[e].dirs, run[e], work[e], v)
          BY <2>1 DEF RunSound
        <4>2. CASE v = u
          BY <1>3, <4>2 DEF UnitSettled
        <4>3. CASE v # u
          BY <1>3, <4>1, <4>3 DEF UnitSettled
        <4> QED BY <4>2, <4>3
      <3> QED BY <3>1
    <2>4. RunSound(Units, exps[e].dirs, run[e], work'[e])
      BY <2>1, <2>3 DEF RunSound
    <2> QED BY <2>1, <2>2, <2>4
  <1>5. ExpSound(Units, exps'[e].dirs, exps'[e].manifest.external, run'[e], work'[e])
    BY <1>4 DEF ExpSound
  <1>6. DamagesCounted'
    BY <1>0, DamagesStay
  <1>7. /\ \A id \in DOMAIN exps'[e].dirs : Len(exps'[e].dirs[id].attempts) <= MaxAttempts
        /\ run'[e].result # "partial"
    BY <1>0 DEF SoundInv, FilesCounted, ResultsKnown
  <1> QED BY <1>0, <1>1, <1>5, <1>6, <1>7, SoundMoves

-----------------------------------------------------------------------------
(* Stages.                                                                 *)

\* The attempt of a thread as its files have it.
InHand(e, u) ==
  AttemptSound(Units[u], exps[e].manifest.external, work[e][u],
               exps[e].dirs[Units[u][work[e][u].turn].id].attempts)

\* An attempt goes on to its next step.
LEMMA AttemptGoesOn ==
  ASSUME SoundInv, BaseInv', NEW e \in Experiments, NEW u \in DOMAIN Units, run[e].pc = "on",
         UNCHANGED <<scenario, exps, run>>, budget' = budget \/ \E what : Spend(what),
         work[e][u].pc \in Staged, NEW w, SetWork(e, u, w),
         w.pc \in {"stage", "call", "wait", "publish", "record"},
         w.turn = work[e][u].turn, w.state = work[e][u].state, w.runtime = work[e][u].runtime,
         w.number = work[e][u].number, w.mode = work[e][u].mode,
         InHand(e, u) =>
            /\ w.mode = "replay" => w.fresh = {}
            /\ w.pc \in Dispatched => w.mode # "replay"
            /\ w.pc = "record" => OutcomeSound(Units[u], exps[e].manifest.external, w)
  PROVE  SoundInv'
  <1>1. e \in Existing
    BY DEF SoundInv, BaseInv, RunnerTypeOK
  <1> DEFINE unit == Units[u]
             dirs == exps[e].dirs
             old == work[e][u]
             external == exps[e].manifest.external
  <1>2. ASSUME Clean(dirs) PROVE ThreadSound(unit, dirs, external, run[e], w)
    <2>1. ThreadSound(unit, dirs, external, run[e], old)
      BY <1>1, <1>2 DEF SoundInv, Sound, ExpSound, UnitSound
    <2>2. old.pc \notin {"off", "done", "mark", "queued", "retry", "turn"} /\ old.pc \in AtWork
      BY DEF Staged, Dispatched, AtWork
    <2>3. TurnKnown(unit, dirs, old) /\ AttemptSound(unit, external, old, dirs[unit[old.turn].id].attempts)
      BY <2>1, <2>2 DEF ThreadSound
    <2>4. TurnKnown(unit, dirs, w)
      BY <2>2, <2>3 DEF TurnKnown
    <2>5. AttemptSound(unit, external, w, dirs[unit[w.turn].id].attempts)
      BY <2>2, <2>3 DEF AttemptSound, InHand, BuiltFor
    <2>6. w.pc \notin {"raised", "done", "off", "queued", "retry", "turn"}
      OBVIOUS
    <2> HIDE DEF unit, dirs, old, external
    <2> QED BY <2>4, <2>5, <2>6 DEF ThreadSound
  <1> HIDE DEF unit, external
  <1>3. w.pc # "off"
    OBVIOUS
  <1> QED BY <1>1, <1>2, <1>3, ThreadGoesOn DEF unit, external

LEMMA AttemptOpens ==
  ASSUME SoundInv, BaseInv', NEW e \in Experiments, NEW u \in DOMAIN Units, run[e].pc = "on",
         UNCHANGED <<scenario, exps, run>>, budget' = budget \/ \E what : Spend(what),
         work[e][u].pc \in Staged, NEW pc \in {"stage", "call", "wait"}, Goto(e, u, pc),
         pc \in {"call", "wait"} => work[e][u].mode # "replay" \/ work[e][u].pc \in Dispatched
  PROVE  SoundInv'
  <1> DEFINE w == [work[e][u] EXCEPT !.pc = pc]
  <1>1. work[e][u] \in WorkerRow
    BY DEF SoundInv, BaseInv, RunnerTypeOK
  <1>2. pc \in WorkerPhases
    BY DEF WorkerPhases
  <1>3. /\ w.pc = pc /\ w.turn = work[e][u].turn /\ w.state = work[e][u].state
        /\ w.runtime = work[e][u].runtime /\ w.number = work[e][u].number
        /\ w.mode = work[e][u].mode /\ w.fresh = work[e][u].fresh
    BY <1>1, <1>2, RowPhase
  <1>4. SetWork(e, u, w)
    BY DEF Goto
  <1> HIDE DEF w
  <1>5. InHand(e, u) =>
            /\ w.mode = "replay" => w.fresh = {}
            /\ w.pc \in Dispatched => w.mode # "replay"
    BY <1>3 DEF InHand, AttemptSound, Dispatched
  <1>6. w.pc # "record"
    BY <1>3
  <1> QED BY <1>3, <1>4, <1>5, <1>6, AttemptGoesOn

LEMMA AttemptFails ==
  ASSUME SoundInv, BaseInv', NEW e \in Experiments, NEW u \in DOMAIN Units, run[e].pc = "on",
         UNCHANGED <<scenario, exps, run>>, budget' = budget \/ \E what : Spend(what),
         work[e][u].pc \in Staged, NEW error \in Errors, NEW retryable \in BOOLEAN,
         Fail(e, u, error, retryable),
         InHand(e, u) /\ exps[e].manifest.external => error # "executor_contract_error"
  PROVE  SoundInv'
  <1> DEFINE out == Failure(error, retryable)
             w == [work[e][u] EXCEPT !.pc = "record", !.out = out]
  <1>1. work[e][u] \in WorkerRow
    BY DEF SoundInv, BaseInv, RunnerTypeOK
  <1>2. out \in Outcome /\ out.status # "succeeded" /\ out.after = NoState /\ out.error = error
    BY DEF Failure, Outcome, AttemptStatuses, State
  <1>3. "record" \in WorkerPhases
    BY DEF WorkerPhases
  <1> HIDE DEF out
  <1>4. /\ w.pc = "record" /\ w.turn = work[e][u].turn /\ w.state = work[e][u].state
        /\ w.runtime = work[e][u].runtime /\ w.number = work[e][u].number
        /\ w.mode = work[e][u].mode /\ w.fresh = work[e][u].fresh /\ w.out = out
    BY <1>1 DEF WorkerRow
  <1>5. SetWork(e, u, w)
    BY DEF Fail, out
  <1> HIDE DEF w
  <1>6. w.pc = "record" /\ w.pc \notin Dispatched
    BY <1>4 DEF Dispatched
  <1>7. InHand(e, u) =>
            /\ w.mode = "replay" => w.fresh = {}
            /\ w.pc = "record" => OutcomeSound(Units[u], exps[e].manifest.external, w)
    BY <1>2, <1>4 DEF InHand, AttemptSound, OutcomeSound
  <1> QED BY <1>4, <1>5, <1>6, <1>7, AttemptGoesOn

-----------------------------------------------------------------------------
(* The stages of an attempt.                                               *)

LEMMA EnterCaseSound ==
  ASSUME SoundInv, BaseInv', NEW e \in Experiments, NEW u \in DOMAIN Units, EnterCase(e, u)
  PROVE  SoundInv'
  <1>1. /\ run[e].pc = "on" /\ work[e][u].pc = "begun" /\ work[e][u].pc \in Staged
        /\ UNCHANGED <<scenario, exps, run>> /\ budget' = budget
    BY DEF EnterCase, At, Staged
  <1>2. CASE run[e].stop
    <2>1. Fail(e, u, "controlled_interrupt", TRUE)
      BY <1>2 DEF EnterCase
    <2> QED BY <1>1, <2>1, AttemptFails DEF Errors
  <1>3. CASE ~run[e].stop /\ work[e][u].runtime.mode # work[e][u].mode
    <2>1. Fail(e, u, "executor_contract_error", FALSE)
      BY <1>3 DEF EnterCase
    <2>2. ~InHand(e, u)
      BY <1>1, <1>3 DEF InHand, AttemptSound, BuiltFor
    <2> QED BY <1>1, <2>1, <2>2, AttemptFails DEF Errors
  <1>4. CASE ~run[e].stop /\ work[e][u].runtime.mode = work[e][u].mode
    <2>1. Goto(e, u, "stage")
      BY <1>4 DEF EnterCase
    <2> QED BY <1>1, <2>1, AttemptOpens
  <1> QED BY <1>2, <1>3, <1>4

LEMMA CallSound ==
  ASSUME SoundInv, BaseInv', NEW e \in Experiments, NEW u \in DOMAIN Units,
         RequestCall(e, u) \/ CallStopped(e, u) \/ Dispatch(e, u) \/ ReplayMiss(e, u)
  PROVE  SoundInv'
  <1>1. CASE RequestCall(e, u)
    <2>1. /\ run[e].pc = "on" /\ work[e][u].pc = "stage" /\ work[e][u].pc \in Staged
          /\ UNCHANGED <<scenario, exps, run>> /\ budget' = budget
          /\ work[e][u].mode # "replay"
      BY <1>1 DEF RequestCall, Produces, At, Staged, Reads
    <2>2. CASE exps[e].manifest.external
      <3>1. Goto(e, u, "call")
        BY <1>1, <2>2 DEF RequestCall
      <3> QED BY <2>1, <3>1, AttemptOpens
    <2>3. CASE ~exps[e].manifest.external
      <3>1. Fail(e, u, "executor_contract_error", FALSE)
        BY <1>1, <2>3 DEF RequestCall
      <3> QED BY <2>1, <2>3, <3>1, AttemptFails DEF Errors
    <2> QED BY <2>2, <2>3
  <1>2. CASE CallStopped(e, u)
    <2>1. /\ run[e].pc = "on" /\ work[e][u].pc \in Staged
          /\ UNCHANGED <<scenario, exps, run>> /\ budget' = budget
          /\ Fail(e, u, "controlled_interrupt", TRUE)
      BY <1>2 DEF CallStopped, At, Staged, Dispatched
    <2> QED BY <2>1, AttemptFails DEF Errors
  <1>3. CASE Dispatch(e, u)
    <2>1. /\ run[e].pc = "on" /\ work[e][u].pc \in Staged /\ work[e][u].pc \in Dispatched
          /\ UNCHANGED <<scenario, exps, run>> /\ budget' = budget
          /\ Goto(e, u, "wait")
      BY <1>3 DEF Dispatch, At, Staged, Dispatched
    <2> QED BY <2>1, AttemptOpens
  <1>4. CASE ReplayMiss(e, u)
    <2>1. /\ run[e].pc = "on" /\ work[e][u].pc \in Staged
          /\ UNCHANGED <<scenario, exps, run>> /\ budget' = budget
          /\ Fail(e, u, "replay_cache_miss", FALSE)
      BY <1>4 DEF ReplayMiss, At, Staged
    <2> QED BY <2>1, AttemptFails DEF Errors
  <1> QED BY <1>1, <1>2, <1>3, <1>4

LEMMA AnswerSound ==
  ASSUME SoundInv, BaseInv', NEW e \in Experiments, NEW u \in DOMAIN Units, NEW answer \in Answers,
         Answer(e, u, answer)
  PROVE  SoundInv'
  <1> DEFINE w == [work[e][u] EXCEPT !.pc = "publish", !.answer = answer]
  <1>1. work[e][u] \in WorkerRow
    BY DEF SoundInv, BaseInv, RunnerTypeOK
  <1>2. /\ run[e].pc = "on" /\ work[e][u].pc \in Staged /\ work[e][u].pc \in Dispatched
        /\ UNCHANGED <<scenario, exps, run>> /\ budget' = budget /\ SetWork(e, u, w)
    BY DEF Answer, At, Staged, Dispatched
  <1>3. /\ w.pc = "publish" /\ w.turn = work[e][u].turn /\ w.state = work[e][u].state
        /\ w.runtime = work[e][u].runtime /\ w.number = work[e][u].number
        /\ w.mode = work[e][u].mode /\ w.fresh = work[e][u].fresh
    BY <1>1 DEF WorkerRow
  <1> HIDE DEF w
  <1>4. InHand(e, u) =>
            /\ w.mode = "replay" => w.fresh = {}
            /\ w.pc \in Dispatched => w.mode # "replay"
    BY <1>2, <1>3 DEF InHand, AttemptSound
  <1>5. w.pc # "record"
    BY <1>3
  <1> QED BY <1>2, <1>3, <1>4, <1>5, AttemptGoesOn

LEMMA ProviderFailsSound ==
  ASSUME SoundInv, BaseInv', NEW e \in Experiments, NEW u \in DOMAIN Units, NEW retryable \in BOOLEAN,
         ProviderFails(e, u, retryable)
  PROVE  SoundInv'
  <1>1. /\ run[e].pc = "on" /\ work[e][u].pc \in Staged
        /\ UNCHANGED <<scenario, exps, run>> /\ \E what : Spend(what)
        /\ Fail(e, u, "provider_failure", retryable)
    BY DEF ProviderFails, At, Staged, Dispatched
  <1> QED BY <1>1, AttemptFails DEF Errors

\* A stage value is taken over.
LEMMA UseSound ==
  ASSUME SoundInv, BaseInv', NEW e \in Experiments, NEW u \in DOMAIN Units, run[e].pc = "on",
         work[e][u].pc \in {"stage", "publish"}, UNCHANGED <<scenario, exps, run, budget>>,
         NEW value,
         \/ Use(e, u, value)
         \/ UseFresh(e, u, value) /\ (work[e][u].pc = "publish" \/ work[e][u].mode # "replay")
  PROVE  SoundInv'
  <1>1. work[e][u] \in WorkerRow
    BY DEF SoundInv, BaseInv, RunnerTypeOK
  <1>2. work[e][u].pc \in Staged
    BY DEF Staged, Dispatched
  <1>3. ASSUME NEW w, SetWork(e, u, w), w.pc = "stage",
               w.turn = work[e][u].turn, w.state = work[e][u].state, w.runtime = work[e][u].runtime,
               w.number = work[e][u].number, w.mode = work[e][u].mode,
               w.fresh = work[e][u].fresh \/ work[e][u].pc = "publish" \/ work[e][u].mode # "replay"
        PROVE  SoundInv'
    <2>1. InHand(e, u) => (w.mode = "replay" => w.fresh = {})
      BY <1>3 DEF InHand, AttemptSound, AtWork, Dispatched
    <2>2. w.pc \notin Dispatched /\ w.pc # "record"
      BY <1>3 DEF Dispatched
    <2> QED BY <1>2, <1>3, <2>1, <2>2, AttemptGoesOn
  <1>4. CASE Use(e, u, value)
    <2> DEFINE w == [work[e][u] EXCEPT !.pc = "stage", !.stage = @ + 1, !.vals = Append(@, value)]
    <2>1. SetWork(e, u, w)
      BY <1>4 DEF Use
    <2>2. /\ w.pc = "stage" /\ w.turn = work[e][u].turn /\ w.state = work[e][u].state
          /\ w.runtime = work[e][u].runtime /\ w.number = work[e][u].number
          /\ w.mode = work[e][u].mode /\ w.fresh = work[e][u].fresh
      BY <1>1 DEF WorkerRow
    <2> HIDE DEF w
    <2> QED BY <1>3, <2>1, <2>2
  <1>5. CASE UseFresh(e, u, value)
    <2> DEFINE w == [work[e][u] EXCEPT !.pc = "stage", !.stage = @ + 1, !.vals = Append(@, value),
                                       !.fresh = @ \cup {work[e][u].stage}]
    <2>1. SetWork(e, u, w)
      BY <1>5 DEF UseFresh
    <2>2. /\ w.pc = "stage" /\ w.turn = work[e][u].turn /\ w.state = work[e][u].state
          /\ w.runtime = work[e][u].runtime /\ w.number = work[e][u].number
          /\ w.mode = work[e][u].mode
      BY <1>1 DEF WorkerRow
    <2>3. CASE work[e][u].pc = "publish" \/ work[e][u].mode # "replay"
      <3> HIDE DEF w
      <3> QED BY <1>3, <2>1, <2>2, <2>3
    <2>4. CASE ~(work[e][u].pc = "publish" \/ work[e][u].mode # "replay")
      BY <1>4, <2>4
    <2> QED BY <2>3, <2>4
  <1> QED BY <1>4, <1>5

LEMMA StageHitSound ==
  ASSUME SoundInv, BaseInv', NEW e \in Experiments, NEW u \in DOMAIN Units, StageHit(e, u)
  PROVE  SoundInv'
  <1>1. /\ run[e].pc = "on" /\ work[e][u].pc = "stage" /\ work[e][u].pc \in Staged
        /\ UNCHANGED <<scenario, exps, run, budget>>
    BY DEF StageHit, At, Staged
  <1>2. CASE cache[StageKey(e, u)].intact
    <2>1. Use(e, u, cache[StageKey(e, u)].value)
      BY <1>2 DEF StageHit
    <2> QED BY <1>1, <2>1, UseSound
  <1>3. CASE ~cache[StageKey(e, u)].intact
    <2>1. Fail(e, u, "cache_corruption", FALSE)
      BY <1>3 DEF StageHit
    <2> QED BY <1>1, <2>1, AttemptFails DEF Errors
  <1> QED BY <1>2, <1>3

LEMMA SoundThread ==
  ASSUME SoundInv, NEW e \in Existing, NEW u \in DOMAIN Units, Clean(exps[e].dirs)
  PROVE  ThreadSound(Units[u], exps[e].dirs, exps[e].manifest.external, run[e], work[e][u])
  BY DEF SoundInv, Sound, ExpSound, UnitSound

\* A stage that lost its publication ends the thread where it stands.
LEMMA PublicationLost ==
  ASSUME SoundInv, BaseInv', NEW e \in Experiments, NEW u \in DOMAIN Units, run[e].pc = "on",
         work[e][u].pc = "publish", UNCHANGED <<scenario, exps, run, budget>>,
         Goto(e, u, "raised")
  PROVE  SoundInv'
  <1> DEFINE w == [work[e][u] EXCEPT !.pc = "raised"]
  <1>1. work[e][u] \in WorkerRow /\ e \in Existing
    BY DEF SoundInv, BaseInv, RunnerTypeOK
  <1>2. SetWork(e, u, w) /\ w.pc = "raised" /\ w.turn = work[e][u].turn /\ w.state = work[e][u].state
    BY <1>1 DEF Goto, WorkerRow
  <1>3. work[e][u].turn \in DOMAIN Units[u]
    BY <1>1, ThreadsStand DEF SoundInv, Stands, AtWork, Staged, Dispatched
  <1> HIDE DEF w
  <1>4. ASSUME Clean(exps[e].dirs)
        PROVE  ThreadSound(Units[u], exps[e].dirs, exps[e].manifest.external, run[e], w)
    <2>1. TurnKnown(Units[u], exps[e].dirs, work[e][u])
      BY <1>1, <1>4, SoundThread DEF ThreadSound
    <2>2. TurnKnown(Units[u], exps[e].dirs, w)
      BY <1>2, <2>1 DEF TurnKnown
    <2> QED BY <1>2, <1>3, <2>2 DEF ThreadSound, AtWork, Staged, Dispatched
  <1> QED BY <1>1, <1>2, <1>4, ThreadGoesOn

LEMMA StoreSound ==
  ASSUME SoundInv, BaseInv', NEW e \in Experiments, NEW u \in DOMAIN Units,
         LocalStage(e, u) \/ PublishStage(e, u)
  PROVE  SoundInv'
  <1>1. /\ run[e].pc = "on" /\ work[e][u].pc \in {"stage", "publish"}
        /\ work[e][u].pc \in Staged
        /\ UNCHANGED <<scenario, exps, run, budget>>
        /\ work[e][u].pc = "publish" \/ work[e][u].mode # "replay"
        /\ \E value : WriteImmutable(e, u, value)
    BY DEF LocalStage, PublishStage, Produces, At, Staged, Dispatched, Reads
  <1>2. PICK value : WriteImmutable(e, u, value)
    BY <1>1
  <1>3. \/ UseFresh(e, u, value)
        \/ Fail(e, u, "cache_corruption", FALSE) \/ Fail(e, u, "cache_conflict", FALSE)
        \/ work[e][u].pc = "publish" /\ Goto(e, u, "raised")
    BY <1>2 DEF WriteImmutable, FailPublication
  <1>4. CASE UseFresh(e, u, value)
    BY <1>1, <1>4, UseSound
  <1>5. CASE Fail(e, u, "cache_corruption", FALSE)
    BY <1>1, <1>5, AttemptFails DEF Errors
  <1>6. CASE Fail(e, u, "cache_conflict", FALSE)
    BY <1>1, <1>6, AttemptFails DEF Errors
  <1>7. CASE work[e][u].pc = "publish" /\ Goto(e, u, "raised")
    BY <1>1, <1>7, PublicationLost
  <1> QED BY <1>3, <1>4, <1>5, <1>6, <1>7

LEMMA SucceedCaseSound ==
  ASSUME SoundInv, BaseInv', NEW e \in Experiments, NEW u \in DOMAIN Units, SucceedCase(e, u)
  PROVE  SoundInv'
  <1> DEFINE out == [status |-> "succeeded", retryable |-> FALSE,
                     error |-> "none", after |-> StateAfter(e, u)]
             w == [work[e][u] EXCEPT !.pc = "record", !.out = out]
  <1>1. /\ run[e].pc = "on" /\ work[e][u].pc \in Staged
        /\ UNCHANGED <<scenario, exps, run, budget>> /\ SetWork(e, u, w)
    BY DEF SucceedCase, At, Staged
  <1>2. work[e][u] \in WorkerRow
    BY DEF SoundInv, BaseInv, RunnerTypeOK
  <1>3. /\ out.status = "succeeded" /\ out.error = "none" /\ out.after = StateAfter(e, u)
    OBVIOUS
  <1> HIDE DEF out
  <1>4. /\ w.pc = "record" /\ w.turn = work[e][u].turn /\ w.state = work[e][u].state
        /\ w.runtime = work[e][u].runtime /\ w.number = work[e][u].number
        /\ w.mode = work[e][u].mode /\ w.fresh = work[e][u].fresh /\ w.out = out
        /\ w.vals = work[e][u].vals
    BY <1>2 DEF WorkerRow
  <1> HIDE DEF w
  <1>5. StateAfter(e, u) = AfterSuccess(Units[u], w.runtime.memory, w.vals)
    BY <1>4 DEF StateAfter, AfterSuccess
  <1>6. OutcomeSound(Units[u], exps[e].manifest.external, w)
    BY <1>3, <1>4, <1>5 DEF OutcomeSound
  <1>7. w.pc \notin Dispatched
    BY <1>4 DEF Dispatched
  <1>8. InHand(e, u) => (w.mode = "replay" => w.fresh = {})
    BY <1>4 DEF InHand, AttemptSound
  <1> QED BY <1>1, <1>4, <1>6, <1>7, <1>8, AttemptGoesOn

-----------------------------------------------------------------------------
(* Attempts that begin.                                                    *)

LEMMA CountIsLen ==
  ASSUME NEW a \in Seq(AttemptFile)
  PROVE  /\ Len(a) \in Nat /\ DOMAIN a = 1 .. Len(a) /\ Cardinality(DOMAIN a) = Len(a)
         /\ \A k \in DOMAIN a : a[k] \in AttemptFile
         /\ a # <<>> => Len(a) \in DOMAIN a
  <1>1. Len(a) \in Nat /\ DOMAIN a = 1 .. Len(a) /\ \A k \in DOMAIN a : a[k] \in AttemptFile
    OBVIOUS
  <1>2. Cardinality(1 .. Len(a)) = Len(a)
    BY <1>1, FS_Interval
  <1>3. a # <<>> => Len(a) # 0
    OBVIOUS
  <1> QED BY <1>1, <1>2, <1>3

LEMMA AttemptsBounded == MaxAttempts \in Nat \ {0}
  BY ExperimentAssumption DEF MaxAttempts

LEMMA OpenHasRoom ==
  ASSUME NEW a \in Seq(AttemptFile), Open(a)
  PROVE  Len(a) \in Nat /\ Len(a) + 1 <= MaxAttempts
  <1>1. Len(a) \in Nat
    OBVIOUS
  <1> QED BY <1>1, AttemptsBounded DEF Open

\* What the runner has written reads back.
LEMMA ReadsBack ==
  ASSUME NEW d \in CaseDir, DirClean(d), NEW external, DirSound(d, external),
         Len(d.attempts) <= MaxAttempts
  PROVE  HistoryReads(d)
  <1> DEFINE a == d.attempts
  <1>1. a \in Seq(AttemptFile)
    BY DEF CaseDir
  <1>2. /\ Len(a) \in Nat /\ DOMAIN a = 1 .. Len(a) /\ Cardinality(DOMAIN a) = Len(a)
        /\ \A k \in DOMAIN a : a[k] \in AttemptFile
    BY <1>1, CountIsLen
  <1>3. \A k \in DOMAIN a : AttemptReads(a[k], k)
    BY <1>2 DEF AttemptReads, DirClean, DirSound, AttemptFile
  <1>4. \A k \in DOMAIN a : k < Len(a) => a[k].status # "succeeded"
    BY DEF DirSound
  <1>5. Succeeded(a) \subseteq {Len(a)}
    BY <1>2, <1>4 DEF Succeeded
  <1>6. NumberedFrom1(a)
    BY <1>2 DEF NumberedFrom1
  <1> QED BY <1>2, <1>3, <1>5, <1>6 DEF HistoryReads, DirClean

LEMMA FilesReadBack ==
  ASSUME SoundInv, NEW e \in Existing, Clean(exps[e].dirs), NEW id \in CaseIds(scenario.dataset)
  PROVE  /\ exps[e].dirs[id] \in CaseDir /\ exps[e].dirs[id].attempts \in Seq(AttemptFile)
         /\ DirClean(exps[e].dirs[id]) /\ DirSound(exps[e].dirs[id], exps[e].manifest.external)
         /\ Len(exps[e].dirs[id].attempts) <= MaxAttempts
         /\ HistoryReads(exps[e].dirs[id])
  <1>1. exps[e].dirs \in [CaseIds(scenario.dataset) -> CaseDir] /\ DOMAIN exps[e].dirs = CaseIds(scenario.dataset)
    BY SoundFiles DEF SoundInv
  <1>2. /\ exps[e].dirs[id] \in CaseDir
        /\ DirClean(exps[e].dirs[id]) /\ DirSound(exps[e].dirs[id], exps[e].manifest.external)
        /\ Len(exps[e].dirs[id].attempts) <= MaxAttempts
    BY <1>1 DEF SoundInv, Sound, ExpSound, Clean, FilesCounted
  <1>3. exps[e].dirs[id].attempts \in Seq(AttemptFile)
    BY <1>2 DEF CaseDir
  <1> QED BY <1>2, <1>3, ReadsBack

LEMMA TakeUnitSound ==
  ASSUME SoundInv, BaseInv', NEW e \in Experiments, NEW u \in DOMAIN Units, TakeUnit(e, u)
  PROVE  SoundInv'
  <1> DEFINE w == [work[e][u] EXCEPT !.pc = "turn"]
  <1>1. /\ run[e].pc = "on" /\ work[e][u].pc = "queued"
        /\ UNCHANGED <<scenario, exps, run, budget>> /\ SetWork(e, u, w)
    BY DEF TakeUnit, At, Goto
  <1>2. work[e][u] \in WorkerRow /\ e \in Existing
    BY <1>1 DEF SoundInv, BaseInv, RunnerTypeOK
  <1>3. w.pc = "turn" /\ w.turn = work[e][u].turn /\ w.state = work[e][u].state
        /\ w.runtime = work[e][u].runtime
    BY <1>2 DEF WorkerRow
  <1> HIDE DEF w
  <1>4. ASSUME Clean(exps[e].dirs)
        PROVE  ThreadSound(Units[u], exps[e].dirs, exps[e].manifest.external, run[e], w)
    <2>1. ThreadSound(Units[u], exps[e].dirs, exps[e].manifest.external, run[e], work[e][u])
      BY <1>2, <1>4, SoundThread
    <2>2. TurnKnown(Units[u], exps[e].dirs, work[e][u]) /\ w.runtime = NoRuntime
      BY <1>1, <1>3, <2>1 DEF ThreadSound
    <2>3. TurnKnown(Units[u], exps[e].dirs, w)
      BY <1>1, <1>3, <2>2 DEF TurnKnown
    <2> QED BY <1>3, <2>2, <2>3 DEF ThreadSound, AtWork, Staged, Dispatched
  <1> QED BY <1>1, <1>2, <1>3, <1>4, ThreadGoesOn

\* The runtime an attempt is made with.
RuntimeFor(old, mode) ==
  IF old.runtime = NoRuntime THEN NewRuntime(old.state, mode) ELSE old.runtime

LEMMA RuntimeMade ==
  ASSUME NEW unit, NEW old, NEW mode, IsSession(unit) => old.state # NoState,
         old.runtime # NoRuntime =>
            old.runtime.mode = mode /\ (IsSession(unit) => old.runtime.memory = old.state)
  PROVE  /\ RuntimeFor(old, mode).mode = mode
         /\ IsSession(unit) => RuntimeFor(old, mode).memory = old.state
  BY DEF NewRuntime, RuntimeFor

\* What a thread in front of an attempt knows.
LEMMA BeforeAttempt ==
  ASSUME NEW unit, NEW dirs, NEW external, NEW r, NEW old, old.pc \in {"turn", "retry"},
         old.turn <= Len(unit), ThreadSound(unit, dirs, external, r, old)
  PROVE  /\ TurnKnown(unit, dirs, old) /\ (IsSession(unit) => old.state # NoState)
         /\ old.runtime # NoRuntime =>
               /\ old.runtime.mode = r.mode /\ (IsSession(unit) => old.runtime.memory = old.state)
               /\ dirs[unit[old.turn].id].attempts = <<>>
  <1>1. TurnKnown(unit, dirs, old)
    BY DEF ThreadSound
  <1>2. IsSession(unit) => old.state # NoState
    BY <1>1, NothingIsNoFile DEF TurnKnown, NoState
  <1> QED BY <1>1, <1>2 DEF ThreadSound

LEMMA NewAttempt ==
  ASSUME NEW unit, NEW dirs, NEW external, NEW r, NEW old, old.pc \in {"turn", "retry"},
         TurnKnown(unit, dirs, old),
         NEW w, w.pc = "begun", w.turn = old.turn, w.state = old.state, w.fresh = {},
         w.number = Len(dirs[unit[old.turn].id].attempts) + 1,
         BuiltFor(w), IsSession(unit) => w.runtime.memory = w.state
  PROVE  ThreadSound(unit, dirs, external, r, w)
  <1> DEFINE a == dirs[unit[old.turn].id].attempts
  <1>2. TurnKnown(unit, dirs, w)
    BY DEF TurnKnown
  <1>5. AttemptSound(unit, external, w, a)
    BY DEF AttemptSound, Dispatched
  <1> HIDE DEF a
  <1> QED BY <1>2, <1>5 DEF ThreadSound, a

LEMMA BeginAttemptSound ==
  ASSUME SoundInv, BaseInv', NEW e \in Experiments, NEW u \in DOMAIN Units, run[e].pc = "on",
         UNCHANGED <<scenario, exps, budget>>,
         work[e][u].pc \in {"turn", "retry"}, work[e][u].turn \in DOMAIN Units[u], BeginAttempt(e, u)
  PROVE  SoundInv'
  <1> DEFINE old == work[e][u]
             id == Units[u][old.turn].id
             a == exps[e].dirs[id].attempts
  <1>1. /\ work[e][u] \in WorkerRow /\ e \in Existing /\ scenario \in Scenarios
        /\ run \in [Experiments -> RunnerRow]
    BY DEF SoundInv, BaseInv, RunnerTypeOK
  <1>2. id \in CaseIds(scenario.dataset) /\ DOMAIN Units[u] = 1 .. Len(Units[u]) /\ CurrentCase(e, u).id = id
    BY <1>1, UnitFacts DEF CurrentCase
  <1>3. ASSUME Clean(exps[e].dirs)
        PROVE  /\ HistoryReads(exps[e].dirs[id]) /\ Len(a) + 1 <= MaxAttempts
               /\ a \in Seq(AttemptFile)
               /\ ThreadSound(Units[u], exps[e].dirs, exps[e].manifest.external, run[e], old)
    <2>1. HistoryReads(exps[e].dirs[id]) /\ a \in Seq(AttemptFile)
      BY <1>1, <1>2, <1>3, FilesReadBack
    <2>2. ThreadSound(Units[u], exps[e].dirs, exps[e].manifest.external, run[e], old)
      BY <1>1, <1>3, SoundThread
    <2>3. TurnKnown(Units[u], exps[e].dirs, old)
      BY <2>2 DEF ThreadSound
    <2>4. Open(a)
      <3>1. old.turn <= Len(Units[u]) /\ old.pc # "mark"
        <4>1. Len(Units[u]) \in Nat
          BY <1>1, UnitFacts
        <4> QED BY <1>2, <4>1
      <3> QED BY <2>3, <3>1 DEF TurnKnown
    <2>5. Len(a) + 1 <= MaxAttempts
      <3> HIDE DEF a
      <3> QED BY <2>1, <2>4, OpenHasRoom
    <2> QED BY <2>1, <2>2, <2>5
  <1>4. CASE ~HistoryReads(exps[e].dirs[id])
    <2>1. Goto(e, u, "raised") /\ UNCHANGED run /\ ~Clean(exps[e].dirs)
      BY <1>2, <1>3, <1>4 DEF BeginAttempt
    <2> DEFINE w == [work[e][u] EXCEPT !.pc = "raised"]
    <2>2. SetWork(e, u, w) /\ w.pc # "off"
      BY <1>1, <2>1 DEF Goto, WorkerRow
    <2> HIDE DEF w
    <2> QED BY <1>1, <2>1, <2>2, ThreadGoesOn
  <1>5. CASE HistoryReads(exps[e].dirs[id]) /\ Len(a) + 1 > MaxAttempts
    <2>1. Goto(e, u, "done") /\ Terminate(e, u)
      BY <1>2, <1>5 DEF BeginAttempt
    <2>2. ~Clean(exps[e].dirs)
      <3>1. SUFFICES ASSUME Clean(exps[e].dirs) PROVE FALSE
        OBVIOUS
      <3>2. a \in Seq(AttemptFile) /\ Len(a) + 1 <= MaxAttempts
        BY <1>3, <3>1
      <3>3. \A s \in Seq(AttemptFile) : Len(s) \in Nat
        OBVIOUS
      <3>4. Len(a) \in Nat
        BY <3>2, <3>3
      <3> HIDE DEF a
      <3> QED BY <1>5, <3>2, <3>4, AttemptsBounded
    <2> DEFINE w == [work[e][u] EXCEPT !.pc = "done"]
    <2>3. SetWork(e, u, w) /\ w.pc # "off"
      BY <1>1, <2>1 DEF Goto, WorkerRow
    <2>4. /\ \A f \in Experiments : f # e => run'[f] = run[f]
          /\ run'[e].result = run[e].result
      BY <1>1, <2>1 DEF Terminate, SetRun, RunnerRow
    <2> HIDE DEF w
    <2> QED BY <1>1, <2>2, <2>3, <2>4, ThreadGoesOn
  <1>6. CASE HistoryReads(exps[e].dirs[id]) /\ ~(Len(a) + 1 > MaxAttempts)
    <2> DEFINE number == Len(a) + 1
               mode == AttemptMode(run[e].mode, number)
               w == [old EXCEPT !.pc = "begun", !.number = number, !.mode = mode,
                       !.runtime = IF @ = NoRuntime THEN NewRuntime(old.state, mode) ELSE @,
                       !.stage = 1, !.vals = <<>>, !.fresh = {}]
    <2>1. SetWork(e, u, w) /\ UNCHANGED run
      BY <1>2, <1>6 DEF BeginAttempt
    <2>2. /\ w.pc = "begun" /\ w.turn = old.turn /\ w.state = old.state /\ w.fresh = {}
          /\ w.number = number /\ w.mode = AttemptMode(run[e].mode, w.number)
          /\ w.runtime = RuntimeFor(old, w.mode)
      <3> HIDE DEF number
      <3>1. w.number = number /\ w.mode = mode
        BY <1>1 DEF WorkerRow
      <3> HIDE DEF mode
      <3>2. /\ w.pc = "begun" /\ w.turn = old.turn /\ w.state = old.state /\ w.fresh = {}
            /\ w.runtime = RuntimeFor(old, mode)
        BY <1>1 DEF WorkerRow, RuntimeFor
      <3> QED BY <3>1, <3>2 DEF mode
    <2> HIDE DEF w
    <2>3. ASSUME Clean(exps[e].dirs)
          PROVE  ThreadSound(Units[u], exps[e].dirs, exps[e].manifest.external, run[e], w)
      <3>1. a \in Seq(AttemptFile) /\ ThreadSound(Units[u], exps[e].dirs, exps[e].manifest.external, run[e], old)
        BY <1>3, <2>3
      <3>2. old.turn <= Len(Units[u])
        <4>1. Len(Units[u]) \in Nat
          BY <1>1, UnitFacts
        <4> QED BY <1>2, <4>1
      <3>3. old.pc \in {"turn", "retry"}
        OBVIOUS
      <3>4. /\ TurnKnown(Units[u], exps[e].dirs, old)
            /\ IsSession(Units[u]) => old.state # NoState
            /\ old.runtime # NoRuntime =>
                  /\ old.runtime.mode = run[e].mode
                  /\ IsSession(Units[u]) => old.runtime.memory = old.state
                  /\ a = <<>>
        BY <3>1, <3>2, <3>3, BeforeAttempt
      <3>5. old.runtime # NoRuntime => old.runtime.mode = mode
        BY <3>4 DEF AttemptMode
      <3>6. /\ RuntimeFor(old, mode).mode = mode
            /\ IsSession(Units[u]) => RuntimeFor(old, mode).memory = old.state
        <4> HIDE DEF old, mode
        <4> QED BY <3>4, <3>5, RuntimeMade
      <3>7. BuiltFor(w) /\ (IsSession(Units[u]) => w.runtime.memory = w.state)
        <4>1. w.mode = mode /\ w.runtime = RuntimeFor(old, mode) /\ w.state = old.state
          BY <2>2
        <4> HIDE DEF old, mode
        <4> QED BY <3>6, <4>1 DEF BuiltFor
      <3>8. w.number = Len(exps[e].dirs[Units[u][old.turn].id].attempts) + 1
        BY <2>2
      <3>9. w.pc = "begun" /\ w.turn = old.turn /\ w.state = old.state /\ w.fresh = {}
        BY <2>2
      <3> HIDE DEF old
      <3> QED BY <3>3, <3>4, <3>7, <3>8, <3>9, NewAttempt
    <2>4. w.pc # "off"
      BY <2>2
    <2> QED BY <1>1, <2>1, <2>3, <2>4, ThreadGoesOn
  <1> QED BY <1>4, <1>5, <1>6

LEMMA StartTurnSound ==
  ASSUME SoundInv, BaseInv', NEW e \in Experiments, NEW u \in DOMAIN Units,
         StartTurn(e, u) \/ RetryAttempt(e, u)
  PROVE  SoundInv'
  <1>1. /\ run[e].pc = "on" /\ work[e][u].pc \in {"turn", "retry"}
        /\ UNCHANGED <<scenario, exps, budget>>
    BY DEF StartTurn, RetryAttempt, At
  <1>2. work[e][u] \in WorkerRow /\ e \in Existing /\ scenario \in Scenarios /\ BaseInv
    BY <1>1 DEF SoundInv, BaseInv, RunnerTypeOK
  <1>3. /\ Len(Units[u]) \in Nat /\ DOMAIN Units[u] = 1 .. Len(Units[u])
        /\ Stands(Units[u], work[e][u])
    BY <1>2, UnitFacts, ThreadsStand
  <1>4. CASE StartTurn(e, u) /\ (run[e].stop \/ work[e][u].turn > Len(Units[u]))
    <2> DEFINE w == [work[e][u] EXCEPT !.pc = "done"]
    <2>1. SetWork(e, u, w) /\ UNCHANGED run /\ work[e][u].pc = "turn"
      BY <1>4 DEF StartTurn, At, Goto
    <2>2. w.pc = "done"
      BY <1>2 DEF WorkerRow
    <2>3. ASSUME Clean(exps[e].dirs)
          PROVE  ThreadSound(Units[u], exps[e].dirs, exps[e].manifest.external, run[e], w)
      <3>1. ThreadSound(Units[u], exps[e].dirs, exps[e].manifest.external, run[e], work[e][u])
        BY <1>2, <2>3, SoundThread
      <3>2. TurnKnown(Units[u], exps[e].dirs, work[e][u])
        BY <2>1, <3>1 DEF ThreadSound
      <3>3. run[e].stop \/ AllMarked(Units[u], exps[e].dirs)
        <4>1. CASE work[e][u].turn > Len(Units[u])
          <5>1. work[e][u].turn \in 1 .. Len(Units[u]) + 1
            BY <1>3, <2>1 DEF Stands
          <5>2. 1 .. work[e][u].turn - 1 = 1 .. Len(Units[u])
            BY <1>3, <4>1, <5>1
          <5> QED BY <1>3, <3>2, <5>2 DEF TurnKnown, AllMarked
        <4> QED BY <1>4, <4>1
      <3> HIDE DEF w
      <3> QED BY <2>2, <3>3 DEF ThreadSound, AtWork, Staged, Dispatched
    <2>4. w.pc # "off"
      BY <2>2
    <2> HIDE DEF w
    <2> QED BY <1>1, <1>2, <2>1, <2>3, <2>4, ThreadGoesOn
  <1>5. CASE ~(StartTurn(e, u) /\ (run[e].stop \/ work[e][u].turn > Len(Units[u])))
    <2>1. BeginAttempt(e, u)
      BY <1>5 DEF StartTurn, RetryAttempt
    <2>2. work[e][u].turn \in DOMAIN Units[u]
      <3>1. CASE RetryAttempt(e, u)
        BY <1>3, <3>1 DEF RetryAttempt, At, Stands
      <3>2. CASE StartTurn(e, u)
        <4>1. work[e][u].turn \in 1 .. Len(Units[u]) + 1
          BY <1>3, <3>2 DEF StartTurn, At, Stands
        <4>2. ~(work[e][u].turn > Len(Units[u]))
          BY <1>5, <3>2
        <4> QED BY <1>3, <4>1, <4>2
      <3> QED BY <3>1, <3>2
    <2> QED BY <1>1, <2>1, <2>2, BeginAttemptSound
  <1> QED BY <1>4, <1>5

-----------------------------------------------------------------------------
(* What a thread does to its own row and to the cache.                      *)

\* The stage a thread is at stays the one it is at.
SameStage(w, x) ==
  /\ x.turn = w.turn /\ x.stage = w.stage /\ x.mode = w.mode
  /\ x.runtime = w.runtime /\ x.vals = w.vals

\* The step of a thread that leaves a case by an exception of the store.
Broken(e, u) ==
  LET w == work[e][u]
      d == exps[e].dirs[CurrentCase(e, u).id]
  IN  \/ w.pc \in {"turn", "retry"} /\ w.turn \in DOMAIN Units[u] /\ ~HistoryReads(d)
      \/ w.pc = "record" /\ ~MayWriteAttempt(d, w.number, Payload(e, u))
      \/ w.pc = "mark" /\ ~MayMarkComplete(d, w.number)

\* The value the provider gave cannot be filed.
Loses(e, u) ==
  LET w == work[e][u] IN
  /\ w.pc = "publish" /\ w.mode = "cache" /\ Cached(StageKey(e, u))
  /\ ~cache[StageKey(e, u)].intact \/ cache[StageKey(e, u)].value # w.answer

Resting == {"off", "queued"}
Over == {"done", "raised"}

\* What a thread does to its row.
RowStep(e, u) ==
  LET w == work[e][u]
      x == work'[e][u]
  IN  /\ w.pc \notin Resting \cup Over \/ (/\ x.pc = "turn" /\ w.pc = "queued"
                                           /\ Cardinality(Working(e)) < exps[e].manifest.concurrency)
      /\ x.pc \in Dispatched =>
           /\ SameStage(w, x) /\ cache' = cache
           /\ w.pc \in Dispatched
              \/ (StageAt(e, u) \in Providers /\ (w.mode = "cache" => ~Cached(StageKey(e, u))))
      /\ x.pc = "raised" =>
           /\ SameStage(w, x) /\ cache' = cache /\ x.answer = w.answer
           /\ Loses(e, u) \/ Broken(e, u)
      /\ cache' # cache => w.pc \in {"stage", "publish"}

CacheFilled ==
  /\ \A k \in DOMAIN cache : k \in DOMAIN cache' /\ cache'[k] = cache[k]
  /\ \A k \in DOMAIN cache' : k \in DOMAIN cache \/ cache'[k].intact

SameRuns == \A f \in Experiments : run'[f].pc = run[f].pc /\ run'[f].result = run[f].result

OthersStay(e, u) ==
  \A f \in Experiments : \A v \in DOMAIN Units : f # e \/ v # u => work'[f][v] = work[f][v]

ThreadStep(e, u) ==
  /\ e \in Existing /\ scenario' = scenario /\ SameRuns /\ OthersStay(e, u)
  /\ Existing' = Existing /\ \A f \in Existing : exps'[f].manifest = exps[f].manifest
  /\ CacheFilled /\ RowStep(e, u)

LEMMA WorkMoves ==
  ASSUME RunnerTypeOK, NEW e \in Experiments, NEW u \in DOMAIN Units, NEW w, SetWork(e, u, w)
  PROVE  work'[e][u] = w /\ OthersStay(e, u)
  <1>1. /\ work \in [Experiments -> [DOMAIN Units -> WorkerRow]]
        /\ work' = [work EXCEPT ![e][u] = w]
    BY DEF RunnerTypeOK, SetWork
  <1>2. DOMAIN work = Experiments /\ \A f \in Experiments : DOMAIN work[f] = DOMAIN Units
    BY <1>1
  <1> QED BY <1>1, <1>2 DEF OthersStay

LEMMA CacheRests == ASSUME cache' = cache PROVE CacheFilled
  BY DEF CacheFilled

LEMMA RunsRest == ASSUME run' = run PROVE SameRuns
  BY DEF SameRuns

LEMMA FilesRest ==
  ASSUME exps' = exps PROVE Existing' = Existing /\ \A f \in Existing : exps'[f].manifest = exps[f].manifest
  BY DEF Existing

LEMMA DirMoves ==
  ASSUME NEW e \in Existing, NEW id, NEW dir, SetDir(e, id, dir)
  PROVE  Existing' = Existing /\ \A f \in Existing : exps'[f].manifest = exps[f].manifest
  BY DEF SetDir, Existing

LEMMA TerminatingKeepsRuns ==
  ASSUME RunnerTypeOK, NEW e \in Experiments, NEW u \in DOMAIN Units, Terminate(e, u)
  PROVE  SameRuns
  <1>1. run \in [Experiments -> RunnerRow]
    BY DEF RunnerTypeOK
  <1> QED BY <1>1 DEF Terminate, SetRun, SameRuns, RunnerRow

\* A step that leaves the cache alone and does not dispatch or raise.
LEMMA PlainStep ==
  ASSUME BaseInv, NEW e \in Experiments, NEW u \in DOMAIN Units, run[e].pc = "on",
         scenario' = scenario, SameRuns, CacheFilled,
         Existing' = Existing, \A f \in Existing : exps'[f].manifest = exps[f].manifest,
         NEW w, SetWork(e, u, w), w.pc \notin Dispatched \cup {"raised"},
         work[e][u].pc \notin Resting \cup Over,
         cache' # cache => work[e][u].pc \in {"stage", "publish"}
  PROVE  ThreadStep(e, u)
  <1>1. RunnerTypeOK /\ e \in Existing
    BY DEF BaseInv, RunnerTypeOK
  <1>2. work'[e][u] = w /\ OthersStay(e, u)
    BY <1>1, WorkMoves
  <1> QED BY <1>1, <1>2 DEF ThreadStep, RowStep

\* A step of pc alone.
LEMMA GotoStep ==
  ASSUME BaseInv, NEW e \in Experiments, NEW u \in DOMAIN Units, run[e].pc = "on",
         scenario' = scenario, SameRuns, cache' = cache,
         Existing' = Existing, \A f \in Existing : exps'[f].manifest = exps[f].manifest,
         NEW pc, Goto(e, u, pc),
         work[e][u].pc \notin Resting \cup Over,
         pc \in Dispatched =>
            work[e][u].pc \in Dispatched
            \/ (StageAt(e, u) \in Providers /\ (work[e][u].mode = "cache" => ~Cached(StageKey(e, u)))),
         pc = "raised" => Loses(e, u) \/ Broken(e, u)
  PROVE  ThreadStep(e, u)
  <1> DEFINE x == [work[e][u] EXCEPT !.pc = pc]
  <1>1. RunnerTypeOK /\ e \in Existing /\ work[e][u] \in WorkerRow
    BY DEF BaseInv, RunnerTypeOK
  <1>2. SetWork(e, u, x)
    BY DEF Goto
  <1>3. x.pc = pc /\ SameStage(work[e][u], x) /\ x.answer = work[e][u].answer
    BY <1>1 DEF WorkerRow, SameStage
  <1> HIDE DEF x
  <1>4. work'[e][u] = x /\ OthersStay(e, u) /\ CacheFilled
    BY <1>1, <1>2, WorkMoves, CacheRests
  <1>5. RowStep(e, u)
    BY <1>3, <1>4 DEF RowStep
  <1> QED BY <1>1, <1>4, <1>5 DEF ThreadStep

LEMMA FailStep ==
  ASSUME BaseInv, NEW e \in Experiments, NEW u \in DOMAIN Units, run[e].pc = "on",
         UNCHANGED <<scenario, exps, cache, run>>, NEW error, NEW retryable,
         work[e][u].pc \notin Resting \cup Over, Fail(e, u, error, retryable)
  PROVE  ThreadStep(e, u)
  <1> DEFINE x == [work[e][u] EXCEPT !.pc = "record", !.out = Failure(error, retryable)]
  <1>1. work[e][u] \in WorkerRow
    BY DEF BaseInv, RunnerTypeOK
  <1>2. SetWork(e, u, x) /\ x.pc = "record"
    BY <1>1 DEF Fail, WorkerRow
  <1> HIDE DEF x
  <1> QED BY <1>2, PlainStep, CacheRests, RunsRest, FilesRest DEF Dispatched

LEMMA TakeStep ==
  ASSUME BaseInv, NEW e \in Experiments, NEW u \in DOMAIN Units, TakeUnit(e, u)
  PROVE  ThreadStep(e, u)
  <1> DEFINE x == [work[e][u] EXCEPT !.pc = "turn"]
  <1>1. /\ run[e].pc = "on" /\ work[e][u].pc = "queued" /\ SetWork(e, u, x)
        /\ Cardinality(Working(e)) < exps[e].manifest.concurrency
        /\ UNCHANGED <<scenario, exps, cache, run>>
    BY DEF TakeUnit, At, Goto
  <1>2. RunnerTypeOK /\ e \in Existing /\ work[e][u] \in WorkerRow
    BY <1>1 DEF BaseInv, RunnerTypeOK
  <1>3. x.pc = "turn"
    BY <1>2 DEF WorkerRow
  <1> HIDE DEF x
  <1>4. work'[e][u] = x /\ OthersStay(e, u)
    BY <1>1, <1>2, WorkMoves
  <1>5. RowStep(e, u)
    BY <1>1, <1>3, <1>4 DEF RowStep, Dispatched
  <1> QED BY <1>1, <1>2, <1>4, <1>5, CacheRests, RunsRest, FilesRest DEF ThreadStep

LEMMA BeginStep ==
  ASSUME BaseInv, NEW e \in Experiments, NEW u \in DOMAIN Units,
         StartTurn(e, u) \/ RetryAttempt(e, u)
  PROVE  ThreadStep(e, u)
  <1>1. /\ run[e].pc = "on" /\ work[e][u].pc \in {"turn", "retry"}
        /\ UNCHANGED <<scenario, exps, cache>>
        /\ work[e][u].pc \notin Resting \cup Over
    BY DEF StartTurn, RetryAttempt, At, Resting, Over
  <1>2. RunnerTypeOK /\ e \in Existing /\ work[e][u] \in WorkerRow /\ scenario \in Scenarios
        /\ work[e][u].turn \in Nat
    BY <1>1 DEF BaseInv, RunnerTypeOK, WorkerRow
  <1>3. CASE Goto(e, u, "done") /\ UNCHANGED run
    BY <1>1, <1>3, GotoStep, RunsRest, FilesRest DEF Dispatched
  <1>4. ASSUME BeginAttempt(e, u), work[e][u].turn \in DOMAIN Units[u] PROVE ThreadStep(e, u)
    <2>1. CASE ~HistoryReads(exps[e].dirs[CurrentCase(e, u).id])
      <3>1. Goto(e, u, "raised") /\ UNCHANGED run /\ Broken(e, u)
        BY <1>1, <1>4, <2>1 DEF BeginAttempt, Broken
      <3> QED BY <1>1, <3>1, GotoStep, RunsRest, FilesRest DEF Dispatched
    <2>2. CASE Goto(e, u, "done") /\ Terminate(e, u)
      BY <1>1, <1>2, <2>2, GotoStep, TerminatingKeepsRuns, FilesRest DEF Dispatched
    <2>3. CASE \E w : SetWork(e, u, w) /\ w.pc = "begun" /\ UNCHANGED run
      BY <1>1, <2>3, PlainStep, CacheRests, RunsRest, FilesRest DEF Dispatched
    <2>4. \/ ~HistoryReads(exps[e].dirs[CurrentCase(e, u).id])
          \/ Goto(e, u, "done") /\ Terminate(e, u)
          \/ \E w : SetWork(e, u, w) /\ w.pc = "begun" /\ UNCHANGED run
      <3>1. SUFFICES ASSUME HistoryReads(exps[e].dirs[CurrentCase(e, u).id]),
                            ~(Goto(e, u, "done") /\ Terminate(e, u))
                     PROVE  \E w : SetWork(e, u, w) /\ w.pc = "begun" /\ UNCHANGED run
        OBVIOUS
      <3> DEFINE number == Len(exps[e].dirs[CurrentCase(e, u).id].attempts) + 1
                 mode == AttemptMode(run[e].mode, number)
                 x == [work[e][u] EXCEPT !.pc = "begun", !.number = number, !.mode = mode,
                             !.runtime = IF @ = NoRuntime THEN NewRuntime(work[e][u].state, mode) ELSE @,
                             !.stage = 1, !.vals = <<>>, !.fresh = {}]
      <3>2. SetWork(e, u, x) /\ UNCHANGED run
        BY <1>4, <3>1 DEF BeginAttempt
      <3>3. x.pc = "begun"
        BY <1>2 DEF WorkerRow
      <3> HIDE DEF x
      <3> QED BY <3>2, <3>3
    <2> QED BY <2>1, <2>2, <2>3, <2>4
  <1>5. CASE StartTurn(e, u)
    <2>1. CASE run[e].stop \/ work[e][u].turn > Len(Units[u])
      BY <1>3, <1>5, <2>1 DEF StartTurn
    <2>2. CASE ~(run[e].stop \/ work[e][u].turn > Len(Units[u]))
      <3>1. /\ work[e][u].turn \in 1 .. Len(Units[u]) + 1
            /\ Len(Units[u]) \in Nat /\ DOMAIN Units[u] = 1 .. Len(Units[u])
        BY <1>2, <1>5, UnitFacts, ThreadsStand DEF Stands, StartTurn, At
      <3>2. work[e][u].turn \in DOMAIN Units[u]
        BY <2>2, <3>1
      <3> QED BY <1>4, <1>5, <2>2, <3>2 DEF StartTurn
    <2> QED BY <2>1, <2>2
  <1>6. CASE RetryAttempt(e, u)
    <2>1. work[e][u].turn \in DOMAIN Units[u]
      BY <1>2, <1>6, ThreadsStand DEF Stands, RetryAttempt, At
    <2> QED BY <1>4, <1>6, <2>1 DEF RetryAttempt
  <1> QED BY <1>5, <1>6

\* Stages whose step leaves the cache alone.
LEMMA QuietStep ==
  ASSUME BaseInv, NEW e \in Experiments, NEW u \in DOMAIN Units,
         \/ EnterCase(e, u) \/ ReplayMiss(e, u) \/ RequestCall(e, u)
         \/ CallStopped(e, u) \/ Dispatch(e, u)
         \/ \E answer \in Answers : Answer(e, u, answer)
         \/ \E retryable \in BOOLEAN : ProviderFails(e, u, retryable)
  PROVE  ThreadStep(e, u)
  <1>1. /\ run[e].pc = "on" /\ UNCHANGED <<scenario, exps, cache, run>>
        /\ work[e][u].pc \in Staged /\ work[e][u].pc \notin Resting \cup Over
    BY DEF EnterCase, ReplayMiss, RequestCall, CallStopped, Dispatch, Answer, ProviderFails,
           Produces, At, Staged, Dispatched, Resting, Over
  <1>0. RunnerTypeOK /\ e \in Existing /\ work[e][u] \in WorkerRow
    BY <1>1 DEF BaseInv, RunnerTypeOK
  <1>2. ASSUME NEW error, NEW retryable, Fail(e, u, error, retryable) PROVE ThreadStep(e, u)
    BY <1>1, <1>2, FailStep
  <1>3. CASE EnterCase(e, u)
    <2>1. CASE Goto(e, u, "stage")
      BY <1>1, <2>1, GotoStep, RunsRest, FilesRest DEF Dispatched
    <2> QED BY <1>2, <1>3, <2>1 DEF EnterCase
  <1>4. CASE ReplayMiss(e, u)
    BY <1>2, <1>4 DEF ReplayMiss
  <1>5. CASE RequestCall(e, u)
    <2>1. CASE Goto(e, u, "call")
      <3>1. StageAt(e, u) \in Providers /\ (work[e][u].mode = "cache" => ~Cached(StageKey(e, u)))
        BY <1>5 DEF RequestCall, Produces, Reads
      <3> QED BY <1>1, <2>1, <3>1, GotoStep, RunsRest, FilesRest
    <2> QED BY <1>2, <1>5, <2>1 DEF RequestCall
  <1>6. CASE CallStopped(e, u)
    BY <1>2, <1>6 DEF CallStopped
  <1>7. CASE Dispatch(e, u)
    <2>1. Goto(e, u, "wait") /\ work[e][u].pc \in Dispatched
      BY <1>7 DEF Dispatch, At, Dispatched
    <2> QED BY <1>1, <2>1, GotoStep, RunsRest, FilesRest
  <1>8. ASSUME NEW answer \in Answers, Answer(e, u, answer) PROVE ThreadStep(e, u)
    <2> DEFINE x == [work[e][u] EXCEPT !.pc = "publish", !.answer = answer]
    <2>1. SetWork(e, u, x) /\ work[e][u].pc \in Dispatched
      BY <1>8 DEF Answer, At, Dispatched
    <2>2. x.pc = "publish" /\ SameStage(work[e][u], x)
      BY <1>0 DEF WorkerRow, SameStage
    <2> HIDE DEF x
    <2>3. work'[e][u] = x /\ OthersStay(e, u)
      BY <1>0, <2>1, WorkMoves
    <2>4. RowStep(e, u)
      BY <1>1, <2>1, <2>2, <2>3 DEF RowStep
    <2> QED BY <1>0, <1>1, <2>3, <2>4, CacheRests, RunsRest, FilesRest DEF ThreadStep
  <1>9. ASSUME NEW retryable \in BOOLEAN, ProviderFails(e, u, retryable) PROVE ThreadStep(e, u)
    BY <1>2, <1>9 DEF ProviderFails
  <1> QED BY <1>3, <1>4, <1>5, <1>6, <1>7, <1>8, <1>9

LEMMA UseStep ==
  ASSUME BaseInv, NEW e \in Experiments, NEW u \in DOMAIN Units, run[e].pc = "on",
         UNCHANGED <<scenario, exps, run>>, CacheFilled,
         work[e][u].pc \in {"stage", "publish"}, NEW value,
         Use(e, u, value) \/ UseFresh(e, u, value)
  PROVE  ThreadStep(e, u)
  <1>1. work[e][u] \in WorkerRow /\ work[e][u].pc \notin Resting \cup Over
    BY DEF BaseInv, RunnerTypeOK, Resting, Over
  <1>2. \E w : SetWork(e, u, w) /\ w.pc = "stage"
    <2>1. CASE Use(e, u, value)
      <3> DEFINE w == [work[e][u] EXCEPT !.pc = "stage", !.stage = @ + 1, !.vals = Append(@, value)]
      <3>1. SetWork(e, u, w) /\ w.pc = "stage"
        BY <1>1, <2>1 DEF Use, WorkerRow
      <3> HIDE DEF w
      <3> QED BY <3>1
    <2>2. CASE UseFresh(e, u, value)
      <3> DEFINE w == [work[e][u] EXCEPT !.pc = "stage", !.stage = @ + 1, !.vals = Append(@, value),
                                         !.fresh = @ \cup {work[e][u].stage}]
      <3>1. SetWork(e, u, w) /\ w.pc = "stage"
        BY <1>1, <2>2 DEF UseFresh, WorkerRow
      <3> HIDE DEF w
      <3> QED BY <3>1
    <2> QED BY <2>1, <2>2
  <1> QED BY <1>1, <1>2, PlainStep, RunsRest, FilesRest DEF Dispatched

LEMMA StoreStep ==
  ASSUME BaseInv, NEW e \in Experiments, NEW u \in DOMAIN Units,
         StageHit(e, u) \/ LocalStage(e, u) \/ PublishStage(e, u)
  PROVE  ThreadStep(e, u)
  <1>1. /\ run[e].pc = "on" /\ UNCHANGED <<scenario, exps, run>>
        /\ work[e][u].pc \in {"stage", "publish"} /\ work[e][u].pc \notin Resting \cup Over
        /\ StageHit(e, u) => UNCHANGED cache
    BY DEF StageHit, LocalStage, PublishStage, Produces, At, Resting, Over
  <1>2. CASE StageHit(e, u)
    BY <1>1, <1>2, UseStep, FailStep, CacheRests DEF StageHit
  <1>3. ASSUME NEW value, WriteImmutable(e, u, value),
               work[e][u].pc = "publish" => value = work[e][u].answer
        PROVE  ThreadStep(e, u)
    <2> DEFINE key == StageKey(e, u)
    <2>1. CASE ~Cached(key)
      <3>1. /\ cache' = [k \in DOMAIN cache \cup {key} |->
                         IF k = key THEN [value |-> value, intact |-> TRUE] ELSE cache[k]]
            /\ UseFresh(e, u, value) /\ key \notin DOMAIN cache
        BY <1>3, <2>1 DEF WriteImmutable, Cached
      <3> HIDE DEF key
      <3>2. CacheFilled
        BY <3>1 DEF CacheFilled
      <3> QED BY <1>1, <3>1, <3>2, UseStep
    <2>2. CASE Cached(key)
      <3>1. UNCHANGED cache
        BY <1>3, <2>2 DEF WriteImmutable
      <3>2. CASE UseFresh(e, u, value)
        BY <1>1, <3>1, <3>2, UseStep, CacheRests
      <3>3. ASSUME NEW error, FailPublication(e, u, error),
                   ~cache[key].intact \/ cache[key].value # value
            PROVE  ThreadStep(e, u)
        <4>1. CASE work[e][u].mode = "cache" /\ work[e][u].pc = "publish"
          <5>1. Goto(e, u, "raised") /\ Loses(e, u)
            BY <1>3, <2>2, <3>3, <4>1 DEF FailPublication, Loses
          <5> QED BY <1>1, <3>1, <5>1, GotoStep, RunsRest, FilesRest DEF Dispatched
        <4>2. CASE ~(work[e][u].mode = "cache" /\ work[e][u].pc = "publish")
          BY <1>1, <3>1, <3>3, <4>2, FailStep DEF FailPublication
        <4> QED BY <4>1, <4>2
      <3> QED BY <1>3, <2>2, <3>2, <3>3 DEF WriteImmutable
    <2> QED BY <2>1, <2>2
  <1>4. CASE LocalStage(e, u)
    BY <1>3, <1>4 DEF LocalStage, Produces, At
  <1>5. CASE PublishStage(e, u)
    BY <1>3, <1>5 DEF PublishStage
  <1> QED BY <1>2, <1>4, <1>5

LEMMA EndStep ==
  ASSUME BaseInv, NEW e \in Experiments, NEW u \in DOMAIN Units,
         SucceedCase(e, u) \/ RecordAttempt(e, u) \/ MarkCase(e, u)
  PROVE  ThreadStep(e, u)
  <1>1. /\ run[e].pc = "on" /\ UNCHANGED <<scenario, cache>>
        /\ work[e][u].pc \in {"stage", "record", "mark"} /\ work[e][u].pc \notin Resting \cup Over
    BY DEF SucceedCase, RecordAttempt, MarkCase, At, Resting, Over
  <1>2. RunnerTypeOK /\ e \in Existing /\ work[e][u] \in WorkerRow /\ run \in [Experiments -> RunnerRow]
    BY <1>1 DEF BaseInv, RunnerTypeOK
  <1> DEFINE w == work[e][u]
             id == CurrentCase(e, u).id
  <1>3. CASE SucceedCase(e, u)
    <2> DEFINE x == [w EXCEPT !.pc = "record",
                        !.out = [status |-> "succeeded", retryable |-> FALSE,
                                 error |-> "none", after |-> StateAfter(e, u)]]
    <2>1. SetWork(e, u, x) /\ x.pc = "record" /\ UNCHANGED <<exps, run>>
      BY <1>2, <1>3 DEF SucceedCase, WorkerRow
    <2> HIDE DEF x
    <2> QED BY <1>1, <2>1, PlainStep, CacheRests, RunsRest, FilesRest DEF Dispatched
  <1>4. CASE RecordAttempt(e, u)
    <2>1. CASE ~MayWriteAttempt(exps[e].dirs[id], w.number, Payload(e, u))
      <3>1. Goto(e, u, "raised") /\ UNCHANGED <<exps, run>> /\ Broken(e, u)
        BY <1>4, <2>1 DEF RecordAttempt, Broken, At
      <3> QED BY <1>1, <3>1, GotoStep, RunsRest, FilesRest DEF Dispatched
    <2>2. CASE MayWriteAttempt(exps[e].dirs[id], w.number, Payload(e, u))
      <3>1. /\ SetDir(e, id, WriteAttempt(exps[e].dirs[id], w.number, Payload(e, u)))
            /\ \/ Goto(e, u, "mark") /\ UNCHANGED run
               \/ AfterFailure(e, u)
        BY <1>4, <2>2 DEF RecordAttempt
      <3>2. Existing' = Existing /\ \A f \in Existing : exps'[f].manifest = exps[f].manifest
        BY <1>2, <3>1, DirMoves
      <3>3. CASE Goto(e, u, "mark") /\ UNCHANGED run
        BY <1>1, <3>2, <3>3, GotoStep, RunsRest DEF Dispatched
      <3>4. CASE AfterFailure(e, u)
        <4>1. SameRuns
          BY <1>2, <3>4, TerminatingKeepsRuns, RunsRest DEF AfterFailure
        <4>2. PICK pc \in {"done", "retry"} :
                SetWork(e, u, [w EXCEPT !.runtime = NoRuntime, !.pc = pc])
          BY <3>4 DEF AfterFailure
        <4> DEFINE x == [w EXCEPT !.runtime = NoRuntime, !.pc = pc]
        <4>3. SetWork(e, u, x) /\ x.pc = pc
          BY <1>2, <4>2 DEF WorkerRow
        <4> HIDE DEF x
        <4> QED BY <1>1, <3>2, <4>1, <4>3, PlainStep, CacheRests DEF Dispatched
      <3> QED BY <3>1, <3>3, <3>4
    <2> QED BY <2>1, <2>2
  <1>5. CASE MarkCase(e, u)
    <2>1. CASE ~MayMarkComplete(exps[e].dirs[id], w.number)
      <3>1. Goto(e, u, "raised") /\ UNCHANGED <<exps, run>> /\ Broken(e, u)
        BY <1>5, <2>1 DEF MarkCase, Broken, At
      <3> QED BY <1>1, <3>1, GotoStep, RunsRest, FilesRest DEF Dispatched
    <2>2. CASE MayMarkComplete(exps[e].dirs[id], w.number)
      <3> DEFINE kept == KeptRuntime(e, u)
                 stop == run[e].stop \/ (run[e].after > 0 /\ run[e].completed + 1 >= run[e].after)
                 x == [w EXCEPT !.pc = "turn", !.turn = @ + 1, !.state = w.out.after, !.runtime = kept]
                 r == [run[e] EXCEPT !.completed = @ + 1, !.stop = stop]
      <3>1. /\ SetDir(e, id, MarkComplete(exps[e].dirs[id], w.number))
            /\ SetWork(e, u, x) /\ SetRun(e, r)
        BY <1>5, <2>2 DEF MarkCase
      <3>2. Existing' = Existing /\ \A f \in Existing : exps'[f].manifest = exps[f].manifest
        BY <1>2, <3>1, DirMoves
      <3> HIDE DEF kept, stop
      <3>3. x.pc = "turn" /\ r.pc = run[e].pc /\ r.result = run[e].result
        BY <1>2 DEF WorkerRow, RunnerRow
      <3> HIDE DEF x, r
      <3>4. SameRuns
        BY <1>2, <3>1, <3>3 DEF SetRun, SameRuns
      <3> QED BY <1>1, <3>1, <3>2, <3>3, <3>4, PlainStep, CacheRests DEF Dispatched
    <2> QED BY <2>1, <2>2
  <1> QED BY <1>3, <1>4, <1>5

LEMMA ThreadSteps ==
  ASSUME BaseInv, NEW e \in Experiments, NEW u \in DOMAIN Units, UnitStep(e, u)
  PROVE  ThreadStep(e, u)
  BY TakeStep, BeginStep, QuietStep, StoreStep, EndStep DEF UnitStep
=============================================================================
