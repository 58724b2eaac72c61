--------------------------- MODULE LLMBudget_proofs ---------------------------
(***************************************************************************)
(* Proofs about the LLM budget ledger, for any meters, jobs, call cap,     *)
(* budget and amounts: every finished call has one usage row, charges are  *)
(* final, the months balance, the budget is kept, calls are serial and a   *)
(* deleted tenant's ledger stays empty.                                    *)
(***************************************************************************)
EXTENDS LLMBudget, FiniteSetTheorems, WellFoundedInduction, TLAPS

-----------------------------------------------------------------------------
(* Sums of numbers over finite sets.  MapThenSumSet adds up a set one          *)
(* arbitrary element after the other; the lemmas say that the order does not   *)
(* matter, and what a change of some of the numbers does to the sum.  They are *)
(* about all finite sets, so they are proved by considering a least            *)
(* counterexample.                                                             *)

Less == {pair \in Nat \X Nat : pair[1] < pair[2]}

\* A family of finite sets that is not empty has a member of least cardinality.
LEMMA LeastSet ==
    ASSUME NEW F, F # {}, \A S \in F : IsFiniteSet(S)
    PROVE  \E S \in F : \A T \in F : Cardinality(S) <= Cardinality(T)
<1> DEFINE sizes == {Cardinality(S) : S \in F}
<1>1. \A S \in F : Cardinality(S) \in Nat
  BY FS_CardinalityType
<1>2. sizes \subseteq Nat /\ sizes # {}
  BY <1>1
<1>3. OpToRel(<, Nat) = Less
  BY Zenon DEF OpToRel, Less
<1>4. IsWellFoundedOn(Less, Nat)
  BY <1>3, NatLessThanWellFounded
<1> HIDE DEF sizes
<1>5. PICK n \in sizes : \A m \in sizes : <<m, n>> \notin Less
  BY <1>2, <1>4, WFMin
<1>6. ASSUME NEW m \in sizes PROVE n <= m
  <2>1. m \in Nat /\ n \in Nat /\ <<m, n>> \in Nat \X Nat
    BY <1>2
  <2>2. ~(<<m, n>>[1] < <<m, n>>[2])
    BY <1>5, <2>1 DEF Less
  <2>3. QED
    BY <2>1, <2>2
<1>7. PICK S \in F : n = Cardinality(S)
  BY DEF sizes
<1>8. ASSUME NEW T \in F PROVE Cardinality(S) <= Cardinality(T)
  <2>1. Cardinality(T) \in sizes
    BY DEF sizes
  <2>2. QED
    BY <1>6, <1>7, <2>1
<1>9. QED
  BY <1>8

-----------------------------------------------------------------------------
\* The recursion MapThenSumSet computes, for the numbers v: g is the sum of each set of D.
Pick(s) == CHOOSE x \in s : TRUE
Adds(v, D, g) ==
    g = [s \in D |-> IF s = {} THEN 0 ELSE v[Pick(s)] + g[s \ {Pick(s)}]]

LEMMA PickIn == ASSUME NEW s, s # {} PROVE Pick(s) \in s
  BY DEF Pick

\* A set without its first element is a smaller one.
LEMMA Smaller ==
    ASSUME NEW s, IsFiniteSet(s), s # {}
    PROVE  /\ Cardinality(s) \in Nat /\ Cardinality(s \ {Pick(s)}) \in Nat
           /\ Cardinality(s \ {Pick(s)}) < Cardinality(s)
           /\ IsFiniteSet(s \ {Pick(s)})
<1>1. Pick(s) \in s
  BY PickIn
<1> DEFINE x == Pick(s)
<1> HIDE DEF x
<1>2. IsFiniteSet(s \ {x}) /\ Cardinality(s \ {x}) = Cardinality(s) - 1
  BY <1>1, FS_RemoveElement DEF x
<1>3. Cardinality(s) \in Nat /\ Cardinality(s \ {x}) \in Nat
  BY <1>2, FS_CardinalityType
<1>4. QED
  BY <1>2, <1>3 DEF x

\* Two sums agree on the sets both have.
LEMMA SumsAgree ==
    ASSUME NEW K, IsFiniteSet(K), NEW v, NEW g, Adds(v, SUBSET K, g),
           NEW S \in SUBSET K, NEW h, Adds(v, SUBSET S, h)
    PROVE  \A T \in SUBSET S : h[T] = g[T]
<1> DEFINE Bad == {T \in SUBSET S : h[T] # g[T]}
<1> SUFFICES ASSUME Bad # {} PROVE FALSE
  OBVIOUS
<1>1. \A T \in Bad : IsFiniteSet(T) /\ T \in SUBSET S /\ T \in SUBSET K
  BY FS_Subset
<1>2. PICK T \in Bad : \A U \in Bad : Cardinality(T) <= Cardinality(U)
  <2> HIDE DEF Bad
  <2>1. QED
    BY <1>1, LeastSet
<1>3. h[T] = (IF T = {} THEN 0 ELSE v[Pick(T)] + h[T \ {Pick(T)}])
  BY <1>1 DEF Adds
<1>4. g[T] = (IF T = {} THEN 0 ELSE v[Pick(T)] + g[T \ {Pick(T)}])
  BY <1>1 DEF Adds
<1>5. T # {}
  BY <1>3, <1>4
<1>6. T \ {Pick(T)} \notin Bad
  <2>1. /\ Cardinality(T) \in Nat /\ Cardinality(T \ {Pick(T)}) \in Nat
        /\ Cardinality(T \ {Pick(T)}) < Cardinality(T)
    BY <1>1, <1>5, Smaller
  <2> HIDE DEF Bad
  <2>2. QED
    BY <1>2, <2>1
<1>7. h[T \ {Pick(T)}] = g[T \ {Pick(T)}]
  BY <1>1, <1>6
<1>8. QED
  BY <1>3, <1>4, <1>5, <1>7

\* Every finite set has its sums: first those of its subsets up to n elements, for any n.
UpTo(K, n) == {T \in SUBSET K : Cardinality(T) <= n}

LEMMA SumsExtend ==
    ASSUME NEW K, IsFiniteSet(K), NEW v, NEW n \in Nat, NEW g, Adds(v, UpTo(K, n), g)
    PROVE  \E h : Adds(v, UpTo(K, n + 1), h)
<1> DEFINE h == [T \in UpTo(K, n + 1) |->
                   IF T \in UpTo(K, n) THEN g[T] ELSE v[Pick(T)] + g[T \ {Pick(T)}]]
<1>1. ASSUME NEW T \in UpTo(K, n + 1)
      PROVE  h[T] = (IF T = {} THEN 0 ELSE v[Pick(T)] + h[T \ {Pick(T)}])
  <2>1. T \in SUBSET K /\ IsFiniteSet(T) /\ Cardinality(T) \in Nat
    BY FS_Subset, FS_CardinalityType DEF UpTo
  <2>2. CASE T = {}
    <3>1. T \in UpTo(K, n)
      BY <2>2, FS_EmptySet DEF UpTo
    <3>2. g[T] = 0
      BY <2>2, <3>1 DEF Adds
    <3>3. QED
      BY <2>2, <3>1, <3>2
  <2>3. CASE T # {}
    <3> DEFINE U == T \ {Pick(T)}
    <3>1. /\ Cardinality(U) \in Nat /\ Cardinality(U) < Cardinality(T)
      BY <2>1, <2>3, Smaller
    <3>2. U \in UpTo(K, n) /\ U \in UpTo(K, n + 1)
      BY <2>1, <3>1 DEF UpTo
    <3>3. h[U] = g[U]
      BY <3>2
    <3>4. T \in UpTo(K, n) => g[T] = v[Pick(T)] + g[U]
      BY <2>3 DEF Adds
    <3>5. h[T] = v[Pick(T)] + g[U]
      BY <3>4
    <3>6. QED
      BY <2>3, <3>3, <3>5
  <2>4. QED
    BY <2>2, <2>3
<1>2. h = [T \in UpTo(K, n + 1) |-> IF T = {} THEN 0 ELSE v[Pick(T)] + h[T \ {Pick(T)}]]
  BY <1>1
<1> HIDE DEF h
<1>3. QED
  BY <1>2 DEF Adds

LEMMA SumsExist ==
    ASSUME NEW K, IsFiniteSet(K), NEW v
    PROVE  \E g : Adds(v, SUBSET K, g)
<1> DEFINE Has(n) == \E g : Adds(v, UpTo(K, n), g)
           Bad == {n \in Nat : ~Has(n)}
<1>1. Has(0)
  <2>1. UpTo(K, 0) = {{}}
    <3>1. \A T \in SUBSET K : IsFiniteSet(T) /\ Cardinality(T) \in Nat
      BY FS_Subset, FS_CardinalityType
    <3>2. \A T \in SUBSET K : Cardinality(T) <= 0 <=> T = {}
      BY <3>1, FS_EmptySet
    <3>3. QED
      BY <3>2 DEF UpTo
  <2>2. Adds(v, {{}}, [s \in {{}} |-> 0])
    BY DEF Adds
  <2>3. QED
    BY <2>1, <2>2
<1>2. ASSUME NEW n \in Nat, Has(n) PROVE Has(n + 1)
  BY <1>2, SumsExtend
<1>3. \A n \in Nat : Has(n)
  <2> SUFFICES ASSUME Bad # {} PROVE FALSE
    OBVIOUS
  <2>1. OpToRel(<, Nat) = Less
    BY Zenon DEF OpToRel, Less
  <2>2. IsWellFoundedOn(Less, Nat)
    BY <2>1, NatLessThanWellFounded
  <2>3. Bad \subseteq Nat
    OBVIOUS
  <2>4. PICK n \in Bad : \A m \in Bad : <<m, n>> \notin Less
    <3> HIDE DEF Bad
    <3>1. QED
      BY <2>2, <2>3, WFMin
  <2>5. n \in Nat /\ ~Has(n)
    OBVIOUS
  <2> HIDE DEF Has
  <2>6. n # 0
    BY <1>1, <2>5
  <2>7. n - 1 \in Nat /\ n = (n - 1) + 1
    BY <2>5, <2>6
  <2>8. <<n - 1, n>> \in Less
    BY <2>5, <2>7 DEF Less
  <2>9. Has(n - 1)
    BY <2>4, <2>7, <2>8
  <2>10. Has((n - 1) + 1)
    BY <1>2, <2>7, <2>9
  <2>11. QED
    BY <2>5, <2>7, <2>10
<1>4. UpTo(K, Cardinality(K)) = SUBSET K
  BY FS_Subset DEF UpTo
<1>5. Has(Cardinality(K))
  <2>1. Cardinality(K) \in Nat
    BY FS_CardinalityType
  <2> HIDE DEF Has
  <2>2. QED
    BY <1>3, <2>1
<1>6. QED
  BY <1>4, <1>5

-----------------------------------------------------------------------------
\* The sum of the numbers v over the subsets of K.
Totals(K, v) == CHOOSE g : Adds(v, SUBSET K, g)
Sum(K, v, S) == Totals(K, v)[S]

LEMMA SumUnfolds ==
    ASSUME NEW K, IsFiniteSet(K), NEW v, NEW S \in SUBSET K
    PROVE  Sum(K, v, S) = IF S = {} THEN 0 ELSE v[Pick(S)] + Sum(K, v, S \ {Pick(S)})
<1>1. Adds(v, SUBSET K, Totals(K, v))
  BY SumsExist DEF Totals
<1>2. QED
  BY <1>1 DEF Adds, Sum

\* It is what any other recursion over the subsets of S computes.
LEMMA SumIs ==
    ASSUME NEW K, IsFiniteSet(K), NEW v, NEW S \in SUBSET K, NEW h, Adds(v, SUBSET S, h)
    PROVE  h[S] = Sum(K, v, S)
<1>1. Adds(v, SUBSET K, Totals(K, v))
  BY SumsExist DEF Totals
<1>2. QED
  BY <1>1, SumsAgree DEF Sum

LEMMA SumIsNat ==
    ASSUME NEW K, IsFiniteSet(K), NEW v \in [K -> Nat]
    PROVE  \A S \in SUBSET K : Sum(K, v, S) \in Nat
<1> DEFINE Bad == {S \in SUBSET K : Sum(K, v, S) \notin Nat}
<1> SUFFICES ASSUME Bad # {} PROVE FALSE
  OBVIOUS
<1>1. \A S \in Bad : IsFiniteSet(S) /\ S \in SUBSET K
  BY FS_Subset
<1>2. PICK S \in Bad : \A U \in Bad : Cardinality(S) <= Cardinality(U)
  <2> HIDE DEF Bad
  <2>1. QED
    BY <1>1, LeastSet
<1>3. Sum(K, v, S) = IF S = {} THEN 0 ELSE v[Pick(S)] + Sum(K, v, S \ {Pick(S)})
  BY <1>1, SumUnfolds
<1>4. S # {} /\ Pick(S) \in K
  BY <1>1, <1>3, PickIn
<1>5. S \ {Pick(S)} \notin Bad
  <2>1. /\ Cardinality(S) \in Nat /\ Cardinality(S \ {Pick(S)}) \in Nat
        /\ Cardinality(S \ {Pick(S)}) < Cardinality(S)
    BY <1>1, <1>4, Smaller
  <2> HIDE DEF Bad
  <2>2. QED
    BY <1>2, <2>1
<1>6. Sum(K, v, S \ {Pick(S)}) \in Nat
  BY <1>1, <1>5
<1>7. v[Pick(S)] \in Nat
  BY <1>4
<1>8. v[Pick(S)] + Sum(K, v, S \ {Pick(S)}) \in Nat
  BY <1>6, <1>7
<1>9. QED
  BY <1>3, <1>4, <1>8

\* Any element may be added first.
LEMMA SumSplits ==
    ASSUME NEW K, IsFiniteSet(K), NEW v \in [K -> Nat]
    PROVE  \A S \in SUBSET K : \A y \in S : Sum(K, v, S) = v[y] + Sum(K, v, S \ {y})
<1> DEFINE Bad == {S \in SUBSET K : \E y \in S : Sum(K, v, S) # v[y] + Sum(K, v, S \ {y})}
<1> SUFFICES ASSUME Bad # {} PROVE FALSE
  OBVIOUS
<1>1. \A S \in Bad : IsFiniteSet(S) /\ S \in SUBSET K /\ S # {}
  BY FS_Subset
<1>2. PICK S \in Bad : \A U \in Bad : Cardinality(S) <= Cardinality(U)
  <2> HIDE DEF Bad
  <2>1. QED
    BY <1>1, LeastSet
<1> DEFINE x == Pick(S)
<1>3. x \in S
  BY <1>1, PickIn
<1>4. Sum(K, v, S) = v[x] + Sum(K, v, S \ {x})
  BY <1>1, SumUnfolds
<1>5. PICK y \in S : Sum(K, v, S) # v[y] + Sum(K, v, S \ {y})
  OBVIOUS
<1>6. S \in SUBSET K /\ x # y
  BY <1>1, <1>4, <1>5
<1>7. \A z \in S : S \ {z} \notin Bad
  <2>1. Cardinality(S) \in Nat /\ \A z \in S : Cardinality(S \ {z}) = Cardinality(S) - 1
    BY <1>1, FS_CardinalityType, FS_RemoveElement
  <2> HIDE DEF Bad
  <2>2. QED
    BY <1>2, <2>1
<1>8. \A z \in S, u \in S : u # z =>
         Sum(K, v, S \ {z}) = v[u] + Sum(K, v, (S \ {z}) \ {u})
  BY <1>6, <1>7
<1>9. /\ Sum(K, v, S \ {x}) = v[y] + Sum(K, v, (S \ {x}) \ {y})
      /\ Sum(K, v, S \ {y}) = v[x] + Sum(K, v, (S \ {y}) \ {x})
  BY <1>3, <1>6, <1>8
<1>10. (S \ {x}) \ {y} = (S \ {y}) \ {x}
  OBVIOUS
<1>11. v[x] \in Nat /\ v[y] \in Nat
  BY <1>3, <1>6
<1>12. Sum(K, v, (S \ {x}) \ {y}) \in Nat
  BY <1>6, SumIsNat
<1> HIDE DEF x
<1>13. QED
  BY <1>4, <1>5, <1>9, <1>10, <1>11, <1>12

LEMMA SumOfNone ==
    ASSUME NEW K, IsFiniteSet(K), NEW v
    PROVE  Sum(K, v, {}) = 0
  BY SumUnfolds

\* When the numbers of E, a part of S, grow by d, the sum of S grows by the sum of d over E.
LEMMA SumGrows ==
    ASSUME NEW K, IsFiniteSet(K), NEW v \in [K -> Nat], NEW d \in [K -> Nat], NEW w \in [K -> Nat],
           NEW S \in SUBSET K, NEW E \in SUBSET S,
           \A k \in E : w[k] = v[k] + d[k],
           \A k \in S \ E : w[k] = v[k]
    PROVE  Sum(K, w, S) = Sum(K, v, S) + Sum(K, d, E)
<1> DEFINE Law(T) == Sum(K, w, T) = Sum(K, v, T) + Sum(K, d, T \cap E)
           Bad == {T \in SUBSET S : ~Law(T)}
<1>1. ASSUME Bad # {} PROVE FALSE
  <2>1. \A T \in Bad : IsFiniteSet(T) /\ T \in SUBSET S /\ T \in SUBSET K
    BY FS_Subset
  <2>2. PICK T \in Bad : \A U \in Bad : Cardinality(T) <= Cardinality(U)
    <3> HIDE DEF Bad
    <3>1. QED
      BY <1>1, <2>1, LeastSet
  <2>3. T # {}
    <3>1. Law({})
      BY SumOfNone
    <3>2. QED
      BY <3>1
  <2> DEFINE x == Pick(T)
             U == T \ {x}
  <2>4. x \in T /\ x \in K
    BY <2>1, <2>3, PickIn
  <2>5. U \notin Bad
    <3>1. /\ Cardinality(T) \in Nat /\ Cardinality(U) \in Nat /\ Cardinality(U) < Cardinality(T)
      BY <2>1, <2>3, Smaller
    <3> HIDE DEF Bad
    <3>2. QED
      BY <2>2, <3>1
  <2>6. Sum(K, w, U) = Sum(K, v, U) + Sum(K, d, U \cap E)
    BY <2>1, <2>5
  <2>7. Sum(K, w, T) = w[x] + Sum(K, w, U) /\ Sum(K, v, T) = v[x] + Sum(K, v, U)
    BY <2>1, <2>4, SumSplits
  <2>8. /\ Sum(K, w, U) \in Nat /\ Sum(K, v, U) \in Nat /\ Sum(K, d, U \cap E) \in Nat
        /\ w[x] \in Nat /\ v[x] \in Nat /\ d[x] \in Nat
    BY <2>1, <2>4, SumIsNat
  <2>9. ~Law(T)
    OBVIOUS
  <2>10. CASE x \in E
    <3>1. T \cap E \in SUBSET K /\ x \in T \cap E /\ (T \cap E) \ {x} = U \cap E
      BY <2>1, <2>4, <2>10
    <3>2. Sum(K, d, T \cap E) = d[x] + Sum(K, d, U \cap E)
      BY <3>1, SumSplits
    <3>3. w[x] = v[x] + d[x]
      BY <2>10
    <3> HIDE DEF x, U
    <3>4. QED
      BY <2>6, <2>7, <2>8, <2>9, <3>2, <3>3
  <2>11. CASE x \notin E
    <3>1. T \cap E = U \cap E
      BY <2>11
    <3>2. w[x] = v[x]
      BY <2>1, <2>4, <2>11
    <3> HIDE DEF x, U
    <3>3. QED
      BY <2>6, <2>7, <2>8, <2>9, <3>1, <3>2
  <2>12. QED
    BY <2>10, <2>11
<1>2. Law(S)
  BY <1>1
<1>3. S \cap E = E
  OBVIOUS
<1> HIDE DEF Bad
<1>4. QED
  BY <1>2, <1>3

\* The numbers outside a set do not matter to its sum.
LEMMA SumOfSame ==
    ASSUME NEW K, IsFiniteSet(K), NEW v \in [K -> Nat], NEW w \in [K -> Nat],
           NEW S \in SUBSET K, \A k \in S : w[k] = v[k]
    PROVE  Sum(K, w, S) = Sum(K, v, S)
<1>1. Sum(K, w, S) = Sum(K, v, S) + Sum(K, v, {})
  BY SumGrows
<1>2. Sum(K, v, S) \in Nat /\ Sum(K, v, {}) = 0
  BY SumIsNat, SumOfNone
<1>3. QED
  BY <1>1, <1>2

LEMMA SumOfZeros ==
    ASSUME NEW K, IsFiniteSet(K), NEW v \in [K -> Nat], NEW S \in SUBSET K, \A k \in S : v[k] = 0
    PROVE  Sum(K, v, S) = 0
<1>1. Sum(K, v, S) = Sum(K, v, S) + Sum(K, v, S)
  <2>1. \A k \in S : v[k] = v[k] + v[k]
    OBVIOUS
  <2>2. QED
    BY <2>1, SumGrows
<1>2. Sum(K, v, S) \in Nat
  BY SumIsNat
<1>3. \A n \in Nat : n = n + n => n = 0
  OBVIOUS
<1>4. QED
  BY <1>1, <1>2, <1>3

\* An element that counted nothing gets a number, or joins or leaves the set.
LEMMA SumOfOneMore ==
    ASSUME NEW K, IsFiniteSet(K), NEW v \in [K -> Nat], NEW w \in [K -> Nat],
           NEW S \in SUBSET K, NEW T \in SUBSET K, NEW y \in K, S \ {y} = T \ {y},
           \A k \in K \ {y} : w[k] = v[k], y \in S => v[y] = 0
    PROVE  Sum(K, w, T) = Sum(K, v, S) + (IF y \in T THEN w[y] ELSE 0)
<1> DEFINE A == S \ {y}
<1>1. A \in SUBSET K /\ \A k \in A : w[k] = v[k]
  OBVIOUS
<1>2. Sum(K, w, A) = Sum(K, v, A)
  BY <1>1, SumOfSame
<1>3. Sum(K, v, S) = Sum(K, v, A)
  <2>1. CASE y \in S
    <3>1. Sum(K, v, S) = v[y] + Sum(K, v, A)
      BY <2>1, SumSplits
    <3>2. Sum(K, v, A) \in Nat /\ v[y] = 0
      BY <1>1, <2>1, SumIsNat
    <3>3. QED
      BY <3>1, <3>2
  <2>2. CASE y \notin S
    BY <2>2
  <2>3. QED
    BY <2>1, <2>2
<1>4. Sum(K, w, A) \in Nat /\ w[y] \in Nat
  BY <1>1, SumIsNat
<1>5. CASE y \in T
  <2>1. Sum(K, w, T) = w[y] + Sum(K, w, A)
    BY <1>5, SumSplits
  <2> HIDE DEF A
  <2>2. QED
    BY <1>2, <1>3, <1>4, <1>5, <2>1
<1>6. CASE y \notin T
  <2>1. T = A
    BY <1>6
  <2> HIDE DEF A
  <2>2. QED
    BY <1>2, <1>3, <1>4, <1>6, <2>1
<1>7. QED
  BY <1>5, <1>6

-----------------------------------------------------------------------------
\* The parts of the state the proofs speak of have their types.
RowsTyped ==
    /\ tenant \in BOOLEAN
    /\ month \in Months
    /\ calls \in [Keys -> Reservation]
    /\ meters \in [Meters -> Meter]

\* A row's usage follows its state: none before it ends, one once it is settled.
UsageFollowsState ==
    \A k \in Keys :
        /\ calls[k].state \in {"none", "reserved"} => calls[k].usage = 0
        /\ calls[k].state = "settled" => calls[k].usage = 1
        /\ calls[k].usage \in {0, 1}

\* A meter's calls so far: those behind it are recorded, the one on the wire is not yet,
\* and there is no row ahead of it.
Behind(m, n) == n < meters[m].made \/ (n = meters[m].made /\ meters[m].pc = "idle")
CallsFollowMeter ==
    \A m \in Meters :
        /\ meters[m].pc \in {"new", "bind", "release"} => meters[m].made = 0
        /\ \A n \in 1..CallCap :
              /\ n > meters[m].made => calls[<<m, n>>].state = "none"
              /\ tenant /\ n = meters[m].made /\ meters[m].pc = "calling"
                   => calls[<<m, n>>].state # "none" /\ calls[<<m, n>>].usage = 0
              /\ tenant /\ Behind(m, n) => calls[<<m, n>>].usage = 1

MadeWithinCap == \A m \in Meters : meters[m].pc = "calling" => meters[m].made \in 1..CallCap

LedgerInv == RowsTyped /\ UsageFollowsState /\ CallsFollowMeter /\ MadeWithinCap

-----------------------------------------------------------------------------
\* The number of recorded calls of a job is a number.
LEMMA UsageRowsType == ASSUME NEW j PROVE UsageRows(j) \in Nat
<1>1. IsFiniteSet(1..CallCap)
  BY FS_Interval, AmountAssumption
<1>2. IsFiniteSet(Keys)
  BY <1>1, FS_Product, MeterAssumption DEF Keys
<1>3. IsFiniteSet({k \in Keys : KeyJob(k) = j /\ calls[k].usage > 0})
  BY <1>2, FS_Subset
<1>4. QED
  BY <1>3, FS_CardinalityType DEF UsageRows

\* What recovery does to a row: nothing, or a reserved row ends and keeps its usage.
LEMMA RecoveredRows ==
    ASSUME NEW S, NEW T, Recovered(S, T), calls \in [Keys -> Reservation]
    PROVE  /\ calls' \in [Keys -> Reservation]
           /\ \A k \in Keys :
                \/ calls'[k] = calls[k]
                \/ /\ Reserved(k)
                   /\ calls'[k].state \in {"released", "expired"}
                   /\ calls'[k].usage = calls[k].usage
<1> DEFINE ends(k) == IF k \in StillReserved(S) THEN "expired"
                        ELSE IF k \in StillReserved(T) THEN "released"
                        ELSE "none"
<1> DEFINE Row(k) == IF ends(k) = "none" THEN calls[k]
                     ELSE [calls[k] EXCEPT !.state = ends(k), !.charge = calls[k].worst]
<1>1. calls' = [k \in Keys |-> Row(k)]
  BY Zenon DEF Recovered
<1>2. ASSUME NEW k \in Keys
      PROVE  /\ Row(k) \in Reservation
             /\ \/ Row(k) = calls[k]
                \/ /\ Reserved(k)
                   /\ Row(k).state \in {"released", "expired"}
                   /\ Row(k).usage = calls[k].usage
  <2>1. calls[k] \in Reservation
    OBVIOUS
  <2>2. ends(k) \in {"expired", "released", "none"}
    OBVIOUS
  <2>3. ends(k) # "none" => Reserved(k)
    BY DEF StillReserved
  <2> HIDE DEF ends
  <2>4. CASE ends(k) = "none"
    BY <2>1, <2>4
  <2>5. CASE ends(k) \in {"expired", "released"}
    BY <2>1, <2>3, <2>5 DEF Reservation, Ended
  <2>6. QED
    BY <2>2, <2>4, <2>5
<1> HIDE DEF Row
<1>3. QED
  BY <1>1, <1>2

-----------------------------------------------------------------------------
\* Most steps leave a row's usage alone and at most end it by recovery, and leave each
\* meter's calls where they are.
Quiet(k) ==
    /\ calls'[k].usage = calls[k].usage
    /\ \/ calls'[k].state = calls[k].state
       \/ Reserved(k) /\ calls'[k].state \in {"released", "expired"}
    /\ calls[k].state \in Ended => calls'[k].charge = calls[k].charge

SameCalls(m) ==
    /\ meters'[m].made = meters[m].made
    /\ meters'[m].pc = "calling" => meters[m].pc = "calling"
    /\ meters'[m].pc = "idle" => meters[m].pc = "idle" \/ meters[m].made = 0
    /\ meters'[m].pc \in {"new", "bind", "release"} => meters[m].pc \in {"new", "bind", "release"}

QuietStep == /\ tenant' = tenant
             /\ RowsTyped'
             /\ \A k \in Keys : Quiet(k)
             /\ \A m \in Meters : SameCalls(m)

LEMMA QuietStepKeepsInv ==
    ASSUME LedgerInv, QuietStep
    PROVE  LedgerInv'
<1> USE DEF LedgerInv, QuietStep
<1>1. UsageFollowsState'
  BY DEF UsageFollowsState, Quiet, Reserved
<1>2. ASSUME NEW m \in Meters
      PROVE  /\ meters'[m].pc \in {"new", "bind", "release"} => meters'[m].made = 0
             /\ meters'[m].pc = "calling" => meters'[m].made \in 1..CallCap
  BY <1>2 DEF SameCalls, CallsFollowMeter, MadeWithinCap
<1>3. ASSUME NEW m \in Meters, NEW n \in 1..CallCap
      PROVE  /\ n > meters'[m].made => calls'[<<m, n>>].state = "none"
             /\ tenant' /\ n = meters'[m].made /\ meters'[m].pc = "calling"
                  => calls'[<<m, n>>].state # "none" /\ calls'[<<m, n>>].usage = 0
             /\ tenant' /\ Behind(m, n)' => calls'[<<m, n>>].usage = 1
  <2>1. <<m, n>> \in Keys
    BY DEF Keys
  <2>2. Quiet(<<m, n>>) /\ SameCalls(m)
    BY <2>1
  <2>3. n \in Nat /\ n # 0
    BY AmountAssumption
  <2>4. Behind(m, n)' => Behind(m, n)
    BY <2>2, <2>3 DEF Behind, SameCalls
  <2>5. QED
    BY <2>2, <2>4 DEF Quiet, SameCalls, CallsFollowMeter, Reserved
<1>4. CallsFollowMeter'
  BY <1>2, <1>3 DEF CallsFollowMeter
<1>5. MadeWithinCap'
  BY <1>2 DEF MadeWithinCap
<1>6. QED
  BY <1>1, <1>4, <1>5

\* Rows that do not change, or that recovery ends, are quiet.
LEMMA UnchangedRowsQuiet ==
    ASSUME calls' = calls
    PROVE  \A k \in Keys : Quiet(k)
BY DEF Quiet

LEMMA RecoveredRowsQuiet ==
    ASSUME NEW S, NEW T, Recovered(S, T), calls \in [Keys -> Reservation]
    PROVE  calls' \in [Keys -> Reservation] /\ \A k \in Keys : Quiet(k)
<1>1. ASSUME NEW k \in Keys PROVE Reserved(k) => calls[k].state \notin Ended
  BY DEF Reserved, Ended
<1>2. QED
  BY RecoveredRows, <1>1, Zenon DEF Quiet

\* Steps of a meter that neither start nor end a call.
LEMMA SetPcQuiet ==
    ASSUME LedgerInv, NEW m \in Meters, NEW pc \in {"failed", "over"}, SetPc(m, pc)
    PROVE  meters' \in [Meters -> Meter] /\ \A q \in Meters : SameCalls(q)
BY DEF SetPc, SameCalls, LedgerInv, RowsTyped, Meter

LEMMA UnchangedMetersQuiet ==
    ASSUME meters' = meters
    PROVE  \A m \in Meters : SameCalls(m)
BY DEF SameCalls

LEMMA StartQuiet ==
    ASSUME LedgerInv, NEW m \in Meters, Start(m)
    PROVE  QuietStep
<1>1. meters' \in [Meters -> Meter] /\ \A q \in Meters : SameCalls(q)
  BY DEF Start, SetPc, SameCalls, LedgerInv, RowsTyped, Meter
<1>2. QED
  BY <1>1, UnchangedRowsQuiet DEF Start, QuietStep, LedgerInv, RowsTyped

LEMMA BindQuiet ==
    ASSUME LedgerInv, NEW m \in Meters, Bind(m) \/ ReleaseEarlier(m)
    PROVE  QuietStep
<1>1. /\ tenant' = tenant /\ month' = month
      /\ tenant \in BOOLEAN /\ month \in Months
      /\ calls \in [Keys -> Reservation] /\ meters \in [Meters -> Meter]
      /\ meters[m].made = 0 /\ meters[m].pc \in {"bind", "release"}
  BY DEF Bind, ReleaseEarlier, LedgerInv, RowsTyped, CallsFollowMeter
<1>2. ASSUME SetPc(m, "idle")
      PROVE  meters' \in [Meters -> Meter] /\ \A q \in Meters : SameCalls(q)
  BY <1>1, <1>2 DEF SetPc, SameCalls, Meter
<1>3. ASSUME NEW j, meters' = [meters EXCEPT ![m].pc = "release", ![m].prior = UsageRows(j)]
      PROVE  meters' \in [Meters -> Meter] /\ \A q \in Meters : SameCalls(q)
  <2>1. UsageRows(j) \in Nat
    BY UsageRowsType
  <2>2. QED
    BY <1>1, <1>3, <2>1 DEF SameCalls, Meter
<1>4. meters' \in [Meters -> Meter] /\ \A q \in Meters : SameCalls(q)
  BY <1>2, <1>3 DEF Bind, ReleaseEarlier
<1>5. calls' = calls \/ Recovered({}, ReservedFor(JobOf[m]))
  BY DEF Bind, ReleaseEarlier, ReleaseForJob
<1>6. calls' \in [Keys -> Reservation] /\ \A k \in Keys : Quiet(k)
  BY <1>1, <1>5, RecoveredRowsQuiet, UnchangedRowsQuiet
<1>7. QED
  BY <1>1, <1>4, <1>6 DEF QuietStep, RowsTyped

\* An attempt's end: its rows are kept or recovered.
LEMMA EndsQuiet ==
    ASSUME LedgerInv, NEW m \in Meters, Finish(m) \/ FailRun(m)
    PROVE  QuietStep
<1>1. /\ tenant' = tenant /\ month' = month
      /\ tenant \in BOOLEAN /\ month \in Months
      /\ calls \in [Keys -> Reservation]
      /\ SetPc(m, "over")
  BY DEF Finish, FailRun, LedgerInv, RowsTyped
<1>2. meters' \in [Meters -> Meter] /\ \A q \in Meters : SameCalls(q)
  BY <1>1, SetPcQuiet
<1>3. calls' = calls \/ Recovered({}, ReservedFor(JobOf[m]))
  BY DEF Finish, FailRun, ReleaseForJob
<1>4. calls' \in [Keys -> Reservation] /\ \A k \in Keys : Quiet(k)
  BY <1>1, <1>3, RecoveredRowsQuiet, UnchangedRowsQuiet
<1>5. QED
  BY <1>1, <1>2, <1>4 DEF QuietStep, RowsTyped

\* A call or a run that stops without a write.
LEMMA StopsQuiet ==
    ASSUME LedgerInv, NEW m \in Meters, SettleFails(m) \/ StopsCalling(m) \/ Crash(m)
    PROVE  QuietStep
<1>1. /\ tenant' = tenant /\ month' = month /\ calls' = calls
      /\ tenant \in BOOLEAN /\ month \in Months
      /\ calls \in [Keys -> Reservation]
      /\ SetPc(m, "failed") \/ SetPc(m, "over")
  BY DEF SettleFails, StopsCalling, Crash, LedgerInv, RowsTyped
<1>2. meters' \in [Meters -> Meter] /\ \A q \in Meters : SameCalls(q)
  BY <1>1, SetPcQuiet
<1>3. QED
  BY <1>1, <1>2, UnchangedRowsQuiet DEF QuietStep, RowsTyped

\* The job's own steps, and the sweep.
LEMMA JobStepsQuiet ==
    ASSUME LedgerInv,
           \/ \E j \in Jobs : LeaseLapses(j) \/ Heartbeat(j) \/ Recover(j) \/ CancelQueued(j)
           \/ SweepRead \/ SweepWrite
    PROVE  QuietStep
<1>1. /\ tenant' = tenant /\ month' = month /\ meters' = meters
      /\ tenant \in BOOLEAN /\ month \in Months
      /\ calls \in [Keys -> Reservation] /\ meters \in [Meters -> Meter]
  BY DEF LeaseLapses, Heartbeat, Recover, CancelQueued, SweepRead, SweepWrite, LedgerInv, RowsTyped
<1>2. calls' = calls \/ \E S, T : Recovered(S, T)
  <2>1. CASE \E j \in Jobs : Recover(j)
    BY <2>1 DEF Recover, ReleaseForJob
  <2>2. CASE SweepWrite
    BY <2>2 DEF SweepWrite
  <2>3. CASE SweepRead \/ \E j \in Jobs : LeaseLapses(j) \/ Heartbeat(j) \/ CancelQueued(j)
    BY <2>3 DEF SweepRead, LeaseLapses, Heartbeat, CancelQueued
  <2>4. QED
    BY <2>1, <2>2, <2>3
<1>3. calls' \in [Keys -> Reservation] /\ \A k \in Keys : Quiet(k)
  BY <1>1, <1>2, RecoveredRowsQuiet, UnchangedRowsQuiet
<1>4. QED
  BY <1>1, <1>3, UnchangedMetersQuiet DEF QuietStep, RowsTyped

\* The clock and the operator.
LEMMA ClockStepsQuiet ==
    ASSUME LedgerInv, NextMonth \/ \E k \in Keys : Expire(k) \/ Reconcile(k)
    PROVE  QuietStep
<1>1. /\ tenant' = tenant /\ meters' = meters /\ tenant \in BOOLEAN
      /\ month \in Months
      /\ calls \in [Keys -> Reservation] /\ meters \in [Meters -> Meter]
  BY DEF NextMonth, Expire, Reconcile, LedgerInv, RowsTyped
<1>2. month' \in Months
  BY <1>1, BoundsAssumption DEF NextMonth, Expire, Reconcile, Months
<1>3. calls' \in [Keys -> Reservation] /\ \A k \in Keys : Quiet(k)
  <2>1. CASE NextMonth
    BY <1>1, <2>1, UnchangedRowsQuiet DEF NextMonth
  <2>2. ASSUME NEW k \in Keys, Expire(k)
        PROVE  calls' \in [Keys -> Reservation] /\ \A l \in Keys : Quiet(l)
    <3>1. calls[k].age + 1 \in 0..2
      BY <1>1, <2>2 DEF Expire, Reservation
    <3>2. calls' = [calls EXCEPT ![k].age = calls[k].age + 1]
      BY <1>1, <2>2 DEF Expire
    <3>3. QED
      BY <1>1, <3>1, <3>2 DEF Quiet, Reservation
  <2>3. ASSUME NEW k \in Keys, Reconcile(k)
        PROVE  calls' \in [Keys -> Reservation] /\ \A l \in Keys : Quiet(l)
    BY <1>1, <2>3 DEF Reconcile, Quiet, Reservation, Admissions
  <2>4. QED
    BY <2>1, <2>2, <2>3
<1>4. QED
  BY <1>1, <1>2, <1>3, UnchangedMetersQuiet DEF QuietStep, RowsTyped

-----------------------------------------------------------------------------
\* The steps that start a call, end one, or remove the tenant.

\* A reservation is made for a call no row stands for yet.
LEMMA ReserveStep ==
    ASSUME LedgerInv, NEW m \in Meters, Reserve(m)
    PROVE  /\ LedgerInv'
           /\ \A k \in Keys : calls[k].state \in Ended => calls'[k] = calls[k]
<1> DEFINE n == meters[m].made + 1
<1> DEFINE key == <<m, n>>
<1>1. /\ tenant' = tenant /\ tenant \in BOOLEAN /\ month' = month /\ month \in Months
      /\ calls \in [Keys -> Reservation] /\ meters \in [Meters -> Meter]
      /\ meters[m].pc = "idle" /\ meters[m].prior + meters[m].made < CallCap
      /\ meters' = [meters EXCEPT ![m].pc = "calling", ![m].made = meters[m].made + 1]
  BY DEF Reserve, LedgerInv, RowsTyped
<1>2. PICK w \in Worsts : calls' = [calls EXCEPT ![key] = NewCall(m, w)]
  BY Zenon DEF Reserve
<1>3. meters[m].made \in Nat /\ meters[m].prior \in Nat
  BY <1>1 DEF Meter
<1>4. n \in 1..CallCap
  BY <1>1, <1>3, AmountAssumption
<1>5. key \in Keys
  BY <1>4 DEF Keys
<1>6. calls[key].state = "none"
  BY <1>3, <1>4 DEF LedgerInv, CallsFollowMeter
<1>7. /\ NewCall(m, w) \in Reservation
      /\ NewCall(m, w).state = "reserved" /\ NewCall(m, w).usage = 0
  <2>1. w \in Nat
    BY AmountAssumption
  <2>2. QED
    BY <1>1, <2>1 DEF NewCall, Reservation, Admissions, Unresolved
<1>8. /\ calls' \in [Keys -> Reservation]
      /\ calls'[key] = NewCall(m, w)
      /\ \A k \in Keys \ {key} : calls'[k] = calls[k]
  BY <1>1, <1>2, <1>5, <1>7
<1>9. /\ meters' \in [Meters -> Meter]
      /\ meters'[m].pc = "calling" /\ meters'[m].made = n
      /\ \A q \in Meters \ {m} : meters'[q] = meters[q]
  BY <1>1, <1>3, <1>4 DEF Meter
<1> HIDE DEF n, key
<1>10. RowsTyped'
  BY <1>1, <1>8, <1>9 DEF RowsTyped
<1>11. UsageFollowsState'
  BY <1>5, <1>7, <1>8 DEF UsageFollowsState, LedgerInv
<1>12. MadeWithinCap'
  BY <1>4, <1>9 DEF MadeWithinCap, LedgerInv
<1>13. CallsFollowMeter'
  <2>1. ASSUME NEW q \in Meters, q # m
        PROVE  /\ meters'[q].pc \in {"new", "bind", "release"} => meters'[q].made = 0
               /\ \A i \in 1..CallCap :
                     /\ i > meters'[q].made => calls'[<<q, i>>].state = "none"
                     /\ tenant' /\ i = meters'[q].made /\ meters'[q].pc = "calling"
                          => calls'[<<q, i>>].state # "none" /\ calls'[<<q, i>>].usage = 0
                     /\ tenant' /\ Behind(q, i)' => calls'[<<q, i>>].usage = 1
    <3>1. meters'[q] = meters[q]
      BY <1>9, <2>1
    <3>2. ASSUME NEW i \in 1..CallCap PROVE calls'[<<q, i>>] = calls[<<q, i>>]
      BY <1>8, <2>1 DEF Keys, key
    <3>3. meters[q].pc \in {"new", "bind", "release"} => meters[q].made = 0
      BY DEF LedgerInv, CallsFollowMeter
    <3>4. ASSUME NEW i \in 1..CallCap
          PROVE  /\ i > meters[q].made => calls[<<q, i>>].state = "none"
                 /\ tenant /\ i = meters[q].made /\ meters[q].pc = "calling"
                      => calls[<<q, i>>].state # "none" /\ calls[<<q, i>>].usage = 0
                 /\ tenant /\ Behind(q, i) => calls[<<q, i>>].usage = 1
      BY <3>4 DEF LedgerInv, CallsFollowMeter
    <3>5. \A i \in 1..CallCap : Behind(q, i)' <=> Behind(q, i)
      BY <3>1 DEF Behind
    <3>6. QED
      BY <1>1, <3>1, <3>2, <3>3, <3>4, <3>5
  <2>2. ASSUME NEW i \in 1..CallCap
        PROVE  /\ i > meters'[m].made => calls'[<<m, i>>].state = "none"
               /\ i = meters'[m].made
                    => calls'[<<m, i>>].state # "none" /\ calls'[<<m, i>>].usage = 0
               /\ tenant /\ Behind(m, i)' => calls'[<<m, i>>].usage = 1
    <3>1. i \in Nat
      BY AmountAssumption
    <3>2. CASE i = n
      <4>1. calls'[<<m, i>>] = NewCall(m, w)
        BY <1>8, <3>2 DEF key
      <4>2. ~Behind(m, i)'
        BY <1>9, <3>1, <3>2 DEF Behind
      <4>3. QED
        BY <1>7, <1>9, <3>1, <3>2, <4>1, <4>2
    <3>3. CASE i # n
      <4>1. calls'[<<m, i>>] = calls[<<m, i>>]
        BY <1>8, <3>3 DEF Keys, key
      <4>2. Behind(m, i)' => Behind(m, i)
        BY <1>1, <1>3, <1>9, <3>1 DEF Behind, n
      <4>3. i > n => i > meters[m].made
        BY <1>3, <3>1 DEF n
      <4>4. QED
        BY <1>9, <3>3, <4>1, <4>2, <4>3 DEF LedgerInv, CallsFollowMeter
    <3>4. QED
      BY <3>2, <3>3
  <2>3. QED
    BY <1>1, <1>9, <2>1, <2>2 DEF CallsFollowMeter
<1>14. QED
  BY <1>6, <1>8, <1>10, <1>11, <1>12, <1>13 DEF LedgerInv, Ended

\* A settlement records the call's usage once, whatever recovery did to the row.
LEMMA SettleStep ==
    ASSUME LedgerInv, NEW m \in Meters, Settle(m)
    PROVE  /\ LedgerInv'
           /\ \A k \in Keys : calls[k].state \in Ended => /\ calls'[k].state = calls[k].state
                                                          /\ calls'[k].charge = calls[k].charge
<1> DEFINE n == meters[m].made
<1> DEFINE key == <<m, n>>
<1>1. /\ tenant' = tenant /\ tenant \in BOOLEAN /\ month' = month /\ month \in Months
      /\ calls \in [Keys -> Reservation] /\ meters \in [Meters -> Meter]
      /\ meters[m].pc = "calling" /\ SetPc(m, "idle")
  BY DEF Settle, LedgerInv, RowsTyped
<1>2. n \in 1..CallCap /\ n \in Nat /\ key \in Keys
  BY <1>1, AmountAssumption DEF LedgerInv, MadeWithinCap, Keys
<1>3. /\ meters' \in [Meters -> Meter]
      /\ meters'[m].pc = "idle" /\ meters'[m].made = n
      /\ \A q \in Meters \ {m} : meters'[q] = meters[q]
  BY <1>1, <1>2 DEF SetPc, Meter
<1>4. PICK reported \in Reports \cup {calls[key].worst}, known \in BOOLEAN :
         SettleReserved(key, reported, known) \/ LateSettlement(key, reported, known)
            \/ OrphanedSettlement(key)
  BY DEF Settle
<1>5. calls[key] \in Reservation /\ EndOf(calls[key], known) \in Admissions
  BY <1>1, <1>2 DEF EndOf, Reservation, Admissions, Unresolved
<1>6. Charge(calls[key], reported) \in Nat
  BY <1>5, AmountAssumption DEF Charge, Cheaper, Reservation
<1> HIDE DEF key, n
<1>7. /\ calls' \in [Keys -> Reservation]
      /\ \A k \in Keys \ {key} : calls'[k] = calls[k]
      /\ calls[key].state = "none" => calls'[key] = calls[key]
      /\ calls[key].state = "reserved"
           => calls'[key].state = "settled" /\ calls'[key].usage = calls[key].usage + 1
      /\ calls[key].state \in {"released", "expired"}
           => /\ calls'[key].state = calls[key].state
              /\ calls'[key].charge = calls[key].charge
              /\ calls[key].usage = 0 /\ calls'[key].usage = 1
      /\ calls[key].state # "settled"
  <2>1. CASE SettleReserved(key, reported, known)
    <3> DEFINE row == [calls[key] EXCEPT !.state = "settled", !.usage = calls[key].usage + 1,
                                         !.charge = Charge(calls[key], reported),
                                         !.admission = EndOf(calls[key], known)]
    <3>1. Reserved(key) /\ calls' = [calls EXCEPT ![key] = row]
      BY <1>1, <1>2, <1>5, <2>1 DEF SettleReserved, Reservation
    <3>2. row \in Reservation /\ row.state = "settled" /\ row.usage = calls[key].usage + 1
      <4>1. calls[key].usage + 1 \in Nat
        BY <1>5 DEF Reservation
      <4>2. QED
        BY <1>5, <1>6, <4>1 DEF Reservation, Ended
    <3> HIDE DEF row
    <3>3. /\ calls' \in [Keys -> Reservation]
          /\ calls'[key] = row
          /\ \A k \in Keys \ {key} : calls'[k] = calls[k]
      BY <1>1, <1>2, <3>1, <3>2
    <3>4. calls[key].state = "reserved"
      BY <3>1 DEF Reserved
    <3>5. /\ calls[key].state \notin {"none", "settled", "released", "expired"}
          /\ calls'[key].state = "settled" /\ calls'[key].usage = calls[key].usage + 1
      BY <3>2, <3>3, <3>4
    <3>6. QED
      BY <3>3, <3>5
  <2>2. CASE LateSettlement(key, reported, known)
    <3>1. /\ calls[key].state \in {"released", "expired"} /\ calls[key].usage = 0
          /\ calls' = [calls EXCEPT ![key] = [calls[key] EXCEPT !.usage = calls[key].usage + 1,
                                                 !.admission = EndOf(calls[key], known)]]
      BY <1>1, <1>2, <2>2 DEF LateSettlement
    <3> DEFINE row == [calls[key] EXCEPT !.usage = 1, !.admission = EndOf(calls[key], known)]
    <3>2. calls' = [calls EXCEPT ![key] = row]
      BY <3>1
    <3>3. /\ row \in Reservation /\ row.usage = 1
          /\ row.state = calls[key].state /\ row.charge = calls[key].charge
      BY <1>5 DEF Reservation
    <3> HIDE DEF row
    <3>4. /\ calls' \in [Keys -> Reservation]
          /\ calls'[key] = row
          /\ \A k \in Keys \ {key} : calls'[k] = calls[k]
      BY <1>1, <1>2, <3>2, <3>3
    <3>5. QED
      BY <3>1, <3>3, <3>4
  <2>3. CASE OrphanedSettlement(key)
    BY <1>1, <2>3 DEF OrphanedSettlement
  <2>4. QED
    BY <1>4, <2>1, <2>2, <2>3
<1>8. calls[key].state \in {"none", "reserved", "settled", "released", "expired"}
  BY <1>5 DEF Reservation, Ended
<1>9. RowsTyped'
  BY <1>1, <1>3, <1>7 DEF RowsTyped
<1>10. UsageFollowsState'
  <2>1. ASSUME NEW k \in Keys, k # key
        PROVE  calls'[k] = calls[k]
    BY <1>7, <2>1
  <2>2. calls[key].state = "reserved" => calls'[key].usage = 1
    BY <1>2, <1>7 DEF LedgerInv, UsageFollowsState
  <2>3. QED
    BY <1>2, <1>7, <1>8, <2>1, <2>2 DEF LedgerInv, UsageFollowsState
<1>11. tenant => calls'[key].usage = 1
  <2>1. tenant => calls[key].state # "none"
    BY <1>1, <1>2 DEF LedgerInv, CallsFollowMeter, key, n
  <2>2. calls[key].state = "reserved" => calls[key].usage = 0
    BY <1>2 DEF LedgerInv, UsageFollowsState
  <2>3. QED
    BY <1>7, <1>8, <2>1, <2>2
<1>12. calls[key].state = "none" <=> calls'[key].state = "none"
  BY <1>7, <1>8
<1>13. CallsFollowMeter'
  <2>1. ASSUME NEW q \in Meters, q # m
        PROVE  /\ meters'[q].pc \in {"new", "bind", "release"} => meters'[q].made = 0
               /\ \A i \in 1..CallCap :
                     /\ i > meters'[q].made => calls'[<<q, i>>].state = "none"
                     /\ tenant' /\ i = meters'[q].made /\ meters'[q].pc = "calling"
                          => calls'[<<q, i>>].state # "none" /\ calls'[<<q, i>>].usage = 0
                     /\ tenant' /\ Behind(q, i)' => calls'[<<q, i>>].usage = 1
    <3>1. meters'[q] = meters[q]
      BY <1>3, <2>1
    <3>2. ASSUME NEW i \in 1..CallCap PROVE calls'[<<q, i>>] = calls[<<q, i>>]
      BY <1>7, <2>1 DEF Keys, key
    <3>3. meters[q].pc \in {"new", "bind", "release"} => meters[q].made = 0
      BY DEF LedgerInv, CallsFollowMeter
    <3>4. ASSUME NEW i \in 1..CallCap
          PROVE  /\ i > meters[q].made => calls[<<q, i>>].state = "none"
                 /\ tenant /\ i = meters[q].made /\ meters[q].pc = "calling"
                      => calls[<<q, i>>].state # "none" /\ calls[<<q, i>>].usage = 0
                 /\ tenant /\ Behind(q, i) => calls[<<q, i>>].usage = 1
      BY <3>4 DEF LedgerInv, CallsFollowMeter
    <3>5. \A i \in 1..CallCap : Behind(q, i)' <=> Behind(q, i)
      BY <3>1 DEF Behind
    <3>6. QED
      BY <1>1, <3>1, <3>2, <3>3, <3>4, <3>5
  <2>2. ASSUME NEW i \in 1..CallCap
        PROVE  /\ i > meters'[m].made => calls'[<<m, i>>].state = "none"
               /\ tenant /\ Behind(m, i)' => calls'[<<m, i>>].usage = 1
    <3>1. i \in Nat
      BY AmountAssumption
    <3>2. CASE i = n
      BY <1>2, <1>3, <1>11, <3>1, <3>2 DEF key
    <3>3. CASE i # n
      <4>1. calls'[<<m, i>>] = calls[<<m, i>>]
        BY <1>7, <3>3 DEF Keys, key
      <4>2. Behind(m, i)' => Behind(m, i)
        BY <1>3, <3>3 DEF Behind, n
      <4>3. QED
        BY <1>3, <4>1, <4>2 DEF LedgerInv, CallsFollowMeter, n
    <3>4. QED
      BY <3>2, <3>3
  <2>3. QED
    BY <1>1, <1>3, <2>1, <2>2 DEF CallsFollowMeter
<1>14. MadeWithinCap'
  BY <1>3 DEF MadeWithinCap, LedgerInv
<1>15. QED
  BY <1>7, <1>9, <1>10, <1>13, <1>14 DEF LedgerInv, Ended

\* Deleting the tenant leaves no row.
LEMMA DeleteTenantStep ==
    ASSUME LedgerInv, DeleteTenant
    PROVE  LedgerInv'
<1>1. /\ tenant' = FALSE /\ month' = month /\ meters' = meters
      /\ calls' = [k \in Keys |-> NoRow]
      /\ month \in Months /\ meters \in [Meters -> Meter]
  BY DEF DeleteTenant, LedgerInv, RowsTyped
<1>2. NoRow \in Reservation /\ NoRow.state = "none" /\ NoRow.usage = 0
  BY BoundsAssumption DEF NoRow, Reservation, Months, Admissions
<1>3. RowsTyped' /\ UsageFollowsState' /\ MadeWithinCap'
  BY <1>1, <1>2 DEF RowsTyped, UsageFollowsState, MadeWithinCap, LedgerInv
<1>4. \A m \in Meters, i \in 1..CallCap : calls'[<<m, i>>].state = "none"
  BY <1>1, <1>2 DEF Keys
<1>5. CallsFollowMeter'
  BY <1>1, <1>4 DEF CallsFollowMeter, LedgerInv
<1>6. QED
  BY <1>3, <1>5 DEF LedgerInv

\* Every step keeps the invariant, and no step touches an ended row's state and charge
\* while the tenant exists.
Final == tenant' => \A k \in Keys : calls[k].state \in Ended
                       => /\ calls'[k].state = calls[k].state
                          /\ calls'[k].charge = calls[k].charge

LEMMA QuietStepFinal ==
    ASSUME QuietStep
    PROVE  Final
<1>1. ASSUME NEW k \in Keys PROVE Reserved(k) => calls[k].state \notin Ended
  BY DEF Reserved, Ended
<1>2. QED
  BY <1>1 DEF QuietStep, Quiet, Final

\* The initial state.
LEMMA LedgerInit == Init => LedgerInv
<1> SUFFICES ASSUME Init PROVE LedgerInv
  OBVIOUS
<1>1. /\ tenant = TRUE /\ month = 1 /\ month \in Months
      /\ calls = [k \in Keys |-> NoRow]
      /\ meters = [m \in Meters |-> [pc |-> "new", made |-> 0, prior |-> 0]]
  BY BoundsAssumption DEF Init, Months
<1>2. NoRow \in Reservation /\ NoRow.state = "none" /\ NoRow.usage = 0
  BY BoundsAssumption DEF NoRow, Reservation, Months, Admissions
<1> HIDE DEF NoRow
<1>3. RowsTyped
  BY <1>1, <1>2 DEF RowsTyped, Meter
<1>4. UsageFollowsState
  BY <1>1, <1>2 DEF UsageFollowsState
<1>5. MadeWithinCap
  BY <1>1 DEF MadeWithinCap
<1>6. CallsFollowMeter
  <2>1. ASSUME NEW m \in Meters
        PROVE  meters[m].pc = "new" /\ meters[m].made = 0
    BY <1>1
  <2>2. ASSUME NEW m \in Meters, NEW n \in 1..CallCap
        PROVE  calls[<<m, n>>].state = "none" /\ ~Behind(m, n)
    <3>1. n \in Nat /\ n > 0
      BY AmountAssumption
    <3>2. QED
      BY <1>1, <1>2, <2>1, <3>1 DEF Keys, Behind
  <2>3. QED
    BY <2>1, <2>2 DEF CallsFollowMeter
<1>7. QED
  BY <1>3, <1>4, <1>5, <1>6 DEF LedgerInv

\* One case per action of Next.
LEMMA LedgerStep ==
    ASSUME LedgerInv, [Next]_vars
    PROVE  LedgerInv' /\ Final
<1>1. CASE QuietStep
  BY <1>1, QuietStepKeepsInv, QuietStepFinal
<1>2. ASSUME NEW m \in Meters, Start(m) \/ Bind(m) \/ ReleaseEarlier(m) \/ Finish(m) \/ FailRun(m)
                                 \/ SettleFails(m) \/ StopsCalling(m) \/ Crash(m)
      PROVE  QuietStep
  BY <1>2, StartQuiet, BindQuiet, EndsQuiet, StopsQuiet
<1>3. ASSUME NEW m \in Meters, Reserve(m)
      PROVE  LedgerInv' /\ Final
  BY <1>3, ReserveStep DEF Final
<1>4. ASSUME NEW m \in Meters, Settle(m)
      PROVE  LedgerInv' /\ Final
  BY <1>4, SettleStep DEF Final
<1>5. CASE DeleteTenant
  BY <1>5, DeleteTenantStep DEF Final, DeleteTenant
<1>6. CASE UNCHANGED vars
  BY <1>6 DEF vars, Final, LedgerInv, RowsTyped, UsageFollowsState, CallsFollowMeter,
              Behind, MadeWithinCap
<1>7. QED
  BY <1>1, <1>2, <1>3, <1>4, <1>5, <1>6, JobStepsQuiet, ClockStepsQuiet DEF Next, Work

-----------------------------------------------------------------------------
\* The ledger's inductive invariant holds.
LEMMA LedgerInvariant == Spec => []LedgerInv
<1>1. LedgerInv /\ [Next]_vars => LedgerInv'
  BY LedgerStep
<1>2. QED
  BY LedgerInit, <1>1, PTL DEF Spec

\* A finished call has exactly one usage row, whichever of its settlement and recovery
\* (release_for_job, the sweep) came first.
THEOREM EveryCallRecorded == Spec => []UsageRecorded
<1>1. LedgerInv => UsageRecorded
  <2>1. ASSUME LedgerInv, NEW m \in Meters, NEW n \in 1..CallCap
        PROVE  /\ calls[<<m, n>>].usage <= 1
               /\ tenant /\ Behind(m, n) => calls[<<m, n>>].usage = 1
    <3>1. <<m, n>> \in Keys
      BY DEF Keys
    <3>2. calls[<<m, n>>].usage \in {0, 1}
      BY <2>1, <3>1 DEF LedgerInv, UsageFollowsState
    <3>3. QED
      BY <2>1, <3>2 DEF LedgerInv, CallsFollowMeter
  <2>2. QED
    BY <2>1 DEF UsageRecorded, Behind
<1>2. QED
  BY LedgerInvariant, <1>1, PTL

\* The charge a settlement or a recovery recorded is never changed by the other.
THEOREM ChargesNeverChange == Spec => ChargesAreFinal
<1>1. LedgerInv /\ [Next]_vars
        => [\A k \in Keys : tenant' /\ calls[k].state \in Ended
                => /\ calls'[k].state = calls[k].state
                   /\ calls'[k].charge = calls[k].charge]_vars
  BY LedgerStep DEF Final
<1>2. QED
  BY LedgerInvariant, <1>1, PTL DEF Spec, ChargesAreFinal

-----------------------------------------------------------------------------
\* The money.  The ledger's sums are those of the lemmas about sums.
Worst == [k \in Keys |-> calls[k].worst]
Charged == [k \in Keys |-> calls[k].charge]
RowsOf(p) == {k \in Keys : calls[k].month = p}

LEMMA KeysFinite == IsFiniteSet(Keys)
<1>1. IsFiniteSet(1..CallCap)
  BY FS_Interval, AmountAssumption
<1>2. QED
  BY <1>1, FS_Product, MeterAssumption DEF Keys

LEMMA WorstSum ==
    ASSUME NEW f, NEW S \in SUBSET Keys
    PROVE  MapThenSumSet(LAMBDA k : f[k].worst, S) = Sum(Keys, [k \in Keys |-> f[k].worst], S)
<1> DEFINE v == [k \in Keys |-> f[k].worst]
           body(g) == [s \in SUBSET S |->
              IF s = {} THEN 0
              ELSE f[CHOOSE x \in s : TRUE].worst + g[s \ {CHOOSE x \in s : TRUE}]]
           iter == CHOOSE g : g = body(g)
<1>1. MapThenSumSet(LAMBDA k : f[k].worst, S) = iter[S]
  BY Zenon DEF MapThenSumSet, MapThenFoldSet
<1>2. ASSUME NEW s \in SUBSET S, s # {} PROVE v[Pick(s)] = f[CHOOSE x \in s : TRUE].worst
  <2>1. Pick(s) \in Keys
    BY <1>2, PickIn
  <2>2. QED
    BY <2>1 DEF Pick
<1>3. ASSUME NEW h PROVE (h = body(h)) <=> Adds(v, SUBSET S, h)
  <2>1. body(h) = [s \in SUBSET S |-> IF s = {} THEN 0 ELSE v[Pick(s)] + h[s \ {Pick(s)}]]
    BY <1>2 DEF Pick
  <2>2. QED
    BY <2>1 DEF Adds
<1>4. PICK h : Adds(v, SUBSET S, h)
  BY SumsExist, KeysFinite, FS_Subset
<1>5. iter = body(iter)
  <2>1. h = body(h)
    BY <1>3, <1>4
  <2>2. \E g : g = body(g)
    BY <2>1
  <2>3. QED
    BY <2>2
<1>6. Adds(v, SUBSET S, iter)
  BY <1>3, <1>5
<1> HIDE DEF iter, v
<1>7. iter[S] = Sum(Keys, v, S)
  BY <1>6, KeysFinite, SumIs
<1>8. QED
  BY <1>1, <1>7 DEF v

LEMMA ChargeSum ==
    ASSUME NEW f, NEW S \in SUBSET Keys
    PROVE  MapThenSumSet(LAMBDA k : f[k].charge, S) = Sum(Keys, [k \in Keys |-> f[k].charge], S)
<1> DEFINE v == [k \in Keys |-> f[k].charge]
           body(g) == [s \in SUBSET S |->
              IF s = {} THEN 0
              ELSE f[CHOOSE x \in s : TRUE].charge + g[s \ {CHOOSE x \in s : TRUE}]]
           iter == CHOOSE g : g = body(g)
<1>1. MapThenSumSet(LAMBDA k : f[k].charge, S) = iter[S]
  BY Zenon DEF MapThenSumSet, MapThenFoldSet
<1>2. ASSUME NEW s \in SUBSET S, s # {} PROVE v[Pick(s)] = f[CHOOSE x \in s : TRUE].charge
  <2>1. Pick(s) \in Keys
    BY <1>2, PickIn
  <2>2. QED
    BY <2>1 DEF Pick
<1>3. ASSUME NEW h PROVE (h = body(h)) <=> Adds(v, SUBSET S, h)
  <2>1. body(h) = [s \in SUBSET S |-> IF s = {} THEN 0 ELSE v[Pick(s)] + h[s \ {Pick(s)}]]
    BY <1>2 DEF Pick
  <2>2. QED
    BY <2>1 DEF Adds
<1>4. PICK h : Adds(v, SUBSET S, h)
  BY SumsExist, KeysFinite, FS_Subset
<1>5. iter = body(iter)
  <2>1. h = body(h)
    BY <1>3, <1>4
  <2>2. \E g : g = body(g)
    BY <2>1
  <2>3. QED
    BY <2>2
<1>6. Adds(v, SUBSET S, iter)
  BY <1>3, <1>5
<1> HIDE DEF iter, v
<1>7. iter[S] = Sum(Keys, v, S)
  BY <1>6, KeysFinite, SumIs
<1>8. QED
  BY <1>1, <1>7 DEF v

\* A row without a call has no amounts, a reserved one no charge yet; each period is the
\* sum of its rows and within the budget; and without the tenant there is nothing.
BlankRows ==
    \A k \in Keys :
        /\ calls[k].state = "none" => calls[k].worst = 0
        /\ calls[k].state \in {"none", "reserved"} => calls[k].charge = 0

Balanced ==
    \A p \in Months : /\ periods[p].reserved = Sum(Keys, Worst, RowsOf(p))
                      /\ periods[p].settled = Sum(Keys, Charged, RowsOf(p))
                      /\ periods[p].reserved <= Budget

MoneyInv == /\ periods \in [Months -> Period]
            /\ BlankRows /\ Balanced /\ DeletedStaysDeleted

LEMMA AmountsTyped ==
    ASSUME LedgerInv
    PROVE  /\ Worst \in [Keys -> Nat] /\ Charged \in [Keys -> Nat]
           /\ \A p \in Months : RowsOf(p) \in SUBSET Keys
  BY DEF LedgerInv, RowsTyped, Worst, Charged, RowsOf, Reservation

-----------------------------------------------------------------------------
\* Steps that move no money.
Still ==
    /\ tenant' = tenant
    /\ \A k \in Keys : /\ calls'[k].state = calls[k].state /\ calls'[k].worst = calls[k].worst
                       /\ calls'[k].charge = calls[k].charge /\ calls'[k].month = calls[k].month
    /\ periods' \in [Months -> Period]
    /\ \A p \in Months : /\ periods'[p].reserved = periods[p].reserved
                         /\ periods'[p].settled = periods[p].settled
    /\ ~tenant => calls' = calls /\ periods' = periods

LEMMA StillKeepsMoney ==
    ASSUME MoneyInv, Still
    PROVE  MoneyInv'
<1>1. Worst' = Worst /\ Charged' = Charged /\ \A p \in Months : RowsOf(p)' = RowsOf(p)
  BY DEF Still, Worst, Charged, RowsOf
<1>2. BlankRows'
  BY DEF MoneyInv, BlankRows, Still
<1>3. Balanced'
  BY <1>1 DEF MoneyInv, Balanced, Still
<1>4. DeletedStaysDeleted'
  BY DEF MoneyInv, DeletedStaysDeleted, Still
<1>5. QED
  BY <1>2, <1>3, <1>4 DEF MoneyInv, Still

\* Recovery: what a row is charged is what its period's settled amount grows by.
LEMMA RecoveredKeepsMoney ==
    ASSUME LedgerInv, MoneyInv, NEW S \in SUBSET Keys, NEW T \in SUBSET Keys, Recovered(S, T),
           tenant' = tenant, LedgerInv'
    PROVE  MoneyInv'
<1> DEFINE E == StillReserved(S \cup T)
           ended(p) == {k \in E : calls[k].month = p}
           grown(p) == Sum(Keys, Worst, ended(p))
           ends(k) == IF k \in StillReserved(S) THEN "expired"
                        ELSE IF k \in StillReserved(T) THEN "released"
                        ELSE "none"
           Row(k) == IF ends(k) = "none" THEN calls[k]
                     ELSE [calls[k] EXCEPT !.state = ends(k), !.charge = calls[k].worst]
<1>1. calls' = [k \in Keys |-> Row(k)]
  BY Zenon DEF Recovered
<1>2. /\ E \in SUBSET Keys /\ \A k \in E : Reserved(k)
      /\ \A p \in Months : ended(p) \in SUBSET Keys /\ ended(p) = E \cap RowsOf(p)
  BY DEF StillReserved, RowsOf
<1>3. \A p \in Months :
         MapThenSumSet(LAMBDA k : calls[k].worst, ended(p)) = Sum(Keys, Worst, ended(p))
  <2> HIDE DEF ended
  <2>1. QED
    BY <1>2, WorstSum DEF Worst
<1>4. periods' = [p \in Months |->
                   [periods[p] EXCEPT !.settled =
                      @ + MapThenSumSet(LAMBDA k : calls[k].worst, ended(p))]]
  BY Zenon DEF Recovered
<1>5. periods' = [p \in Months |-> [periods[p] EXCEPT !.settled = @ + grown(p)]]
  <2> HIDE DEF ended
  <2>1. QED
    BY <1>3, <1>4
<1>6. ASSUME NEW k \in Keys
      PROVE  /\ Row(k).worst = calls[k].worst /\ Row(k).month = calls[k].month
             /\ k \in E => Row(k).charge = calls[k].worst /\ Row(k).state \in {"expired", "released"}
             /\ k \notin E => Row(k) = calls[k]
  <2>1. calls[k] \in Reservation
    BY DEF LedgerInv, RowsTyped
  <2>2. /\ ends(k) \in {"expired", "released", "none"}
        /\ (k \in E) <=> (ends(k) # "none")
    BY DEF StillReserved
  <2> HIDE DEF ends, E
  <2>3. QED
    BY <2>1, <2>2 DEF Reservation
<1> HIDE DEF E, ended, grown, Row
<1>7. /\ \A k \in Keys : calls'[k] = Row(k)
      /\ \A p \in Months : RowsOf(p)' = RowsOf(p)
      /\ Worst' = Worst
  <2>1. \A k \in Keys : calls'[k] = Row(k)
    BY <1>1
  <2>2. QED
    BY <1>6, <2>1 DEF RowsOf, Worst
<1>8. BlankRows'
  BY <1>6, <1>7 DEF MoneyInv, BlankRows
<1>9. /\ \A k \in E : Charged'[k] = Charged[k] + Worst[k]
      /\ \A k \in Keys \ E : Charged'[k] = Charged[k]
  <2>1. ASSUME NEW k \in Keys PROVE Charged[k] = calls[k].charge /\ Charged'[k] = Row(k).charge
    BY <1>7 DEF Charged
  <2>2. ASSUME NEW k \in E PROVE calls[k].charge = 0 /\ Worst[k] = calls[k].worst /\ Worst[k] \in Nat
    BY <1>2, AmountsTyped DEF MoneyInv, BlankRows, Reserved, Worst
  <2>3. QED
    BY <1>2, <1>6, <2>1, <2>2
<1>10. ASSUME NEW p \in Months
       PROVE  Sum(Keys, Charged', RowsOf(p)) = Sum(Keys, Charged, RowsOf(p)) + grown(p)
  <2>1. /\ RowsOf(p) \in SUBSET Keys /\ ended(p) \in SUBSET RowsOf(p)
        /\ \A k \in ended(p) : Charged'[k] = Charged[k] + Worst[k]
        /\ \A k \in RowsOf(p) \ ended(p) : Charged'[k] = Charged[k]
    BY <1>2, <1>9, AmountsTyped
  <2>2. Charged' \in [Keys -> Nat]
    BY DEF LedgerInv, RowsTyped, Charged, Reservation
  <2>3. QED
    BY <2>1, <2>2, AmountsTyped, KeysFinite, SumGrows DEF grown
<1>11. ASSUME NEW p \in Months
       PROVE  /\ grown(p) \in Nat /\ periods[p] \in Period
              /\ periods'[p] = [periods[p] EXCEPT !.settled = periods[p].settled + grown(p)]
  BY <1>2, <1>5, KeysFinite, AmountsTyped, SumIsNat DEF MoneyInv, grown
<1>12. ASSUME NEW p \in Months
       PROVE  /\ periods'[p] \in Period /\ periods'[p].reserved = periods[p].reserved
              /\ periods'[p].settled = periods[p].settled + grown(p)
  <2> DEFINE n == periods[p].settled + grown(p)
  <2>1. n \in Nat /\ periods[p] \in Period /\ periods'[p] = [periods[p] EXCEPT !.settled = n]
    BY <1>11 DEF Period
  <2> HIDE DEF n
  <2>2. periods'[p] \in Period /\ periods'[p].reserved = periods[p].reserved /\ periods'[p].settled = n
    BY <2>1 DEF Period
  <2>3. QED
    BY <2>2 DEF n
<1>13. periods' \in [Months -> Period]
  BY <1>5, <1>12
<1>14. Balanced'
  BY <1>7, <1>10, <1>12 DEF MoneyInv, Balanced
<1>15. DeletedStaysDeleted'
  <2>1. CASE tenant
    BY <2>1 DEF DeletedStaysDeleted
  <2>2. CASE ~tenant
    <3>1. \A k \in Keys : calls[k] = NoRow
      BY <2>2 DEF MoneyInv, DeletedStaysDeleted
    <3>2. \A k \in Keys : ~Reserved(k)
      BY <3>1 DEF Reserved, NoRow
    <3>3. E = {}
      BY <1>2, <3>2
    <3>4. \A k \in Keys : calls'[k] = NoRow
      BY <1>6, <1>7, <3>1, <3>3
    <3>5. \A p \in Months : grown(p) = 0
      BY <1>2, <3>3, KeysFinite, SumOfNone DEF grown
    <3>6. \A p \in Months : periods[p] = NoSpend
      BY <2>2 DEF MoneyInv, DeletedStaysDeleted
    <3>7. \A p \in Months : periods'[p] = NoSpend
      BY <1>11, <3>5, <3>6 DEF NoSpend
    <3>8. QED
      BY <3>4, <3>7 DEF DeletedStaysDeleted
  <2>3. QED
    BY <2>1, <2>2
<1>16. QED
  BY <1>8, <1>13, <1>14, <1>15 DEF MoneyInv

\* A settlement: the charge of one row, and of its period.
LEMMA SettleKeepsMoney ==
    ASSUME LedgerInv, MoneyInv, NEW m \in Meters, Settle(m), LedgerInv'
    PROVE  MoneyInv'
<1> DEFINE key == <<m, meters[m].made>>
           mo == calls[key].month
<1>1. /\ tenant' = tenant /\ meters[m].pc = "calling"
      /\ calls \in [Keys -> Reservation] /\ periods \in [Months -> Period]
  BY DEF Settle, LedgerInv, RowsTyped, MoneyInv
<1>2. key \in Keys
  BY <1>1 DEF LedgerInv, MadeWithinCap, Keys
<1>3. PICK reported \in Reports \cup {calls[key].worst}, known \in BOOLEAN :
         SettleReserved(key, reported, known) \/ LateSettlement(key, reported, known)
            \/ OrphanedSettlement(key)
  BY DEF Settle
<1> DEFINE c == Charge(calls[key], reported)
           v == Violation(calls[key], reported)
<1>4. c \in Nat /\ v \in Nat /\ calls[key] \in Reservation /\ mo \in Months
  BY <1>1, <1>2, AmountAssumption DEF Charge, Cheaper, Violation, Reservation
<1>5. ~tenant => calls[key].state = "none" /\ periods = [p \in Months |-> NoSpend]
  BY <1>1, <1>2 DEF MoneyInv, DeletedStaysDeleted, NoRow
<1>6. CASE OrphanedSettlement(key)
  <2>1. Still
    BY <1>1, <1>6 DEF OrphanedSettlement, Still
  <2>2. QED
    BY <2>1, StillKeepsMoney
<1>7. CASE LateSettlement(key, reported, known)
  <2>1. /\ calls[key].state \in {"released", "expired"}
        /\ calls' = [calls EXCEPT ![key].usage = @ + 1, ![key].admission = EndOf(calls[key], known)]
        /\ periods' = [periods EXCEPT ![mo].violations = @ + v]
    BY <1>7 DEF LateSettlement
  <2>2. tenant
    BY <1>1, <1>5, <2>1
  <2>3. \A k \in Keys : /\ calls'[k].state = calls[k].state /\ calls'[k].worst = calls[k].worst
                        /\ calls'[k].charge = calls[k].charge /\ calls'[k].month = calls[k].month
    BY <1>1, <1>4, <2>1 DEF Reservation
  <2> HIDE DEF v, mo
  <2>4. /\ periods' \in [Months -> Period]
        /\ \A p \in Months : /\ periods'[p].reserved = periods[p].reserved
                             /\ periods'[p].settled = periods[p].settled
    BY <1>1, <1>4, <2>1 DEF Period
  <2>5. Still
    BY <1>1, <2>2, <2>3, <2>4 DEF Still
  <2>6. QED
    BY <2>5, StillKeepsMoney
<1>8. CASE SettleReserved(key, reported, known)
  <2>1. /\ Reserved(key)
        /\ calls' = [calls EXCEPT ![key].state = "settled", ![key].usage = @ + 1,
                                  ![key].charge = c, ![key].admission = EndOf(calls[key], known)]
        /\ periods' = [periods EXCEPT ![mo].settled = @ + c, ![mo].violations = @ + v]
    BY <1>8 DEF SettleReserved
  <2>2. tenant /\ calls[key].charge = 0
    BY <1>1, <1>2, <1>5, <2>1 DEF Reserved, MoneyInv, BlankRows
  <2> HIDE DEF c, v, mo
  <2>3. /\ \A k \in Keys \ {key} : calls'[k] = calls[k]
        /\ calls'[key].state = "settled" /\ calls'[key].charge = c
        /\ calls'[key].worst = calls[key].worst /\ calls'[key].month = mo
    BY <1>1, <1>2, <1>4, <2>1 DEF Reservation, mo
  <2>4. calls[key].month = mo
    BY DEF mo
  <2> HIDE DEF key
  <2>5. BlankRows'
    BY <2>3 DEF MoneyInv, BlankRows
  <2>6. /\ Worst' = Worst /\ \A p \in Months : RowsOf(p)' = RowsOf(p)
        /\ Charged' \in [Keys -> Nat] /\ Charged[key] = 0 /\ Charged'[key] = c
        /\ \A k \in Keys \ {key} : Charged'[k] = Charged[k]
    <3>1. \A k \in Keys : calls'[k].worst = calls[k].worst /\ calls'[k].month = calls[k].month
      BY <2>3, <2>4
    <3>2. Charged' \in [Keys -> Nat]
      BY DEF LedgerInv, RowsTyped, Charged, Reservation
    <3>3. QED
      BY <1>2, <2>2, <2>3, <3>1, <3>2 DEF Worst, Charged, RowsOf
  <2>7. ASSUME NEW p \in Months
        PROVE  Sum(Keys, Charged', RowsOf(p)) =
                  Sum(Keys, Charged, RowsOf(p)) + (IF p = mo THEN c ELSE 0)
    <3>1. key \in RowsOf(p) <=> p = mo
      BY <1>2, <2>4 DEF RowsOf
    <3>2. Sum(Keys, Charged', RowsOf(p)) =
             Sum(Keys, Charged, RowsOf(p)) + (IF key \in RowsOf(p) THEN Charged'[key] ELSE 0)
      BY <1>2, <2>6, AmountsTyped, KeysFinite, SumOfOneMore
    <3>3. QED
      BY <2>6, <3>1, <3>2
  <2>8. /\ periods' \in [Months -> Period]
        /\ \A p \in Months : /\ periods'[p].reserved = periods[p].reserved
                             /\ periods'[p].settled = periods[p].settled + (IF p = mo THEN c ELSE 0)
    <3> DEFINE spent == periods[mo].settled + c
               over == periods[mo].violations + v
               row == [periods[mo] EXCEPT !.settled = spent, !.violations = over]
    <3>1. spent \in Nat /\ over \in Nat /\ periods[mo] \in Period
      BY <1>1, <1>4 DEF Period
    <3>2. periods' = [periods EXCEPT ![mo] = row]
      BY <1>1, <1>4, <2>1
    <3> HIDE DEF spent, over
    <3>3. row \in Period /\ row.reserved = periods[mo].reserved /\ row.settled = spent
      BY <3>1 DEF Period
    <3> HIDE DEF row
    <3>4. /\ periods' \in [Months -> Period]
          /\ \A p \in Months : periods'[p] = IF p = mo THEN row ELSE periods[p]
      BY <1>1, <1>4, <3>2, <3>3
    <3>5. \A p \in Months : periods[p].settled + 0 = periods[p].settled
      BY <1>1 DEF Period
    <3>6. QED
      BY <3>3, <3>4, <3>5 DEF spent
  <2>9. Balanced'
    BY <2>6, <2>7, <2>8 DEF MoneyInv, Balanced
  <2>10. DeletedStaysDeleted'
    BY <1>1, <2>2 DEF DeletedStaysDeleted
  <2>11. QED
    BY <2>5, <2>8, <2>9, <2>10 DEF MoneyInv
<1>9. QED
  BY <1>3, <1>6, <1>7, <1>8

\* A reservation: its worst case is added to the month's, if the budget has room for it.
LEMMA ReserveKeepsMoney ==
    ASSUME LedgerInv, MoneyInv, NEW m \in Meters, Reserve(m), LedgerInv'
    PROVE  MoneyInv'
<1> DEFINE key == <<m, meters[m].made + 1>>
<1>1. /\ tenant /\ tenant' = tenant /\ month' = month /\ month \in Months
      /\ meters[m] \in Meter /\ meters[m].prior + meters[m].made < CallCap
      /\ calls \in [Keys -> Reservation] /\ periods \in [Months -> Period]
  BY DEF Reserve, LedgerInv, RowsTyped, MoneyInv
<1>2. PICK w \in Worsts : /\ Affordable(w)
                          /\ calls' = [calls EXCEPT ![key] = NewCall(m, w)]
                          /\ periods' = [periods EXCEPT ![month].reserved = @ + w]
  BY Zenon DEF Reserve
<1>3. meters[m].made + 1 \in 1..CallCap /\ meters[m].made + 1 > meters[m].made
  BY <1>1, AmountAssumption DEF Meter
<1>4. key \in Keys /\ calls[key].state = "none"
  BY <1>3 DEF Keys, LedgerInv, CallsFollowMeter
<1> HIDE DEF key
<1>5. calls[key].worst = 0 /\ calls[key].charge = 0 /\ w \in Nat
  BY <1>4, AmountAssumption DEF MoneyInv, BlankRows
<1>6. /\ \A k \in Keys \ {key} : calls'[k] = calls[k]
      /\ calls'[key].state = "reserved" /\ calls'[key].worst = w /\ calls'[key].charge = 0
      /\ calls'[key].month = month
  BY <1>1, <1>2, <1>4 DEF NewCall
<1>7. BlankRows'
  BY <1>6 DEF MoneyInv, BlankRows
<1>8. /\ Worst' \in [Keys -> Nat] /\ Charged' \in [Keys -> Nat]
      /\ Worst[key] = 0 /\ Charged[key] = 0 /\ Worst'[key] = w /\ Charged'[key] = 0
      /\ \A k \in Keys \ {key} : Worst'[k] = Worst[k] /\ Charged'[k] = Charged[k]
  <2>1. Worst' \in [Keys -> Nat] /\ Charged' \in [Keys -> Nat]
    BY DEF LedgerInv, RowsTyped, Worst, Charged, Reservation
  <2>2. QED
    BY <1>4, <1>5, <1>6, <2>1 DEF Worst, Charged
<1>9. ASSUME NEW p \in Months
      PROVE  /\ Sum(Keys, Worst', RowsOf(p)') = Sum(Keys, Worst, RowsOf(p)) + (IF p = month THEN w ELSE 0)
             /\ Sum(Keys, Charged', RowsOf(p)') = Sum(Keys, Charged, RowsOf(p))
  <2>1. /\ RowsOf(p) \in SUBSET Keys /\ RowsOf(p)' \in SUBSET Keys
        /\ RowsOf(p) \ {key} = RowsOf(p)' \ {key}
        /\ key \in RowsOf(p)' <=> p = month
    BY <1>4, <1>6 DEF RowsOf
  <2>2. Sum(Keys, Worst', RowsOf(p)') =
           Sum(Keys, Worst, RowsOf(p)) + (IF key \in RowsOf(p)' THEN Worst'[key] ELSE 0)
    BY <1>4, <1>8, <2>1, AmountsTyped, KeysFinite, SumOfOneMore
  <2>3. Sum(Keys, Charged', RowsOf(p)') =
           Sum(Keys, Charged, RowsOf(p)) + (IF key \in RowsOf(p)' THEN Charged'[key] ELSE 0)
    BY <1>4, <1>8, <2>1, AmountsTyped, KeysFinite, SumOfOneMore
  <2>4. Sum(Keys, Charged, RowsOf(p)) \in Nat
    BY <2>1, AmountsTyped, KeysFinite, SumIsNat
  <2>5. QED
    BY <1>8, <2>1, <2>2, <2>3, <2>4
<1>10. /\ periods' \in [Months -> Period]
       /\ periods'[month].reserved <= Budget
       /\ \A p \in Months : /\ periods'[p].reserved = periods[p].reserved + (IF p = month THEN w ELSE 0)
                            /\ periods'[p].settled = periods[p].settled
  <2> DEFINE sum == periods[month].reserved + w
             row == [periods[month] EXCEPT !.reserved = sum]
  <2>1. sum \in Nat /\ periods[month] \in Period /\ sum <= Budget
    BY <1>1, <1>2, <1>5 DEF Period, Affordable
  <2>2. periods' = [periods EXCEPT ![month] = row]
    BY <1>1, <1>2
  <2> HIDE DEF sum
  <2>3. row \in Period /\ row.reserved = sum /\ row.settled = periods[month].settled
    BY <2>1 DEF Period
  <2> HIDE DEF row
  <2>4. /\ periods' \in [Months -> Period]
        /\ \A p \in Months : periods'[p] = IF p = month THEN row ELSE periods[p]
    BY <1>1, <2>2, <2>3
  <2>5. \A p \in Months : periods[p].reserved + 0 = periods[p].reserved
    BY <1>1 DEF Period
  <2>6. QED
    BY <1>1, <2>1, <2>3, <2>4, <2>5 DEF sum
<1>11. ASSUME NEW p \in Months PROVE periods'[p].reserved <= Budget
  <2>1. CASE p = month
    BY <1>10, <2>1
  <2>2. CASE p # month
    <3>1. periods[p].reserved \in Nat /\ periods[p].reserved <= Budget
      BY <1>1 DEF MoneyInv, Balanced, Period
    <3>2. QED
      BY <1>10, <2>2, <3>1
  <2>3. QED
    BY <2>1, <2>2
<1>12. Balanced'
  BY <1>9, <1>10, <1>11 DEF MoneyInv, Balanced
<1>13. DeletedStaysDeleted'
  BY <1>1 DEF DeletedStaysDeleted
<1>14. QED
  BY <1>7, <1>10, <1>12, <1>13 DEF MoneyInv

\* An empty ledger, at first and without the tenant.
LEMMA EmptyLedger ==
    ASSUME calls = [k \in Keys |-> NoRow], periods = [p \in Months |-> NoSpend]
    PROVE  MoneyInv
<1>1. NoRow.worst = 0 /\ NoRow.charge = 0 /\ NoRow.worst \in Nat /\ NoRow.charge \in Nat
  BY DEF NoRow
<1>2. NoSpend \in Period /\ NoSpend.reserved = 0 /\ NoSpend.settled = 0
  BY DEF NoSpend, Period
<1> HIDE DEF NoRow, NoSpend
<1>3. /\ Worst \in [Keys -> Nat] /\ Charged \in [Keys -> Nat]
      /\ \A k \in Keys : Worst[k] = 0 /\ Charged[k] = 0
      /\ \A p \in Months : RowsOf(p) \in SUBSET Keys
  BY <1>1 DEF Worst, Charged, RowsOf
<1>4. \A p \in Months : Sum(Keys, Worst, RowsOf(p)) = 0 /\ Sum(Keys, Charged, RowsOf(p)) = 0
  BY <1>3, KeysFinite, SumOfZeros
<1>5. Balanced
  BY <1>2, <1>4, AmountAssumption DEF Balanced
<1>6. QED
  BY <1>1, <1>2, <1>5 DEF MoneyInv, BlankRows, DeletedStaysDeleted

-----------------------------------------------------------------------------
\* The jobs, the sweep and the bound of the faults have their types.
OthersTyped ==
    /\ jobs \in [Jobs -> JobState]
    /\ sweep \in [reading: BOOLEAN, rows: SUBSET Keys]
    /\ faults \in Nat

LEMMA JobRows ==
    /\ OpenJob \in JobState /\ ClosedJob \in JobState
    /\ \A m \in Meters : [state |-> "held", holder |-> m, live |-> TRUE] \in JobState
    /\ NoSweep \in [reading: BOOLEAN, rows: SUBSET Keys]
  BY DEF OpenJob, ClosedJob, JobState, NoSweep

LEMMA OthersStep ==
    ASSUME OthersTyped, [Next]_vars
    PROVE  OthersTyped'
<1>1. CASE UNCHANGED <<jobs, sweep, faults>>
  BY <1>1 DEF OthersTyped
<1>2. ASSUME NEW m \in Meters, Start(m)
      PROVE  OthersTyped'
  BY <1>2, JobRows, MeterAssumption DEF Start, OthersTyped
<1>3. ASSUME NEW m \in Meters, Finish(m) \/ FailRun(m)
      PROVE  OthersTyped'
  <2>1. UNCHANGED <<sweep, faults>> /\ \/ jobs' = jobs
                                       \/ jobs' = [jobs EXCEPT ![JobOf[m]] = OpenJob]
                                       \/ jobs' = [jobs EXCEPT ![JobOf[m]] = ClosedJob]
    BY <1>3 DEF Finish, FailRun
  <2>2. QED
    BY <2>1, JobRows DEF OthersTyped
<1>4. ASSUME NEW m \in Meters, Bind(m) \/ ReleaseEarlier(m) \/ Reserve(m) \/ Settle(m) \/ StopsCalling(m)
      PROVE  UNCHANGED <<jobs, sweep, faults>>
  BY <1>4 DEF Bind, ReleaseEarlier, Reserve, Settle, StopsCalling
<1>5. ASSUME NEW m \in Meters, SettleFails(m) \/ Crash(m)
      PROVE  OthersTyped'
  BY <1>5 DEF SettleFails, Crash, OthersTyped
<1>6. ASSUME NEW j \in Jobs, LeaseLapses(j) \/ Heartbeat(j) \/ Recover(j) \/ CancelQueued(j)
      PROVE  OthersTyped'
  <2>1. sweep' = sweep /\ (faults' = faults \/ faults' = faults + 1)
    BY <1>6 DEF LeaseLapses, Heartbeat, Recover, CancelQueued
  <2>2. \/ jobs' = [jobs EXCEPT ![j].live = FALSE]
        \/ jobs' = [jobs EXCEPT ![j].live = TRUE]
        \/ jobs' = [jobs EXCEPT ![j] = OpenJob]
        \/ jobs' = [jobs EXCEPT ![j] = ClosedJob]
    BY <1>6 DEF LeaseLapses, Heartbeat, Recover, CancelQueued
  <2>3. ASSUME NEW b \in BOOLEAN, jobs' = [jobs EXCEPT ![j].live = b]
        PROVE  jobs' \in [Jobs -> JobState]
    BY <2>3 DEF OthersTyped, JobState
  <2>4. jobs' = [jobs EXCEPT ![j] = OpenJob] \/ jobs' = [jobs EXCEPT ![j] = ClosedJob]
           => jobs' \in [Jobs -> JobState]
    BY JobRows DEF OthersTyped
  <2>5. jobs' \in [Jobs -> JobState]
    BY <2>2, <2>3, <2>4
  <2>6. QED
    BY <2>1, <2>5 DEF OthersTyped
<1>7. ASSUME NEW k \in Keys, Expire(k) \/ Reconcile(k)
      PROVE  UNCHANGED <<jobs, sweep, faults>>
  BY <1>7 DEF Expire, Reconcile
<1>8. CASE SweepRead \/ SweepWrite
  <2>1. jobs' = jobs /\ faults' = faults
    BY <1>8 DEF SweepRead, SweepWrite
  <2>2. sweep' = NoSweep \/ \E rows \in SUBSET Keys : sweep' = [reading |-> TRUE, rows |-> rows]
    BY <1>8 DEF SweepRead, SweepWrite
  <2>3. \A rows \in SUBSET Keys : [reading |-> TRUE, rows |-> rows] \in [reading: BOOLEAN, rows: SUBSET Keys]
    OBVIOUS
  <2>4. sweep' \in [reading: BOOLEAN, rows: SUBSET Keys]
    BY <2>2, <2>3, JobRows, Zenon
  <2>5. QED
    BY <2>1, <2>4 DEF OthersTyped
<1>9. CASE NextMonth
  BY <1>9 DEF NextMonth, OthersTyped
<1>10. CASE DeleteTenant
  BY <1>10, JobRows DEF DeleteTenant, OthersTyped
<1>11. CASE UNCHANGED vars
  BY <1>1, <1>11 DEF vars
<1>12. QED
  BY <1>1, <1>2, <1>3, <1>4, <1>5, <1>6, <1>7, <1>8, <1>9, <1>10, <1>11 DEF Next, Work

-----------------------------------------------------------------------------
\* Which steps recover rows, and which leave the rows' state and amounts alone.
LEMMA OtherStepsMoney ==
    ASSUME LedgerInv, MoneyInv, OthersTyped, [Next]_vars
    PROVE  \/ Still
           \/ tenant' = tenant /\ \E S, T \in SUBSET Keys : Recovered(S, T)
           \/ \E m \in Meters : Reserve(m) \/ Settle(m)
           \/ DeleteTenant
<1> DEFINE Kept == UNCHANGED <<tenant, calls, periods>>
           Recovers == tenant' = tenant /\ \E S, T \in SUBSET Keys : Recovered(S, T)
<1>1. Kept => Still
  BY DEF Still, MoneyInv
<1>2. ASSUME NEW j, tenant' = tenant, ReleaseForJob(j) PROVE Recovers
  <2>1. {} \in SUBSET Keys /\ ReservedFor(j) \in SUBSET Keys
    BY DEF ReservedFor
  <2>2. QED
    BY <1>2, <2>1 DEF ReleaseForJob
<1>3. ASSUME NEW m \in Meters, Start(m) \/ Bind(m) \/ SettleFails(m) \/ StopsCalling(m) \/ Crash(m)
      PROVE  Kept
  BY <1>3 DEF Start, Bind, SettleFails, StopsCalling, Crash
<1>4. ASSUME NEW m \in Meters, ReleaseEarlier(m) \/ Finish(m) \/ FailRun(m)
      PROVE  Kept \/ Recovers
  <2>1. tenant' = tenant /\ (UNCHANGED <<calls, periods>> \/ ReleaseForJob(JobOf[m]))
    BY <1>4 DEF ReleaseEarlier, Finish, FailRun
  <2>2. QED
    BY <1>2, <2>1
<1>5. ASSUME NEW j \in Jobs, LeaseLapses(j) \/ Heartbeat(j) \/ Recover(j) \/ CancelQueued(j)
      PROVE  Kept \/ Recovers
  <2>1. tenant' = tenant /\ (UNCHANGED <<calls, periods>> \/ ReleaseForJob(j))
    BY <1>5 DEF LeaseLapses, Heartbeat, Recover, CancelQueued
  <2>2. QED
    BY <1>2, <2>1
<1>6. ASSUME NEW k \in Keys, Expire(k) \/ Reconcile(k)
      PROVE  Still
  <2>1. calls \in [Keys -> Reservation] /\ tenant' = tenant /\ periods' = periods
        /\ periods \in [Months -> Period]
    BY <1>6 DEF Expire, Reconcile, LedgerInv, RowsTyped, MoneyInv
  <2>2. tenant
    <3>1. ~tenant => calls[k].state = "none" /\ calls[k].admission = "none"
      BY DEF MoneyInv, DeletedStaysDeleted, NoRow
    <3>2. QED
      BY <1>6, <3>1 DEF Expire, Reconcile, Reserved, Unresolved
  <2>3. \/ calls' = [calls EXCEPT ![k].age = @ + 1]
        \/ calls' = [calls EXCEPT ![k].admission = "reconciled"]
    BY <1>6 DEF Expire, Reconcile
  <2>4. \A l \in Keys : /\ calls'[l].state = calls[l].state /\ calls'[l].worst = calls[l].worst
                        /\ calls'[l].charge = calls[l].charge /\ calls'[l].month = calls[l].month
    BY <2>1, <2>3 DEF Reservation
  <2>5. QED
    BY <2>1, <2>2, <2>4 DEF Still
<1>7. CASE SweepRead \/ NextMonth
  BY <1>1, <1>7 DEF SweepRead, NextMonth
<1>8. CASE SweepWrite
  <2>1. tenant' = tenant /\ Recovered(sweep.rows, {k \in Keys : OfTerminalJob(k)})
    BY <1>8 DEF SweepWrite
  <2>2. sweep.rows \in SUBSET Keys /\ {k \in Keys : OfTerminalJob(k)} \in SUBSET Keys
    BY DEF OthersTyped
  <2>3. QED
    BY <2>1, <2>2
<1>9. CASE UNCHANGED vars
  BY <1>1, <1>9 DEF vars
<1>10. QED
  BY <1>1, <1>3, <1>4, <1>5, <1>6, <1>7, <1>8, <1>9 DEF Next, Work

LEMMA MoneyStep ==
    ASSUME LedgerInv, MoneyInv, OthersTyped, [Next]_vars
    PROVE  MoneyInv'
<1>1. LedgerInv'
  BY LedgerStep
<1>2. CASE DeleteTenant
  <2>1. calls' = [k \in Keys |-> NoRow] /\ periods' = [p \in Months |-> NoSpend]
    BY <1>2 DEF DeleteTenant
  <2>2. (calls = [k \in Keys |-> NoRow] /\ periods = [p \in Months |-> NoSpend] => MoneyInv)'
    BY EmptyLedger, PTL
  <2>3. QED
    BY <2>1, <2>2
<1>3. QED
  BY <1>1, <1>2, OtherStepsMoney, StillKeepsMoney, RecoveredKeepsMoney, SettleKeepsMoney, ReserveKeepsMoney

-----------------------------------------------------------------------------
\* The admissions: at most one is unresolved, and a queued run's call on the wire has one
\* that is open, or that an operator resolved.
OneUnresolved ==
    \A k, l \in Keys : calls[k].admission \in Unresolved /\ calls[l].admission \in Unresolved => k = l

OnWire ==
    \A m \in Meters : tenant /\ JobOf[m] # NoJob /\ meters[m].pc = "calling"
        => calls[<<m, meters[m].made>>].admission \in {"open", "reconciled"}

SerialInv == OneUnresolved /\ OnWire

\* Steps that only resolve admissions and neither start nor end a call.
Resolves ==
    /\ tenant' = tenant
    /\ \A k \in Keys : calls'[k].admission \in {calls[k].admission, "reconciled"}
    /\ \A m \in Meters : SameCalls(m)

LEMMA ResolvesKeepsSerial ==
    ASSUME LedgerInv, SerialInv, Resolves
    PROVE  SerialInv'
<1>1. OneUnresolved'
  BY DEF SerialInv, OneUnresolved, Resolves, Unresolved
<1>2. OnWire'
  <2>1. ASSUME NEW m \in Meters, meters'[m].pc = "calling"
        PROVE  /\ meters[m].pc = "calling" /\ meters'[m].made = meters[m].made
               /\ <<m, meters[m].made>> \in Keys
    BY <2>1 DEF Resolves, SameCalls, LedgerInv, MadeWithinCap, Keys
  <2>2. QED
    BY <2>1 DEF SerialInv, OnWire, Resolves
<1>3. QED
  BY <1>1, <1>2 DEF SerialInv

LEMMA RecoveredAdmissions ==
    ASSUME NEW S, NEW T, Recovered(S, T), calls \in [Keys -> Reservation]
    PROVE  \A k \in Keys : calls'[k].admission = calls[k].admission
<1> DEFINE ends(k) == IF k \in StillReserved(S) THEN "expired"
                        ELSE IF k \in StillReserved(T) THEN "released"
                        ELSE "none"
           Row(k) == IF ends(k) = "none" THEN calls[k]
                     ELSE [calls[k] EXCEPT !.state = ends(k), !.charge = calls[k].worst]
<1>1. calls' = [k \in Keys |-> Row(k)]
  BY Zenon DEF Recovered
<1>2. ASSUME NEW k \in Keys PROVE Row(k).admission = calls[k].admission
  <2>1. calls[k] \in Reservation
    OBVIOUS
  <2> HIDE DEF ends
  <2>2. QED
    BY <2>1 DEF Reservation
<1> HIDE DEF Row
<1>3. QED
  BY <1>1, <1>2

\* A queued run's reservation finds no other admission unresolved.
LEMMA ReserveKeepsSerial ==
    ASSUME LedgerInv, SerialInv, NEW m \in Meters, Reserve(m)
    PROVE  SerialInv'
<1> DEFINE n == meters[m].made + 1
           key == <<m, n>>
<1>1. /\ tenant /\ tenant' = tenant /\ Admitted(m)
      /\ meters \in [Meters -> Meter] /\ calls \in [Keys -> Reservation]
      /\ meters[m].prior + meters[m].made < CallCap
      /\ meters' = [meters EXCEPT ![m].pc = "calling", ![m].made = @ + 1]
  BY DEF Reserve, LedgerInv, RowsTyped
<1>2. PICK w \in Worsts : calls' = [calls EXCEPT ![key] = NewCall(m, w)]
  BY Zenon DEF Reserve
<1>3. n \in 1..CallCap /\ key \in Keys
  BY <1>1, AmountAssumption DEF Meter, Keys
<1>4. NewCall(m, w).admission = IF JobOf[m] = NoJob THEN "none" ELSE "open"
  BY DEF NewCall
<1>5. calls'[key] = NewCall(m, w) /\ \A k \in Keys \ {key} : calls'[k] = calls[k]
  BY <1>1, <1>2, <1>3
<1>6. meters'[m].made = n /\ \A q \in Meters \ {m} : meters'[q] = meters[q]
  BY <1>1, <1>3 DEF Meter
<1> HIDE DEF key, n
<1>7. OneUnresolved'
  <2>1. JobOf[m] # NoJob => \A k \in Keys : calls[k].admission \notin Unresolved
    BY <1>1 DEF Admitted, SlotFree
  <2>2. "none" \notin Unresolved
    BY DEF Unresolved
  <2>3. QED
    BY <1>3, <1>4, <1>5, <2>1, <2>2 DEF SerialInv, OneUnresolved
<1>8. OnWire'
  <2>1. ASSUME NEW q \in Meters, q # m, meters[q].pc = "calling"
        PROVE  calls'[<<q, meters[q].made>>] = calls[<<q, meters[q].made>>]
    <3>1. <<q, meters[q].made>> \in Keys
      BY <2>1 DEF LedgerInv, MadeWithinCap, Keys
    <3>2. <<q, meters[q].made>> # key
      BY <2>1 DEF key
    <3>3. QED
      BY <1>5, <3>1, <3>2
  <2>2. JobOf[m] # NoJob => calls'[<<m, meters'[m].made>>].admission = "open"
    BY <1>4, <1>5, <1>6 DEF key
  <2>3. QED
    BY <1>1, <1>6, <2>1, <2>2 DEF SerialInv, OnWire
<1>9. QED
  BY <1>7, <1>8 DEF SerialInv

\* A settlement ends its own admission, and leaves an operator's resolution.
LEMMA SettleKeepsSerial ==
    ASSUME LedgerInv, SerialInv, NEW m \in Meters, Settle(m)
    PROVE  SerialInv'
<1> DEFINE key == <<m, meters[m].made>>
<1>1. /\ tenant' = tenant /\ meters[m].pc = "calling" /\ SetPc(m, "idle")
      /\ calls \in [Keys -> Reservation] /\ meters \in [Meters -> Meter]
  BY DEF Settle, LedgerInv, RowsTyped
<1>2. key \in Keys
  BY <1>1 DEF LedgerInv, MadeWithinCap, Keys
<1>3. PICK reported \in Reports \cup {calls[key].worst}, known \in BOOLEAN :
         SettleReserved(key, reported, known) \/ LateSettlement(key, reported, known)
            \/ OrphanedSettlement(key)
  BY DEF Settle
<1>4. /\ meters'[m].pc = "idle" /\ \A q \in Meters \ {m} : meters'[q] = meters[q]
  BY <1>1 DEF SetPc, Meter
<1> HIDE DEF key
<1>5. /\ \A k \in Keys \ {key} : calls'[k] = calls[k]
      /\ calls'[key].admission \in {calls[key].admission, EndOf(calls[key], known)}
  <2>1. CASE SettleReserved(key, reported, known)
    <3>1. PICK c : calls' = [calls EXCEPT ![key].state = "settled", ![key].usage = @ + 1,
                                          ![key].charge = c,
                                          ![key].admission = EndOf(calls[key], known)]
      BY <2>1 DEF SettleReserved
    <3>2. "admission" \in DOMAIN calls[key]
      BY <1>1, <1>2 DEF Reservation
    <3>3. calls'[key].admission = EndOf(calls[key], known)
      BY <1>1, <1>2, <3>1, <3>2
    <3>4. \A k \in Keys \ {key} : calls'[k] = calls[k]
      BY <1>1, <3>1
    <3>5. QED
      BY <3>3, <3>4
  <2>2. CASE LateSettlement(key, reported, known)
    <3>1. calls' = [calls EXCEPT ![key].usage = @ + 1, ![key].admission = EndOf(calls[key], known)]
      BY <2>2 DEF LateSettlement
    <3>2. "admission" \in DOMAIN calls[key]
      BY <1>1, <1>2 DEF Reservation
    <3>3. calls'[key].admission = EndOf(calls[key], known)
      BY <1>1, <1>2, <3>1, <3>2
    <3>4. \A k \in Keys \ {key} : calls'[k] = calls[k]
      BY <1>1, <3>1
    <3>5. QED
      BY <3>3, <3>4
  <2>3. CASE OrphanedSettlement(key)
    <3>1. calls' = calls
      BY <2>3 DEF OrphanedSettlement
    <3>2. QED
      BY <3>1
  <2>4. QED
    BY <1>3, <2>1, <2>2, <2>3
<1>6. calls'[key].admission \in Unresolved => calls[key].admission \in Unresolved
  BY <1>5 DEF EndOf, Unresolved
<1>7. OneUnresolved'
  <2>1. \A k \in Keys : calls'[k].admission \in Unresolved => calls[k].admission \in Unresolved
    BY <1>5, <1>6
  <2>2. QED
    BY <2>1 DEF SerialInv, OneUnresolved
<1>8. OnWire'
  <2>1. ASSUME NEW q \in Meters, q # m, meters[q].pc = "calling"
        PROVE  calls'[<<q, meters[q].made>>] = calls[<<q, meters[q].made>>]
    <3>1. <<q, meters[q].made>> \in Keys
      BY <2>1 DEF LedgerInv, MadeWithinCap, Keys
    <3>2. <<q, meters[q].made>> # key
      BY <2>1 DEF key
    <3>3. QED
      BY <1>5, <3>1, <3>2
  <2>2. QED
    BY <1>1, <1>4, <2>1 DEF SerialInv, OnWire
<1>9. QED
  BY <1>7, <1>8 DEF SerialInv

\* Every other step at most resolves an admission.
LEMMA SerialStep ==
    ASSUME LedgerInv, SerialInv, [Next]_vars
    PROVE  SerialInv'
<1>1. calls \in [Keys -> Reservation] /\ \A k \in Keys : calls[k] \in Reservation
  BY DEF LedgerInv, RowsTyped
<1>2. ASSUME QuietStep, calls' = calls \/ \E S, T : Recovered(S, T) PROVE SerialInv'
  <2>1. \A k \in Keys : calls'[k].admission = calls[k].admission
    BY <1>1, <1>2, RecoveredAdmissions
  <2>2. QED
    BY <1>2, <2>1, ResolvesKeepsSerial DEF Resolves, QuietStep
<1>3. ASSUME NEW m \in Meters, Start(m) \/ Bind(m) \/ SettleFails(m) \/ StopsCalling(m) \/ Crash(m)
      PROVE  SerialInv'
  <2>1. calls' = calls
    BY <1>3 DEF Start, Bind, SettleFails, StopsCalling, Crash
  <2>2. QED
    BY <1>2, <1>3, <2>1, StartQuiet, BindQuiet, StopsQuiet
<1>4. ASSUME NEW m \in Meters, ReleaseEarlier(m) \/ Finish(m) \/ FailRun(m)
      PROVE  SerialInv'
  <2>1. calls' = calls \/ \E S, T : Recovered(S, T)
    BY <1>4 DEF ReleaseEarlier, Finish, FailRun, ReleaseForJob
  <2>2. QED
    BY <1>2, <1>4, <2>1, BindQuiet, EndsQuiet
<1>5. ASSUME NEW j \in Jobs, LeaseLapses(j) \/ Heartbeat(j) \/ Recover(j) \/ CancelQueued(j)
      PROVE  SerialInv'
  <2>1. calls' = calls \/ \E S, T : Recovered(S, T)
    BY <1>5 DEF LeaseLapses, Heartbeat, Recover, CancelQueued, ReleaseForJob
  <2>2. QED
    BY <1>2, <1>5, <2>1, JobStepsQuiet
<1>6. CASE SweepRead \/ SweepWrite
  <2>1. calls' = calls \/ \E S, T : Recovered(S, T)
    BY <1>6 DEF SweepRead, SweepWrite
  <2>2. QED
    BY <1>2, <1>6, <2>1, JobStepsQuiet
<1>7. ASSUME NextMonth \/ \E k \in Keys : Expire(k) \/ Reconcile(k)
      PROVE  SerialInv'
  <2>1. QuietStep
    BY <1>7, ClockStepsQuiet
  <2>2. \A k \in Keys : calls'[k].admission \in {calls[k].admission, "reconciled"}
    BY <1>1, <1>7 DEF NextMonth, Expire, Reconcile, Reservation
  <2>3. QED
    BY <2>1, <2>2, ResolvesKeepsSerial DEF Resolves, QuietStep
<1>8. CASE DeleteTenant
  BY <1>8 DEF DeleteTenant, SerialInv, OneUnresolved, OnWire, NoRow, Unresolved
<1>9. CASE UNCHANGED vars
  BY <1>9 DEF vars, SerialInv, OneUnresolved, OnWire
<1>10. QED
  BY <1>3, <1>4, <1>5, <1>6, <1>7, <1>8, <1>9, ReserveKeepsSerial, SettleKeepsSerial DEF Next, Work

-----------------------------------------------------------------------------
BudgetInv == LedgerInv /\ OthersTyped /\ MoneyInv /\ SerialInv

LEMMA BudgetInvariant == Spec => []BudgetInv
<1>1. Init => BudgetInv
  <2>1. Init => OthersTyped
    BY JobRows, BoundsAssumption DEF Init, OthersTyped
  <2>2. Init => MoneyInv
    BY EmptyLedger DEF Init
  <2>3. Init => SerialInv
    BY DEF Init, SerialInv, OneUnresolved, OnWire, NoRow, Unresolved
  <2>4. QED
    BY <2>1, <2>2, <2>3, LedgerInit DEF BudgetInv
<1>2. BudgetInv /\ [Next]_vars => BudgetInv'
  BY LedgerStep, OthersStep, MoneyStep, SerialStep DEF BudgetInv
<1>3. QED
  BY <1>1, <1>2, PTL DEF Spec

\* The ledger's rows, meters and jobs keep their types; no amount is ever negative.
THEOREM TypeCorrect == Spec => []TypeOK
<1>1. BudgetInv => TypeOK
  BY DEF BudgetInv, LedgerInv, RowsTyped, OthersTyped, MoneyInv, TypeOK
<1>2. QED
  BY BudgetInvariant, <1>1, PTL

\* The period rows are the sums of their reservations: reserve, settle, release_for_job,
\* release_expired and release_terminal count each call's worst case and charge once.
THEOREM LedgerBalances == Spec => []PeriodsBalance
<1>1. BudgetInv => PeriodsBalance
  <2> SUFFICES ASSUME BudgetInv, NEW p \in Months
               PROVE  /\ periods[p].reserved =
                           MapThenSumSet(LAMBDA k : calls[k].worst, {k \in Keys : calls[k].month = p})
                      /\ periods[p].settled =
                           MapThenSumSet(LAMBDA k : calls[k].charge, {k \in Keys : calls[k].month = p})
    BY Zenon DEF PeriodsBalance
  <2> DEFINE S == {k \in Keys : calls[k].month = p}
  <2>1. S \in SUBSET Keys /\ S = RowsOf(p)
    BY DEF RowsOf
  <2>2. periods[p].reserved = Sum(Keys, Worst, S) /\ periods[p].settled = Sum(Keys, Charged, S)
    BY <2>1 DEF BudgetInv, MoneyInv, Balanced
  <2> HIDE DEF S
  <2>3. /\ MapThenSumSet(LAMBDA k : calls[k].worst, S) = Sum(Keys, Worst, S)
        /\ MapThenSumSet(LAMBDA k : calls[k].charge, S) = Sum(Keys, Charged, S)
    BY <2>1, WorstSum, ChargeSum, Zenon DEF Worst, Charged
  <2>4. QED
    BY <2>2, <2>3, Zenon DEF S
<1>2. QED
  BY BudgetInvariant, <1>1, PTL

\* The worst cases of the calls started in a month never exceed the budget, for any number
\* of meters, jobs and calls and any amounts, whatever was settled, lost or released.
THEOREM BudgetIsKept == Spec => []BudgetHolds
<1>1. BudgetInv => BudgetHolds
  <2> SUFFICES ASSUME BudgetInv, NEW p \in Months
               PROVE  MapThenSumSet(LAMBDA k : calls[k].worst, {k \in Keys : calls[k].month = p}) <= Budget
    BY Zenon DEF BudgetHolds
  <2> DEFINE S == {k \in Keys : calls[k].month = p}
  <2>1. S \in SUBSET Keys /\ S = RowsOf(p)
    BY DEF RowsOf
  <2>2. Sum(Keys, Worst, S) <= Budget
    BY <2>1 DEF BudgetInv, MoneyInv, Balanced
  <2> HIDE DEF S
  <2>3. MapThenSumSet(LAMBDA k : calls[k].worst, S) = Sum(Keys, Worst, S)
    BY <2>1, WorstSum, Zenon DEF Worst
  <2>4. QED
    BY <2>2, <2>3, Zenon DEF S
<1>2. QED
  BY BudgetInvariant, <1>1, PTL

\* The unique index admits one unresolved call of a Scout: two are on the wire together
\* only after an operator declared one of them over.
THEOREM CallsOneAtATime == Spec => []CallsAreSerial
<1>1. BudgetInv => CallsAreSerial
  <2> SUFFICES ASSUME BudgetInv, NEW m \in Meters, NEW n \in Meters, m # n,
                      JobOf[m] # NoJob, JobOf[n] # NoJob, tenant,
                      meters[m].pc = "calling", meters[n].pc = "calling"
               PROVE  \E q \in {m, n} : calls[<<q, meters[q].made>>].admission = "reconciled"
    BY DEF CallsAreSerial
  <2> DEFINE k == <<m, meters[m].made>>
             l == <<n, meters[n].made>>
  <2>1. k \in Keys /\ l \in Keys /\ k # l
    BY DEF BudgetInv, LedgerInv, MadeWithinCap, Keys
  <2>2. calls[k].admission \in {"open", "reconciled"} /\ calls[l].admission \in {"open", "reconciled"}
    BY DEF BudgetInv, SerialInv, OnWire
  <2>3. calls[k].admission = "reconciled" \/ calls[l].admission = "reconciled"
    <3> HIDE DEF k, l
    <3>1. QED
      BY <2>1, <2>2 DEF BudgetInv, SerialInv, OneUnresolved, Unresolved
  <2>4. QED
    BY <2>3
<1>2. QED
  BY BudgetInvariant, <1>1, PTL

\* A settlement, release or sweep that arrives after the workspace was deleted recreates no
\* row and no amount.
THEOREM DeletedStaysEmpty == Spec => []DeletedStaysDeleted
<1>1. BudgetInv => DeletedStaysDeleted
  BY DEF BudgetInv, MoneyInv
<1>2. QED
  BY BudgetInvariant, <1>1, PTL

=============================================================================
