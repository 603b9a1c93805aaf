-------------------------- MODULE NttManagerProofs --------------------------
(***************************************************************************)
(* What the managers guarantee for every number of chains, transceivers,   *)
(* thresholds, amounts, decimals and limits: the types, that the threshold *)
(* stays reachable, that votes are attestations and approvals need         *)
(* `threshold` of them, that inbox items move forward, and that what is    *)
(* locked backs what circulates elsewhere, each transfer being paid once.  *)
(***************************************************************************)
EXTENDS NttBridge, FiniteSetTheorems, SequenceTheorems, WellFoundedInduction, TLAPS

-----------------------------------------------------------------------------
(* Induction, stated with sets so that it is first-order                   *)

\* A set of natural numbers that is not empty has a least element.
LEMMA LeastElement ==
    ASSUME NEW S \in SUBSET Nat, S # {}
    PROVE  \E n \in S : \A m \in S : n <= m
<1> DEFINE R == {ss \in Nat \X Nat : ss[1] < ss[2]}
<1>1. IsWellFoundedOn(R, Nat)
    BY NatLessThanWellFounded DEF OpToRel
<1>2. PICK n \in S : \A m \in S : ~(<<m, n>> \in R)
    <2> HIDE DEF R
    <2>. QED  BY <1>1, WFMin
<1>3. \A m \in S : ~(m < n)
    BY <1>2
<1>. QED  BY <1>3

\* A set that has 0 and with every number the next one has all of them.
LEMMA SetInduction ==
    ASSUME NEW S, 0 \in S, \A n \in Nat : n \in S => n + 1 \in S
    PROVE  Nat \subseteq S
<1> SUFFICES ASSUME Nat \ S # {} PROVE FALSE
    OBVIOUS
<1>1. PICK n \in Nat \ S : \A m \in Nat \ S : n <= m
    BY LeastElement
<1>2. n - 1 \in Nat /\ n - 1 \in S
    BY <1>1
<1>. QED  BY <1>1, <1>2

-----------------------------------------------------------------------------
(* Powers of ten                                                           *)

\* g holds the powers of ten up to n.
Powers(n, g) ==
    /\ g \in [0..n -> Nat \ {0}]
    /\ g[0] = 1
    /\ \A i \in 1..n : g[i] = 10 * g[i - 1]

\* There is a table of powers of every length,
LEMMA PowersExist == \A n \in Nat : \E g : Powers(n, g)
<1> DEFINE S == {n \in Nat : \E g : Powers(n, g)}
<1>1. 0 \in S
    <2>1. Powers(0, [i \in 0..0 |-> 1])
        BY DEF Powers
    <2>. QED  BY <2>1
<1>2. ASSUME NEW n \in Nat, n \in S
      PROVE  n + 1 \in S
    <2>1. PICK g : Powers(n, g)
        BY <1>2
    <2> DEFINE h == [i \in 0..n + 1 |-> IF i = 0 THEN 1 ELSE 10 * g[i - 1]]
    <2>2. \A i \in 0..n : h[i] = g[i]
        BY <2>1 DEF Powers
    <2>3. \A i \in 1..n + 1 : h[i] = 10 * g[i - 1] /\ i - 1 \in 0..n
        OBVIOUS
    <2>4. h \in [0..n + 1 -> Nat \ {0}]
        BY <2>1, <2>3 DEF Powers
    <2>5. \A i \in 1..n + 1 : h[i] = 10 * h[i - 1]
        BY <2>2, <2>3
    <2>6. h[0] = 1
        OBVIOUS
    <2>7. Powers(n + 1, h)
        <3> HIDE DEF h
        <3>. QED  BY <2>4, <2>5, <2>6 DEF Powers
    <2>. QED  BY <2>7
<1> HIDE DEF S
<1>3. Nat \subseteq S
    BY <1>1, <1>2, SetInduction
<1>. QED  BY <1>3 DEF S

\* and tables of different lengths agree.
LEMMA PowersUnique ==
    ASSUME NEW n \in Nat, NEW g, Powers(n, g), NEW m \in Nat, NEW h, Powers(m, h), n <= m
    PROVE  \A i \in 0..n : g[i] = h[i]
<1> DEFINE S == {i \in Nat : i <= n => g[i] = h[i]}
<1>1. 0 \in S
    BY DEF Powers
<1>2. ASSUME NEW i \in Nat, i \in S
      PROVE  i + 1 \in S
    <2> SUFFICES ASSUME i + 1 <= n PROVE g[i + 1] = h[i + 1]
        OBVIOUS
    <2>1. i + 1 \in 1..n /\ i + 1 \in 1..m /\ (i + 1) - 1 = i /\ g[i] = h[i]
        BY <1>2
    <2>. QED  BY <2>1 DEF Powers
<1> HIDE DEF S
<1>3. Nat \subseteq S
    BY <1>1, <1>2, SetInduction
<1>. QED  BY <1>3 DEF S

\* The recursive definition of pow10 defines a function, and of positive numbers.
LEMMA PowType ==
    /\ pow10 = [n \in Nat |-> IF n = 0 THEN 1 ELSE 10 * pow10[n - 1]]
    /\ pow10 \in [Nat -> Nat \ {0}]
<1> DEFINE table(n) == CHOOSE g : Powers(n, g)
           f == [n \in Nat |-> table(n)[n]]
<1>1. \A n \in Nat : Powers(n, table(n))
    BY PowersExist
<1> HIDE DEF table
<1>2. f[0] = 1
    BY <1>1 DEF Powers
<1>3. ASSUME NEW n \in Nat \ {0}
      PROVE  f[n] = 10 * f[n - 1]
    <2>1. n - 1 \in Nat /\ n - 1 \in 0..n - 1 /\ n \in 1..n
        OBVIOUS
    <2>2. table(n)[n] = 10 * table(n)[n - 1]
        BY <1>1, <2>1 DEF Powers
    <2>3. table(n - 1)[n - 1] = table(n)[n - 1]
        BY <1>1, <2>1, PowersUnique
    <2>. QED  BY <2>1, <2>2, <2>3
<1>4. f \in [Nat -> Nat \ {0}]
    <2>1. ASSUME NEW n \in Nat PROVE table(n)[n] \in Nat \ {0}
        BY <1>1 DEF Powers
    <2>. QED  BY <2>1
<1> HIDE DEF f
<1>5. f = [n \in Nat |-> IF n = 0 THEN 1 ELSE 10 * f[n - 1]]
    <2>1. f = [n \in Nat |-> f[n]]
        BY <1>4
    <2>2. \A n \in Nat : f[n] = IF n = 0 THEN 1 ELSE 10 * f[n - 1]
        BY <1>2, <1>3
    <2>. QED  BY <2>1, <2>2
<1>6. pow10 = [n \in Nat |-> IF n = 0 THEN 1 ELSE 10 * pow10[n - 1]]
    BY <1>5, Zenon DEF pow10
<1>7. pow10 \in [Nat -> Nat \ {0}]
    <2> DEFINE S == {n \in Nat : pow10[n] \in Nat \ {0}}
    <2>1. 0 \in S
        BY <1>6
    <2>2. ASSUME NEW n \in Nat, n \in S PROVE n + 1 \in S
        <3>1. pow10[n + 1] = 10 * pow10[n]
            <4>1. n + 1 \in Nat /\ n + 1 # 0 /\ (n + 1) - 1 = n
                OBVIOUS
            <4>. QED  BY <1>6, <4>1
        <3>. QED  BY <2>2, <3>1
    <2> HIDE DEF S
    <2>3. Nat \subseteq S
        BY <2>1, <2>2, SetInduction
    <2>. QED  BY <1>6, <2>3 DEF S
<1>. QED  BY <1>6, <1>7

\* The next power is ten times the one before.
LEMMA PowNext ==
    ASSUME NEW n \in Nat
    PROVE  pow10[n + 1] = 10 * pow10[n]
<1>1. n + 1 \in Nat /\ n + 1 # 0 /\ (n + 1) - 1 = n
    OBVIOUS
<1>. QED  BY <1>1, PowType

\* Exponents add.
LEMMA PowAdd ==
    ASSUME NEW a \in Nat, NEW b \in Nat
    PROVE  pow10[a + b] = pow10[a] * pow10[b]
<1> DEFINE S == {n \in Nat : pow10[a + n] = pow10[a] * pow10[n]}
<1>1. 0 \in S
    BY PowType
<1>2. ASSUME NEW n \in Nat, n \in S
      PROVE  n + 1 \in S
    <2>1. pow10[a] \in Nat /\ pow10[n] \in Nat /\ a + n \in Nat
        BY PowType
    <2>2. pow10[a + (n + 1)] = 10 * (pow10[a] * pow10[n])
        BY <1>2, PowNext
    <2>3. pow10[n + 1] = 10 * pow10[n]
        BY PowNext
    <2>. QED  BY <2>1, <2>2, <2>3
<1> HIDE DEF S
<1>3. Nat \subseteq S
    BY <1>1, <1>2, SetInduction
<1>. QED  BY <1>3 DEF S

-----------------------------------------------------------------------------
(* Sums over finite sets                                                   *)

Picked(s) == CHOOSE x \in s : TRUE

\* The sums of f over the subsets of S that SumFunctionOnSet goes through.
AreSums(g, f, S) ==
    g = [s \in SUBSET S |-> IF s = {} THEN 0 ELSE f[Picked(s)] + g[s \ {Picked(s)}]]

Sums(f, S) == CHOOSE g : AreSums(g, f, S)

\* SumFunctionOnSet is defined by such a table.
LEMMA SumIsSums ==
    ASSUME NEW f, NEW S
    PROVE  SumFunctionOnSet(f, S) = Sums(f, S)[S]
BY SMT DEF SumFunctionOnSet, FoldFunctionOnSet, MapThenFoldSet, Sums, AreSums, Picked

\* Taking one element away makes a finite set smaller by one.
LEMMA PickedSmaller ==
    ASSUME NEW s, IsFiniteSet(s), s # {}
    PROVE  /\ Picked(s) \in s
           /\ IsFiniteSet(s \ {Picked(s)})
           /\ Cardinality(s) \in Nat
           /\ Cardinality(s \ {Picked(s)}) = Cardinality(s) - 1
<1>1. Picked(s) \in s
    BY DEF Picked
<1>. QED  BY <1>1, FS_RemoveElement, FS_CardinalityType

\* The recursion has a solution on the subsets of a finite set.
LEMMA SumsSolution ==
    ASSUME NEW f, NEW S, IsFiniteSet(S)
    PROVE  \E g : AreSums(g, f, S)
<1> DEFINE Small(n) == {s \in SUBSET S : Cardinality(s) <= n}
           Solves(g, n) == g = [s \in Small(n) |->
               IF s = {} THEN 0 ELSE f[Picked(s)] + g[s \ {Picked(s)}]]
           N == {n \in Nat : \E g : Solves(g, n)}
<1>1. \A s \in SUBSET S : IsFiniteSet(s) /\ Cardinality(s) \in Nat
    BY FS_Subset, FS_CardinalityType
<1>2. 0 \in N
    <2> DEFINE g == [s \in Small(0) |-> 0]
    <2>1. \A s \in Small(0) : s = {}
        <3> SUFFICES ASSUME NEW s \in Small(0) PROVE s = {}
            OBVIOUS
        <3>1. Cardinality(s) = 0
            BY <1>1
        <3>. QED  BY <1>1, <3>1, FS_EmptySet
    <2>2. Solves(g, 0)
        BY <2>1
    <2>. QED  BY <2>2
<1>3. ASSUME NEW n \in Nat, n \in N
      PROVE  n + 1 \in N
    <2>1. PICK g : Solves(g, n)
        BY <1>3
    <2> DEFINE h == [s \in Small(n + 1) |->
                   IF s = {} THEN 0 ELSE f[Picked(s)] + g[s \ {Picked(s)}]]
    <2>2. \A s \in Small(n) : s \in Small(n + 1) /\ h[s] = g[s]
        <3>1. \A s \in Small(n) : s \in Small(n + 1)
            BY <1>1
        <3>2. \A s \in Small(n) :
                  g[s] = IF s = {} THEN 0 ELSE f[Picked(s)] + g[s \ {Picked(s)}]
            BY <2>1
        <3>. QED  BY <3>1, <3>2
    <2>3. \A s \in Small(n + 1) : s # {} => s \ {Picked(s)} \in Small(n)
        <3> SUFFICES ASSUME NEW s \in Small(n + 1), s # {} PROVE s \ {Picked(s)} \in Small(n)
            OBVIOUS
        <3>1. Cardinality(s \ {Picked(s)}) = Cardinality(s) - 1 /\ Cardinality(s) \in Nat
            BY <1>1, PickedSmaller
        <3>. QED  BY <3>1
    <2>4. \A s \in Small(n + 1) :
              h[s] = IF s = {} THEN 0 ELSE f[Picked(s)] + h[s \ {Picked(s)}]
        BY <2>2, <2>3
    <2>5. h = [s \in Small(n + 1) |-> h[s]]
        OBVIOUS
    <2>6. Solves(h, n + 1)
        <3> HIDE DEF h, Small
        <3>. QED  BY <2>4, <2>5
    <2> HIDE DEF Solves, h
    <2>. QED  BY <2>6
<1>4. Nat \subseteq N
    <2> HIDE DEF N
    <2>. QED  BY <1>2, <1>3, SetInduction
<1>5. PICK g : Solves(g, Cardinality(S))
    BY <1>1, <1>4
<1>6. Small(Cardinality(S)) = SUBSET S
    <2>1. \A s \in SUBSET S : Cardinality(s) <= Cardinality(S)
        BY FS_Subset
    <2>. QED  BY <2>1
<1>7. AreSums(g, f, S)
    BY <1>5, <1>6 DEF AreSums
<1>. QED  BY <1>7

\* Therefore the table chosen satisfies the recursion,
LEMMA SumsUnfold ==
    ASSUME NEW f, NEW S, IsFiniteSet(S), NEW s \in SUBSET S
    PROVE  Sums(f, S)[s] =
               IF s = {} THEN 0 ELSE f[Picked(s)] + Sums(f, S)[s \ {Picked(s)}]
<1>1. \E g : AreSums(g, f, S)
    BY SumsSolution
<1>2. AreSums(Sums(f, S), f, S)
    BY <1>1, Zenon DEF Sums
<1>. QED  BY <1>2 DEF AreSums

\* in particular for sets that are not empty.
LEMMA SumsStep ==
    ASSUME NEW f, NEW S, IsFiniteSet(S), NEW s \in SUBSET S, s # {}
    PROVE  Sums(f, S)[s] = f[Picked(s)] + Sums(f, S)[s \ {Picked(s)}]
BY SumsUnfold

\* A sum depends only on the values that are summed.
LEMMA SumsAgree ==
    ASSUME NEW f, NEW g, NEW S, IsFiniteSet(S), NEW T, IsFiniteSet(T),
           NEW s \in SUBSET (S \cap T), \A x \in s : f[x] = g[x]
    PROVE  Sums(f, S)[s] = Sums(g, T)[s]
<1> DEFINE N == {n \in Nat : \A t \in SUBSET s :
                    Cardinality(t) = n => Sums(f, S)[t] = Sums(g, T)[t]}
<1>1. \A t \in SUBSET s : t \in SUBSET S /\ t \in SUBSET T
                          /\ IsFiniteSet(t) /\ Cardinality(t) \in Nat
    BY FS_Subset, FS_CardinalityType
<1>2. 0 \in N
    <2> SUFFICES ASSUME NEW t \in SUBSET s, Cardinality(t) = 0
                 PROVE  Sums(f, S)[t] = Sums(g, T)[t]
        OBVIOUS
    <2>1. t = {}
        BY <1>1, FS_EmptySet
    <2>. QED  BY <1>1, <2>1, SumsUnfold
<1>3. ASSUME NEW n \in Nat, n \in N
      PROVE  n + 1 \in N
    <2> SUFFICES ASSUME NEW t \in SUBSET s, Cardinality(t) = n + 1
                 PROVE  Sums(f, S)[t] = Sums(g, T)[t]
        OBVIOUS
    <2>1. t # {}
        BY <1>1, FS_EmptySet
    <2>2. /\ Picked(t) \in t
          /\ Cardinality(t \ {Picked(t)}) = n
        BY <1>1, <2>1, PickedSmaller
    <2>3. Sums(f, S)[t \ {Picked(t)}] = Sums(g, T)[t \ {Picked(t)}]
        BY <1>3, <2>2
    <2>4. f[Picked(t)] = g[Picked(t)]
        BY <2>2
    <2>5. Sums(f, S)[t] = f[Picked(t)] + Sums(f, S)[t \ {Picked(t)}]
        BY <1>1, <2>1, SumsStep
    <2>6. Sums(g, T)[t] = g[Picked(t)] + Sums(g, T)[t \ {Picked(t)}]
        BY <1>1, <2>1, SumsStep
    <2>. QED  BY <2>3, <2>4, <2>5, <2>6
<1> HIDE DEF N
<1>4. Nat \subseteq N
    BY <1>2, <1>3, SetInduction
<1>5. s \in SUBSET s /\ Cardinality(s) \in N
    BY <1>1, <1>4
<1>. QED  BY <1>5 DEF N

\* The same for SumFunctionOnSet.
LEMMA SumAgree ==
    ASSUME NEW f, NEW g, NEW S, IsFiniteSet(S), \A x \in S : f[x] = g[x]
    PROVE  SumFunctionOnSet(f, S) = SumFunctionOnSet(g, S)
<1>1. S \in SUBSET (S \cap S)
    OBVIOUS
<1>2. Sums(f, S)[S] = Sums(g, S)[S]
    BY <1>1, SumsAgree
<1>. QED  BY <1>2, SumIsSums

\* The empty sum.
LEMMA SumEmpty == \A f : SumFunctionOnSet(f, {}) = 0
<1> TAKE f
<1>1. Sums(f, {})[{}] = 0
    BY FS_EmptySet, SumsUnfold
<1>. QED  BY <1>1, SumIsSums

\* A sum is the value of the element picked plus the sum over the rest.
LEMMA SumPicked ==
    ASSUME NEW f, NEW S, IsFiniteSet(S), S # {}
    PROVE  SumFunctionOnSet(f, S) = f[Picked(S)] + SumFunctionOnSet(f, S \ {Picked(S)})
<1> DEFINE T == S \ {Picked(S)}
<1>1. IsFiniteSet(T) /\ T \in SUBSET (S \cap T) /\ S \in SUBSET S
    BY PickedSmaller
<1>2. Sums(f, S)[T] = Sums(f, T)[T]
    <2> HIDE DEF T
    <2>. QED  BY <1>1, SumsAgree
<1>3. Sums(f, S)[S] = f[Picked(S)] + Sums(f, S)[T]
    BY <1>1, SumsUnfold
<1>. QED  BY <1>2, <1>3, SumIsSums

\* A sum stays in any set that has 0 and the sums of its elements.
LEMMA SumClosed ==
    ASSUME NEW S, IsFiniteSet(S), NEW R, 0 \in R, \A a, b \in R : a + b \in R,
           NEW f, \A x \in S : f[x] \in R
    PROVE  SumFunctionOnSet(f, S) \in R
<1> DEFINE Sum(t) == SumFunctionOnSet(f, t)
           N == {n \in Nat : \A t \in SUBSET S : Cardinality(t) = n => Sum(t) \in R}
<1>1. \A t \in SUBSET S : IsFiniteSet(t) /\ Cardinality(t) \in Nat
    BY FS_Subset, FS_CardinalityType
<1>2. 0 \in N
    <2>1. Sum({}) = 0
        BY SumEmpty
    <2>2. \A t \in SUBSET S : Cardinality(t) = 0 => t = {}
        BY <1>1, FS_EmptySet
    <2> HIDE DEF Sum
    <2>. QED  BY <2>1, <2>2
<1>3. ASSUME NEW n \in Nat, n \in N
      PROVE  n + 1 \in N
    <2> SUFFICES ASSUME NEW t \in SUBSET S, Cardinality(t) = n + 1 PROVE Sum(t) \in R
        OBVIOUS
    <2>1. t # {}
        BY <1>1, FS_EmptySet
    <2>2. Picked(t) \in t /\ Cardinality(t \ {Picked(t)}) = n
        BY <1>1, <2>1, PickedSmaller
    <2>3. Sum(t) = f[Picked(t)] + Sum(t \ {Picked(t)})
        BY <1>1, <2>1, SumPicked
    <2> HIDE DEF Sum
    <2>. QED  BY <1>3, <2>2, <2>3
<1> HIDE DEF N
<1>4. Nat \subseteq N
    BY <1>2, <1>3, SetInduction
<1>5. S \in SUBSET S /\ Cardinality(S) \in N
    BY <1>1, <1>4
<1>. QED  BY <1>5 DEF N

\* Sums of natural numbers are natural numbers.
LEMMA SumType ==
    ASSUME NEW S, IsFiniteSet(S), NEW f, \A x \in S : f[x] \in Nat
    PROVE  SumFunctionOnSet(f, S) \in Nat
<1>1. 0 \in Nat /\ \A a, b \in Nat : a + b \in Nat
    OBVIOUS
<1>. QED  BY <1>1, SumClosed

\* Sums of zeros are zero.
LEMMA SumZero ==
    ASSUME NEW S, IsFiniteSet(S), NEW f, \A x \in S : f[x] = 0
    PROVE  SumFunctionOnSet(f, S) = 0
<1> DEFINE R == {0}
<1>1. 0 \in R /\ (\A a, b \in R : a + b \in R) /\ \A x \in S : f[x] \in R
    OBVIOUS
<1> HIDE DEF R
<1>2. SumFunctionOnSet(f, S) \in R
    BY <1>1, SumClosed
<1>. QED  BY <1>2 DEF R

\* Any element may be taken out of a sum.
LEMMA SumRemove ==
    ASSUME NEW S, IsFiniteSet(S), NEW f, \A x \in S : f[x] \in Nat
    PROVE  \A x \in S : SumFunctionOnSet(f, S) = f[x] + SumFunctionOnSet(f, S \ {x})
<1> DEFINE Sum(t) == SumFunctionOnSet(f, t)
           N == {n \in Nat : \A t \in SUBSET S :
                    Cardinality(t) = n => \A x \in t : Sum(t) = f[x] + Sum(t \ {x})}
<1>1. \A t \in SUBSET S : IsFiniteSet(t) /\ Cardinality(t) \in Nat /\ Sum(t) \in Nat
    BY FS_Subset, FS_CardinalityType, SumType
<1>2. 0 \in N
    <2>1. \A t \in SUBSET S : Cardinality(t) = 0 => t = {}
        BY <1>1, FS_EmptySet
    <2>. QED  BY <2>1
<1>3. ASSUME NEW n \in Nat, n \in N
      PROVE  n + 1 \in N
    <2> SUFFICES ASSUME NEW t \in SUBSET S, Cardinality(t) = n + 1, NEW x \in t
                 PROVE  Sum(t) = f[x] + Sum(t \ {x})
        OBVIOUS
    <2> DEFINE p == Picked(t)
               u == (t \ {x}) \ {p}
    <2>1. p \in t /\ Cardinality(t \ {p}) = n
        BY <1>1, PickedSmaller
    <2>2. Sum(t) = f[p] + Sum(t \ {p})
        BY <1>1, SumPicked
    <2> HIDE DEF Sum, p
    <2>3. CASE x # p
        <3>1. Cardinality(t \ {x}) = Cardinality(t) - 1
            BY <1>1, FS_RemoveElement
        <3>2. \A s \in SUBSET S : Cardinality(s) = n => \A y \in s : Sum(s) = f[y] + Sum(s \ {y})
            BY <1>3
        <3>3. Sum(t \ {p}) = f[x] + Sum((t \ {p}) \ {x})
            BY <2>1, <2>3, <3>2
        <3>4. Sum(t \ {x}) = f[p] + Sum(u)
            BY <2>1, <2>3, <3>1, <3>2
        <3>5. (t \ {p}) \ {x} = u
            OBVIOUS
        <3>6. Sum(u) \in Nat /\ f[p] \in Nat /\ f[x] \in Nat
            BY <1>1, <2>1
        <3> HIDE DEF u
        <3>7. Sum(t) = f[p] + (f[x] + Sum(u))
            BY <2>2, <3>3, <3>5
        <3>. QED  BY <3>4, <3>6, <3>7
    <2>. QED  BY <2>2, <2>3
<1> HIDE DEF N
<1>4. Nat \subseteq N
    BY <1>2, <1>3, SetInduction
<1>5. S \in SUBSET S /\ Cardinality(S) \in N
    BY <1>1, <1>4
<1>. QED  BY <1>5 DEF N

\* One value of a sum changes.
LEMMA SumChange ==
    ASSUME NEW S, IsFiniteSet(S), NEW f, NEW g, NEW x \in S,
           \A y \in S : f[y] \in Nat /\ g[y] \in Nat,
           \A y \in S \ {x} : f[y] = g[y]
    PROVE  SumFunctionOnSet(g, S) + f[x] = SumFunctionOnSet(f, S) + g[x]
<1> DEFINE r == SumFunctionOnSet(f, S \ {x})
<1>1. IsFiniteSet(S \ {x})
    BY FS_RemoveElement
<1>2. r \in Nat /\ SumFunctionOnSet(g, S \ {x}) = r
    BY <1>1, SumType, SumAgree
<1>3. SumFunctionOnSet(f, S) = f[x] + r
    BY SumRemove
<1>4. SumFunctionOnSet(g, S) = g[x] + SumFunctionOnSet(g, S \ {x})
    BY SumRemove
<1> HIDE DEF r
<1>. QED  BY <1>2, <1>3, <1>4

\* A sum gets another element.
LEMMA SumAdd ==
    ASSUME NEW S, IsFiniteSet(S), NEW x, x \notin S, NEW f, NEW g,
           \A y \in S \cup {x} : g[y] \in Nat,
           \A y \in S : f[y] = g[y]
    PROVE  SumFunctionOnSet(g, S \cup {x}) = SumFunctionOnSet(f, S) + g[x]
<1> DEFINE T == S \cup {x}
<1>1. IsFiniteSet(T) /\ T \ {x} = S /\ x \in T
    BY FS_AddElement
<1>2. SumFunctionOnSet(g, T) = g[x] + SumFunctionOnSet(g, T \ {x})
    <2> HIDE DEF T
    <2>1. \A y \in T : g[y] \in Nat
        BY DEF T
    <2>. QED  BY <1>1, <2>1, SumRemove
<1>3. SumFunctionOnSet(g, S) = SumFunctionOnSet(f, S) /\ SumFunctionOnSet(g, S) \in Nat
    BY SumAgree, SumType
<1>4. SumFunctionOnSet(g, T) = g[x] + SumFunctionOnSet(f, S)
    <2> HIDE DEF T
    <2>. QED  BY <1>1, <1>2, <1>3
<1> HIDE DEF T
<1>5. g[x] \in Nat
    OBVIOUS
<1>6. SumFunctionOnSet(g, T) = SumFunctionOnSet(f, S) + g[x]
    BY <1>3, <1>4, <1>5
<1>. QED  BY <1>6 DEF T

-----------------------------------------------------------------------------
(* Transceivers and the threshold                                          *)

\* What register_transceiver, deregister_transceiver and set_threshold rely on:
\* ids are handed out in order and never twice.
AdminInv ==
    /\ config \in [Chains -> Config]
    /\ DOMAIN registered = Chains
    /\ \A c \in Chains :
           /\ DOMAIN registered[c] \subseteq Transceivers
           /\ \A t \in DOMAIN registered[c] :
                  /\ registered[c][t] \in 0..BITS - 1
                  /\ registered[c][t] < config[c].next_transceiver_id
           /\ \A t, u \in DOMAIN registered[c] :
                  registered[c][t] = registered[c][u] => t = u
    /\ ThresholdReachable

\* The instructions that change the Config account or the registered transceivers.
Reconfigures ==
    \E c \in Chains :
        \/ \E t \in Registrable : register_transceiver(c, t)
        \/ \E t \in Deregistrable : deregister_transceiver(c, t)
        \/ \E threshold \in NewThresholds : set_threshold(c, threshold)
        \/ \E paused \in Pauses : set_paused(c, paused)

\* Outbound instructions leave the configuration and the inboxes alone,
LEMMA OutboundFrame ==
    ASSUME NEW c \in Chains, Outbound(c)
    PROVE  UNCHANGED <<adminVars, inboxVars, now>>
BY DEF Outbound, transfer_burn, transfer_lock, Transfer, release_outbound, inboxVars

\* inbound ones the configuration and the outboxes,
LEMMA InboundFrame ==
    ASSUME NEW c \in Chains, Inbound(c)
    PROVE  UNCHANGED <<adminVars, outboxVars, now>>
BY DEF Inbound, receive_message, misattest, redeem, release_inbound_mint,
       release_inbound_unlock, release_inbox_item

\* administrative ones the messages, the inbox items and the tokens.
LEMMA AdministrationFrame ==
    ASSUME NEW c \in Chains, Administration(c)
    PROVE  UNCHANGED <<outboxVars, inboxVars, tokenVars, now>>
BY DEF Administration, set_peer, set_transceiver_peer, register_transceiver,
       deregister_transceiver, set_threshold, set_paused, SetConfig, set_outbound_limit,
       set_inbound_limit

\* Nothing else changes the Config account or the registered transceivers.
LEMMA ConfigFrame ==
    [Next]_vars => UNCHANGED <<config, registered>> \/ Reconfigures
<1> SUFFICES ASSUME [Next]_vars, ~Reconfigures PROVE UNCHANGED <<config, registered>>
    OBVIOUS
<1>1. CASE UNCHANGED vars \/ Tick
    BY <1>1 DEF vars, adminVars, Tick
<1>2. ASSUME NEW c \in Chains, Outbound(c) \/ Inbound(c)
      PROVE  UNCHANGED <<config, registered>>
    BY <1>2, OutboundFrame, InboundFrame DEF adminVars
<1>3. ASSUME NEW c \in Administered, Administration(c)
      PROVE  UNCHANGED <<config, registered>>
    BY <1>3, DeploymentAssumption
       DEF Administration, Reconfigures, set_peer, set_transceiver_peer, set_outbound_limit,
           set_inbound_limit, adminVars
<1>. QED  BY <1>1, <1>2, <1>3 DEF Next

\* Bitmaps have finitely many bits.
LEMMA BitmapsFinite ==
    ASSUME NEW S \in SUBSET (0..BITS - 1)
    PROVE  IsFiniteSet(S) /\ Cardinality(S) \in Nat
<1>1. 0 \in Int /\ BITS - 1 \in Int
    BY DeploymentAssumption
<1>2. IsFiniteSet(0..BITS - 1)
    BY <1>1, FS_Interval
<1>3. IsFiniteSet(S)
    BY <1>2, FS_Subset
<1>. QED  BY <1>3, FS_CardinalityType

\* Registered transceivers get the ids 0, 1, ... at the start.
LEMMA AdminInit == Init => AdminInv
<1> SUFFICES ASSUME Init PROVE AdminInv
    OBVIOUS
<1> DEFINE n == Len(Registered)
           ids == {Registered[i] : i \in DOMAIN Registered}
           place(t) == CHOOSE i \in DOMAIN Registered : Registered[i] = t
<1>1. n \in Nat /\ DOMAIN Registered = 1..n /\ n <= BITS /\ BITS \in Nat
      /\ Threshold \in 1..n
    BY DeploymentAssumption, LenProperties
<1>2. \A t \in ids : place(t) \in 1..n /\ Registered[place(t)] = t
    BY <1>1
<1>3. ids \subseteq Transceivers
    BY DeploymentAssumption, <1>1, ElementOfSeq
<1>4. \A c \in Chains : registered[c] = [t \in ids |-> place(t) - 1]
    BY DEF Init
<1>5. \A c \in Chains :
          /\ config[c].next_transceiver_id = n /\ config[c].threshold = Threshold
          /\ config[c].enabled_transceivers = 0..n - 1
    BY DEF Init
<1>6. config \in [Chains -> Config]
    BY <1>1 DEF Init, Config
<1>7. Cardinality(0..n - 1) = n
    <2>1. 0 \in Int /\ n - 1 \in Int
        BY <1>1
    <2>2. Cardinality(0..n - 1) = IF 0 > n - 1 THEN 0 ELSE (n - 1) - 0 + 1
        BY <2>1, FS_Interval
    <2>. QED  BY <1>1, <2>2
<1>8. ThresholdReachable
    BY <1>1, <1>5, <1>7 DEF ThresholdReachable
<1>9. DOMAIN registered = Chains
    BY DEF Init
<1> HIDE DEF n, ids, place
<1>10. ASSUME NEW c \in Chains
       PROVE  /\ DOMAIN registered[c] \subseteq Transceivers
              /\ \A t \in DOMAIN registered[c] :
                     /\ registered[c][t] \in 0..BITS - 1
                     /\ registered[c][t] < config[c].next_transceiver_id
              /\ \A t, u \in DOMAIN registered[c] :
                     registered[c][t] = registered[c][u] => t = u
    <2>1. DOMAIN registered[c] = ids /\ \A t \in ids : registered[c][t] = place(t) - 1
        BY <1>4
    <2>2. \A t \in ids : place(t) - 1 \in 0..BITS - 1 /\ place(t) - 1 < n
        BY <1>1, <1>2
    <2>3. ASSUME NEW t \in ids, NEW u \in ids, registered[c][t] = registered[c][u]
          PROVE  t = u
        <3>1. place(t) = place(u)
            BY <1>2, <2>1, <2>3
        <3>. QED  BY <1>2, <3>1
    <2>. QED  BY <1>3, <1>5, <2>1, <2>2, <2>3
<1>. QED  BY <1>6, <1>8, <1>9, <1>10 DEF AdminInv

\* register_transceiver hands out next_transceiver_id; deregister_transceiver lowers the
\* threshold with the enabled ones.
LEMMA AdminStep == AdminInv /\ [Next]_vars => AdminInv'
<1> SUFFICES ASSUME AdminInv, [Next]_vars PROVE AdminInv'
    OBVIOUS
<1>1. CASE UNCHANGED <<config, registered>>
    BY <1>1 DEF AdminInv, ThresholdReachable
<1> DEFINE Cfg(c) == config[c]
<1>2. \A c \in Chains : /\ config[c] \in Config
                        /\ IsFiniteSet(config[c].enabled_transceivers)
                        /\ Cardinality(config[c].enabled_transceivers) \in Nat
    BY BitmapsFinite DEF AdminInv, Config
<1>3. ASSUME NEW c \in Chains, NEW t \in Registrable, register_transceiver(c, t)
      PROVE  AdminInv'
    <2> DEFINE id == transceiver_id(c, t)
               enabled == config[c].enabled_transceivers \cup {id}
    <2>1. id \in Nat /\ id < BITS /\ id \in 0..BITS - 1 /\ t \in Transceivers
        BY <1>2, <1>3, DeploymentAssumption
           DEF register_transceiver, transceiver_id, AdminInv, Config, IsRegistered
    <2>2. config' = [config EXCEPT
              ![c].next_transceiver_id = IF IsRegistered(c, t) THEN @ ELSE @ + 1,
              ![c].enabled_transceivers = enabled]
        BY <1>3 DEF register_transceiver
    <2>3. registered' = [registered EXCEPT ![c] =
              [x \in DOMAIN @ \cup {t} |-> IF x = t THEN id ELSE @[x]]]
        BY <1>3 DEF register_transceiver
    <2> HIDE DEF id
    <2>4. enabled \in SUBSET (0..BITS - 1)
        BY <1>2, <2>1 DEF Config
    <2>5. Cardinality(config[c].enabled_transceivers) <= Cardinality(enabled)
        BY <1>2, <2>4, BitmapsFinite, FS_Subset
    <2> HIDE DEF enabled
    <2>6. config' \in [Chains -> Config]
        <3> DEFINE next == IF IsRegistered(c, t) THEN config[c].next_transceiver_id
                           ELSE config[c].next_transceiver_id + 1
        <3>1. next \in Nat
            BY <1>2 DEF Config
        <3>2. config'[c] = [config[c] EXCEPT !.next_transceiver_id = next,
                                             !.enabled_transceivers = enabled]
            BY <2>2 DEF AdminInv
        <3>3. config'[c] \in Config
            <4> HIDE DEF next
            <4>. QED  BY <1>2, <2>4, <3>1, <3>2 DEF Config
        <3>. QED  BY <2>2, <3>3 DEF AdminInv
    <2>7. ThresholdReachable'
        <3>1. \A d \in Chains \ {c} : config'[d] = config[d]
            BY <2>2 DEF AdminInv
        <3>2. /\ config'[c].threshold = config[c].threshold
              /\ config'[c].enabled_transceivers = enabled
            BY <2>2 DEF AdminInv, Config
        <3>3. config[c].threshold \in 1..Cardinality(enabled)
            BY <1>2, <2>4, <2>5, BitmapsFinite DEF AdminInv, ThresholdReachable
        <3>. QED  BY <3>1, <3>2, <3>3 DEF ThresholdReachable, AdminInv
    <2>8. DOMAIN registered' = Chains
        BY <2>3 DEF AdminInv
    <2>9. ASSUME NEW d \in Chains
          PROVE  /\ DOMAIN registered'[d] \subseteq Transceivers
                 /\ \A u \in DOMAIN registered'[d] :
                        /\ registered'[d][u] \in 0..BITS - 1
                        /\ registered'[d][u] < config'[d].next_transceiver_id
                 /\ \A u, v \in DOMAIN registered'[d] :
                        registered'[d][u] = registered'[d][v] => u = v
        <3>1. CASE d # c
            BY <2>2, <2>3, <3>1 DEF AdminInv
        <3>2. CASE d = c
            <4>1. registered'[c] = [x \in DOMAIN registered[c] \cup {t} |->
                                        IF x = t THEN id ELSE registered[c][x]]
                BY <2>3 DEF AdminInv
            <4>2. CASE IsRegistered(c, t)
                <5>1. id = registered[c][t]
                    BY <4>2 DEF id, transceiver_id
                <5>2. config'[c].next_transceiver_id = config[c].next_transceiver_id
                    BY <2>2, <4>2 DEF AdminInv, Config
                <5>. QED  BY <3>2, <4>1, <4>2, <5>1, <5>2 DEF AdminInv, IsRegistered
            <4>3. CASE ~IsRegistered(c, t)
                <5>1. id = config[c].next_transceiver_id /\ id \in Nat
                    BY <2>1, <4>3 DEF id, transceiver_id
                <5>2. config'[c].next_transceiver_id = id + 1
                    BY <2>2, <4>3, <5>1 DEF AdminInv, Config
                <5>. QED  BY <2>1, <3>2, <4>1, <4>3, <5>1, <5>2 DEF AdminInv, IsRegistered
            <4>. QED  BY <4>2, <4>3
        <3>. QED  BY <3>1, <3>2
    <2>. QED  BY <2>6, <2>7, <2>8, <2>9 DEF AdminInv
<1>4. ASSUME NEW c \in Chains, NEW new_config \in Config, SetConfig(c, new_config),
             new_config.next_transceiver_id = config[c].next_transceiver_id,
             new_config.threshold \in 1..Cardinality(new_config.enabled_transceivers)
      PROVE  AdminInv'
    <2>1. config' = [config EXCEPT ![c] = new_config] /\ registered' = registered
        BY <1>4 DEF SetConfig
    <2>2. \A d \in Chains : config'[d] = IF d = c THEN new_config ELSE config[d]
        BY <2>1 DEF AdminInv
    <2>3. config' \in [Chains -> Config]
        BY <1>4, <2>1 DEF AdminInv
    <2>4. ThresholdReachable'
        BY <1>4, <2>2 DEF ThresholdReachable, AdminInv
    <2>5. \A d \in Chains : config'[d].next_transceiver_id = config[d].next_transceiver_id
        BY <1>4, <2>2
    <2>. QED  BY <2>1, <2>3, <2>4, <2>5 DEF AdminInv
<1>5. ASSUME NEW c \in Chains, NEW t \in Deregistrable, deregister_transceiver(c, t)
      PROVE  AdminInv'
    <2> DEFINE enabled == config[c].enabled_transceivers \ {registered[c][t]}
               lower == Lowest(config[c].threshold, Cardinality(enabled))
               changed == [config[c] EXCEPT !.enabled_transceivers = enabled,
                                            !.threshold = lower]
    <2>1. enabled # {} /\ SetConfig(c, changed)
        BY <1>5, <1>2 DEF deregister_transceiver, Config
    <2>2. enabled \in SUBSET (0..BITS - 1)
        BY <1>2 DEF Config
    <2>3. Cardinality(enabled) \in Nat \ {0}
        BY <2>1, <2>2, BitmapsFinite, FS_EmptySet
    <2>4. config[c].threshold \in Nat \ {0}
        BY <1>2 DEF Config
    <2>5. lower \in 1..Cardinality(enabled)
        BY <2>3, <2>4 DEF Lowest
    <2> HIDE DEF lower, enabled
    <2>6. /\ changed \in Config
          /\ changed.next_transceiver_id = config[c].next_transceiver_id
          /\ changed.threshold = lower /\ changed.enabled_transceivers = enabled
        <3>1. lower \in Nat \ {0}
            BY <2>3, <2>5
        <3>. QED  BY <1>2, <2>2, <3>1 DEF Config
    <2> HIDE DEF changed
    <2>. QED  BY <1>4, <2>1, <2>5, <2>6
<1>6. ASSUME NEW c \in Chains, NEW threshold \in NewThresholds, set_threshold(c, threshold)
      PROVE  AdminInv'
    <2> DEFINE changed == [config[c] EXCEPT !.threshold = threshold]
    <2>1. threshold \in Nat \ {0} /\ threshold <= Cardinality(config[c].enabled_transceivers)
        BY <1>6, DeploymentAssumption DEF set_threshold
    <2>2. /\ changed \in Config
          /\ changed.next_transceiver_id = config[c].next_transceiver_id
          /\ changed.threshold = threshold
          /\ changed.enabled_transceivers = config[c].enabled_transceivers
        BY <1>2, <2>1 DEF Config
    <2>3. SetConfig(c, changed)
        BY <1>6 DEF set_threshold
    <2>4. changed.threshold \in 1..Cardinality(changed.enabled_transceivers)
        BY <1>2, <2>1, <2>2
    <2> HIDE DEF changed
    <2>. QED  BY <1>4, <2>2, <2>3, <2>4
<1>7. ASSUME NEW c \in Chains, NEW paused \in Pauses, set_paused(c, paused)
      PROVE  AdminInv'
    <2> DEFINE changed == [config[c] EXCEPT !.paused = paused]
    <2>1. /\ changed \in Config
          /\ changed.next_transceiver_id = config[c].next_transceiver_id
          /\ changed.threshold = config[c].threshold
          /\ changed.enabled_transceivers = config[c].enabled_transceivers
        <3>1. paused \in BOOLEAN
            BY DeploymentAssumption
        <3>2. config[c] \in Config
            BY <1>2
        <3>. QED  BY <3>1, <3>2 DEF Config
    <2>2. SetConfig(c, changed)
        BY <1>7 DEF set_paused
    <2>3. changed.threshold \in 1..Cardinality(changed.enabled_transceivers)
        BY <1>2, <2>1 DEF AdminInv, ThresholdReachable
    <2> HIDE DEF changed
    <2>. QED  BY <1>4, <2>1, <2>2, <2>3
<1>. QED  BY <1>1, <1>3, <1>5, <1>6, <1>7, ConfigFrame DEF Reconfigures


-----------------------------------------------------------------------------
(* Amounts and limiters                                                    *)

\* Products and quotients of natural numbers are natural numbers.
LEMMA ArithmeticTypes ==
    ASSUME NEW x \in Nat, NEW y \in Nat, NEW d \in Nat \ {0}
    PROVE  x * y \in Nat /\ x \div d \in Nat
<1>1. x * y \in Nat
    BY SMT
<1>2. x \div d \in Nat
    BY Z3
<1>. QED  BY <1>1, <1>2

\* Scaling gives natural numbers.
LEMMA ScaleType ==
    ASSUME NEW amount \in Nat, NEW from_decimals \in Nat, NEW to_decimals \in Nat
    PROVE  scale(amount, from_decimals, to_decimals) \in Nat
<1>1. Factor(from_decimals, to_decimals) \in Nat \ {0}
    <2>1. CASE from_decimals > to_decimals
        <3>1. from_decimals - to_decimals \in Nat
            BY <2>1
        <3>. QED  BY <2>1, <3>1, PowType DEF Factor
    <2>2. CASE ~(from_decimals > to_decimals)
        <3>1. to_decimals - from_decimals \in Nat
            BY <2>2
        <3>. QED  BY <2>2, <3>1, PowType DEF Factor
    <2>. QED  BY <2>1, <2>2
<1>. QED  BY <1>1, ArithmeticTypes DEF scale

\* An amount is trimmed to decimals that neither chain exceeds.
LEMMA TrimType ==
    ASSUME NEW amount \in Nat, NEW from_decimals \in Nat, NEW to_decimals \in Nat
    PROVE  /\ trim(amount, from_decimals, to_decimals) \in TrimmedAmount
           /\ trim(amount, from_decimals, to_decimals).decimals <= from_decimals
           /\ trim(amount, from_decimals, to_decimals).decimals <= to_decimals
           /\ WithoutDust(amount, from_decimals, to_decimals) \in Nat
<1> DEFINE decimals == Lowest(TRIMMED_DECIMALS, Lowest(from_decimals, to_decimals))
<1>1. decimals \in Nat /\ decimals <= from_decimals /\ decimals <= to_decimals
    BY TrimmedAssumption DEF Lowest
<1>2. trim(amount, from_decimals, to_decimals) =
          [amount |-> scale(amount, from_decimals, decimals), decimals |-> decimals]
    BY DEF trim
<1> HIDE DEF decimals
<1>3. scale(amount, from_decimals, decimals) \in Nat
    BY <1>1, ScaleType
<1>4. scale(scale(amount, from_decimals, decimals), decimals, from_decimals) \in Nat
    BY <1>1, <1>3, ScaleType
<1>. QED  BY <1>1, <1>2, <1>3, <1>4 DEF TrimmedAmount, WithoutDust, untrim

\* Untrimming gives a natural number.
LEMMA UntrimType ==
    ASSUME NEW trimmed \in TrimmedAmount, NEW to_decimals \in Nat
    PROVE  untrim(trimmed, to_decimals) \in Nat
BY ScaleType DEF untrim, TrimmedAmount

\* A limiter that was not used in the future (the assertion of capacity_at).
Limiter(s, t) == s \in RateLimitState /\ s.last_tx_timestamp <= t

\* capacity_at does not underflow.
LEMMA CapacityType ==
    ASSUME NEW t \in Nat, NEW s, Limiter(s, t)
    PROVE  capacity_at(s, t) \in Nat
<1>1. /\ s.limit \in Nat /\ s.capacity_at_last_tx \in Nat
      /\ t - s.last_tx_timestamp \in Nat /\ RATE_LIMIT_DURATION \in Nat \ {0}
    BY DurationAssumption DEF Limiter, RateLimitState
<1> DEFINE e == t - s.last_tx_timestamp
<1>2. e * s.limit \in Nat
    BY <1>1, ArithmeticTypes
<1>3. (e * s.limit) \div RATE_LIMIT_DURATION \in Nat
    BY <1>1, <1>2, ArithmeticTypes
<1> DEFINE q == (e * s.limit) \div RATE_LIMIT_DURATION
<1>4. capacity_at(s, t) = IF s.capacity_at_last_tx + q > s.limit THEN s.limit
                          ELSE s.capacity_at_last_tx + q
    BY DEF capacity_at, AtMost
<1> HIDE DEF q
<1>. QED  BY <1>1, <1>3, <1>4 DEF q

\* The methods of RateLimitState keep the struct well-formed.
LEMMA LimiterMethods ==
    ASSUME NEW t \in Nat, NEW s, Limiter(s, t), NEW amount \in Nat
    PROVE  /\ Limiter(consume_or_delay(s, t, amount), t)
           /\ Limiter(refill(s, t, amount), t)
           /\ Limiter(set_limit(s, t, amount), t)
           /\ Limiter(UpdateLimit(s, t, amount), t)
           /\ Limiter(new(amount), t)
           /\ ReleaseTimestamp(s, t, amount) \in Nat
<1>1. capacity_at(s, t) \in Nat
    BY CapacityType
<1>a. ASSUME NEW capacity \in Nat
      PROVE  Limiter(WithCapacity(s, capacity, t), t)
    <2>1. s \in RateLimitState
        BY DEF Limiter
    <2>2. /\ WithCapacity(s, capacity, t) \in RateLimitState
          /\ WithCapacity(s, capacity, t).last_tx_timestamp = t
        BY <2>1 DEF WithCapacity, RateLimitState
    <2>. QED  BY <2>2 DEF Limiter
<1>2. Limiter(consume_or_delay(s, t, amount), t)
    <2>1. capacity_at(s, t) >= amount => capacity_at(s, t) - amount \in Nat
        BY <1>1
    <2>. QED  BY <1>a, <2>1 DEF consume_or_delay, Fits
<1>3. Limiter(refill(s, t, amount), t)
    <2>1. AtMost(s.limit, capacity_at(s, t) + amount) \in Nat
        BY <1>1 DEF AtMost, Limiter, RateLimitState
    <2>. QED  BY <1>a, <2>1 DEF refill
<1>4. Limiter(set_limit(s, t, amount), t)
    <2> DEFINE moved == capacity_at(s, t) + amount - s.limit
    <2>1. moved \in Int
        BY <1>1 DEF Limiter, RateLimitState
    <2>2. set_limit(s, t, amount) =
              [limit |-> amount,
               capacity_at_last_tx |-> AtMost(amount, IF moved < 0 THEN 0 ELSE moved),
               last_tx_timestamp |-> t]
        BY DEF set_limit
    <2> HIDE DEF moved
    <2>3. AtMost(amount, IF moved < 0 THEN 0 ELSE moved) \in Nat
        BY <2>1 DEF AtMost
    <2>. QED  BY <2>2, <2>3 DEF Limiter, RateLimitState
<1>5. Limiter(new(amount), t)
    BY DEF new, Limiter, RateLimitState
<1>6. Limiter(UpdateLimit(s, t, amount), t)
    BY <1>4, <1>5 DEF UpdateLimit
<1>7. ReleaseTimestamp(s, t, amount) \in Nat
    BY DurationAssumption DEF ReleaseTimestamp
<1>. QED  BY <1>2, <1>3, <1>4, <1>5, <1>6, <1>7


-----------------------------------------------------------------------------
(* Types of the accounts                                                   *)

\* Every peer has its limiter, and no limiter was used in the future.
LimitInv ==
    /\ now \in Nat \ {0}
    /\ outbox_rate_limit \in [Chains -> RateLimitState]
    /\ DOMAIN peers = Chains
    /\ DOMAIN inbox_rate_limit = Chains
    /\ \A c \in Chains :
           /\ Limiter(outbox_rate_limit[c], now)
           /\ DOMAIN peers[c] \subseteq Chains \ {c}
           /\ DOMAIN inbox_rate_limit[c] = DOMAIN peers[c]
           /\ \A d \in DOMAIN peers[c] : /\ peers[c][d] \in NttManagerPeer
                                         /\ Limiter(inbox_rate_limit[c][d], now)

\* The messages in the outboxes, sent and received.
MessageInv ==
    /\ DOMAIN outbox = Chains
    /\ DOMAIN validated = Chains
    /\ vaas \subseteq Transceivers \X NttManagerMessage
    /\ \A c \in Chains : /\ outbox[c] \in Seq(OutboxItem)
                         /\ validated[c] \subseteq Transceivers \X NttManagerMessage

\* The inbox items.
InboxInv ==
    /\ DOMAIN inbox = Chains
    /\ \A c \in Chains : \A k \in DOMAIN inbox[c] : inbox[c][k] \in InboxItem

TokenInv ==
    /\ balance \in [Chains -> Nat]
    /\ custody \in [Chains -> Nat]

AccountInv == AdminInv /\ LimitInv /\ MessageInv /\ InboxInv /\ TokenInv

\* The groups together say that the accounts are well-formed.
LEMMA AccountsTyped == AccountInv => TypeOK
<1> SUFFICES ASSUME AccountInv PROVE TypeOK
    OBVIOUS
<1>. QED
    BY DEF AccountInv, AdminInv, LimitInv, MessageInv, InboxInv, TokenInv, TypeOK, Limiter

\* What a transfer takes from the sender is a number of tokens.
LEMMA TransferNumbers ==
    ASSUME LimitInv, NEW c \in Chains, NEW d \in DOMAIN peers[c], NEW amount \in Amounts[c]
    PROVE  /\ amount \in Nat /\ Decimals[c] \in Nat /\ peers[c][d].token_decimals \in Nat
           /\ trim(amount, Decimals[c], peers[c][d].token_decimals) \in TrimmedAmount
           /\ WithoutDust(amount, Decimals[c], peers[c][d].token_decimals) \in Nat
<1>1. amount \in Nat /\ Decimals[c] \in Nat /\ peers[c][d].token_decimals \in Nat
    BY DeploymentAssumption DEF LimitInv, NttManagerPeer
<1>. QED  BY <1>1, TrimType

\* The amount a message brings.
LEMMA RedeemNumbers ==
    ASSUME NEW c \in Chains, NEW message \in NttManagerMessage
    PROVE  /\ Decimals[c] \in Nat /\ message.amount \in TrimmedAmount
           /\ untrim(message.amount, Decimals[c]) \in Nat
<1>1. Decimals[c] \in Nat /\ message.amount \in TrimmedAmount
    BY DeploymentAssumption DEF NttManagerMessage
<1>. QED  BY <1>1, UntrimType

\* A step replaces some limiters by sound ones.
LEMMA LimitersReplaced ==
    ASSUME LimitInv, UNCHANGED <<peers, now>>,
           outbox_rate_limit' \in [Chains -> RateLimitState], DOMAIN inbox_rate_limit' = Chains,
           \A c \in Chains :
               /\ Limiter(outbox_rate_limit'[c], now)
               /\ DOMAIN inbox_rate_limit'[c] = DOMAIN inbox_rate_limit[c]
               /\ \A d \in DOMAIN peers[c] : Limiter(inbox_rate_limit'[c][d], now)
    PROVE  LimitInv'
BY DEF LimitInv

\* New limiters were used at time 0.
LEMMA LimitInit == Init => LimitInv
<1> SUFFICES ASSUME Init PROVE LimitInv
    OBVIOUS
<1>1. \A c \in Chains : Limiter(new(Limit[c]), 1) /\ Decimals[c] \in Nat
    BY DeploymentAssumption DEF new, Limiter, RateLimitState
<1>2. now = 1
    BY DEF Init
<1>3. ASSUME NEW c \in Chains
      PROVE  /\ Limiter(outbox_rate_limit[c], now)
             /\ DOMAIN peers[c] \subseteq Chains \ {c}
             /\ DOMAIN inbox_rate_limit[c] = DOMAIN peers[c]
             /\ \A d \in DOMAIN peers[c] : /\ peers[c][d] \in NttManagerPeer
                                           /\ Limiter(inbox_rate_limit[c][d], now)
    BY <1>1, <1>2, <1>3 DEF Init, NttManagerPeer
<1>4. outbox_rate_limit \in [Chains -> RateLimitState]
    BY <1>1 DEF Init, Limiter
<1>. QED  BY <1>2, <1>3, <1>4 DEF Init, LimitInv

\* Every method of a limiter is called with the current time.
LEMMA LimitStep == LimitInv /\ MessageInv /\ [Next]_vars => LimitInv'
<1> SUFFICES ASSUME LimitInv, MessageInv, [Next]_vars PROVE LimitInv'
    OBVIOUS
<1>0. now \in Nat
    BY DEF LimitInv
<1>1. CASE UNCHANGED <<peers, limitVars, now>>
    BY <1>1 DEF LimitInv, limitVars
<1>2. CASE Tick
    <2>1. now' \in Nat \ {0} /\ now <= now' /\ UNCHANGED <<peers, limitVars>>
        BY <1>0, <1>2 DEF Tick, adminVars
    <2>2. \A s : Limiter(s, now) => Limiter(s, now')
        BY <1>0, <2>1 DEF Limiter, RateLimitState
    <2>. QED  BY <2>1, <2>2 DEF LimitInv, limitVars
<1>3. ASSUME NEW c \in Chains, NEW d \in Chains, NEW amount \in Amounts[c],
             NEW should_queue, Transfer(c, d, amount, should_queue)
      PROVE  LimitInv'
    <2> DEFINE kept == WithoutDust(amount, Decimals[c], peers[c][d].token_decimals)
    <2>1. d \in DOMAIN peers[c] /\ UNCHANGED <<peers, now>>
        BY <1>3 DEF Transfer, adminVars
    <2>2. kept \in Nat
        BY <2>1, TransferNumbers
    <2>3. insert_into_outbox(c, d, trim(amount, Decimals[c], peers[c][d].token_decimals),
                             kept, should_queue)
        BY <1>3 DEF Transfer
    <2> HIDE DEF kept
    <2>4. /\ outbox_rate_limit' =
                 [outbox_rate_limit EXCEPT ![c] = consume_or_delay(@, now, kept)]
          /\ \/ inbox_rate_limit' = [inbox_rate_limit EXCEPT ![c][d] = refill(@, now, kept)]
             \/ inbox_rate_limit' = inbox_rate_limit
        BY <2>3 DEF insert_into_outbox
    <2>5. /\ Limiter(consume_or_delay(outbox_rate_limit[c], now, kept), now)
          /\ Limiter(refill(inbox_rate_limit[c][d], now, kept), now)
        BY <1>0, <2>1, <2>2, LimiterMethods DEF LimitInv
    <2>6. outbox_rate_limit' \in [Chains -> RateLimitState]
        BY <2>4, <2>5 DEF LimitInv, Limiter
    <2>. QED  BY <2>1, <2>4, <2>5, <2>6, LimitersReplaced DEF LimitInv
<1>4. ASSUME NEW c \in Chains, NEW v \in validated[c], redeem(c, v[1], v[2])
      PROVE  LimitInv'
    <2> DEFINE message == v[2]
               d == message.from_chain
               amount == untrim(message.amount, Decimals[c])
    <2>1. message \in NttManagerMessage
        BY <1>4 DEF MessageInv
    <2>2. d \in DOMAIN peers[c] /\ UNCHANGED <<peers, now>>
        BY <1>4 DEF redeem, MayRedeem, adminVars
    <2>3. amount \in Nat
        BY <2>1, RedeemNumbers
    <2>4. \/ UNCHANGED limitVars
          \/ /\ inbox_rate_limit' =
                    [inbox_rate_limit EXCEPT ![c][d] = consume_or_delay(@, now, amount)]
             /\ \/ outbox_rate_limit' =
                       [outbox_rate_limit EXCEPT ![c] = refill(@, now, amount)]
                \/ outbox_rate_limit' = outbox_rate_limit
        BY <1>4 DEF redeem
    <2> HIDE DEF amount, d
    <2>5. /\ Limiter(refill(outbox_rate_limit[c], now, amount), now)
          /\ Limiter(consume_or_delay(inbox_rate_limit[c][d], now, amount), now)
        BY <1>0, <2>2, <2>3, LimiterMethods DEF LimitInv
    <2>6. outbox_rate_limit' \in [Chains -> RateLimitState]
        BY <2>4, <2>5 DEF LimitInv, Limiter, limitVars
    <2>. QED  BY <2>2, <2>4, <2>5, <2>6, LimitersReplaced DEF LimitInv, limitVars
<1>5. ASSUME NEW c \in Chains, NEW d \in Chains, NEW address \in PeerAddresses,
             NEW limit \in NewLimits[c], NEW token_decimals \in PeerDecimals[d],
             set_peer(c, d, address, token_decimals, limit)
      PROVE  LimitInv'
    <2> DEFINE peer == [address |-> address, token_decimals |-> token_decimals]
               limiter == IF d \in DOMAIN inbox_rate_limit[c]
                          THEN UpdateLimit(inbox_rate_limit[c][d], now, limit) ELSE new(limit)
    <2>1. limit \in Nat /\ peer \in NttManagerPeer /\ d # c
        BY <1>5, DeploymentAssumption DEF NttManagerPeer, set_peer
    <2>2. Limiter(new(limit), now)
        BY <1>0, <2>1 DEF new, Limiter, RateLimitState
    <2>3. Limiter(limiter, now)
        BY <1>0, <2>1, <2>2, LimiterMethods DEF LimitInv
    <2>4. /\ peers'[c] = [x \in DOMAIN peers[c] \cup {d} |-> IF x = d THEN peer ELSE peers[c][x]]
          /\ \A e \in Chains \ {c} : peers'[e] = peers[e]
          /\ DOMAIN peers' = Chains
        BY <1>5 DEF set_peer, LimitInv
    <2>5. inbox_rate_limit'[c] = [x \in DOMAIN inbox_rate_limit[c] \cup {d} |->
                                     IF x = d THEN limiter ELSE inbox_rate_limit[c][x]]
        BY <1>5 DEF set_peer, LimitInv
    <2>6. /\ \A e \in Chains \ {c} : inbox_rate_limit'[e] = inbox_rate_limit[e]
          /\ DOMAIN inbox_rate_limit' = Chains
          /\ UNCHANGED <<outbox_rate_limit, now>>
        BY <1>5 DEF set_peer, LimitInv
    <2> HIDE DEF limiter, peer
    <2>7. ASSUME NEW e \in Chains
          PROVE  /\ DOMAIN peers'[e] \subseteq Chains \ {e}
                 /\ DOMAIN inbox_rate_limit'[e] = DOMAIN peers'[e]
                 /\ \A x \in DOMAIN peers'[e] : /\ peers'[e][x] \in NttManagerPeer
                                                /\ Limiter(inbox_rate_limit'[e][x], now)
        BY <2>1, <2>3, <2>4, <2>5, <2>6 DEF LimitInv
    <2>. QED  BY <2>4, <2>6, <2>7 DEF LimitInv
<1>6. ASSUME NEW c \in Chains, NEW limit \in NewLimits[c], set_outbound_limit(c, limit)
      PROVE  LimitInv'
    <2>1. Limiter(set_limit(outbox_rate_limit[c], now, limit), now)
        BY <1>0, DeploymentAssumption, LimiterMethods DEF LimitInv
    <2>2. outbox_rate_limit' \in [Chains -> RateLimitState]
        BY <1>6, <2>1 DEF LimitInv, Limiter, set_outbound_limit
    <2>. QED  BY <1>6, <2>1, <2>2, LimitersReplaced DEF LimitInv, set_outbound_limit, adminVars
<1>7. ASSUME NEW c \in Chains, NEW limit \in NewLimits[c], NEW d \in Chains,
             set_inbound_limit(c, d, limit)
      PROVE  LimitInv'
    <2>1. Limiter(set_limit(inbox_rate_limit[c][d], now, limit), now)
        BY <1>0, <1>7, DeploymentAssumption, LimiterMethods DEF LimitInv, set_inbound_limit
    <2>. QED  BY <1>7, <2>1, LimitersReplaced DEF LimitInv, set_inbound_limit, adminVars
<1>8. ASSUME NEW c \in Chains, Outbound(c)
      PROVE  LimitInv'
    BY <1>1, <1>3, <1>8 DEF Outbound, transfer_burn, transfer_lock, release_outbound, adminVars
<1>9. ASSUME NEW c \in Chains, Inbound(c)
      PROVE  LimitInv'
    BY <1>1, <1>4, <1>9 DEF Inbound, receive_message, misattest, release_inbound_mint,
       release_inbound_unlock, release_inbox_item, adminVars
<1>10. ASSUME NEW c \in Chains, Administration(c)
       PROVE  LimitInv'
    BY <1>1, <1>5, <1>6, <1>7, <1>10 DEF Administration, set_transceiver_peer,
       register_transceiver, deregister_transceiver, set_threshold, set_paused, SetConfig
<1>11. CASE UNCHANGED vars
    BY <1>1, <1>11 DEF vars, adminVars
<1>. QED  BY <1>2, <1>8, <1>9, <1>10, <1>11, DeploymentAssumption DEF Next


\* No message exists at the start.
LEMMA MessageInit == Init => MessageInv
BY EmptySeq DEF Init, MessageInv

\* The message of an outbox item.
LEMMA MessageType ==
    ASSUME MessageInv, NEW c \in Chains, NEW i \in DOMAIN outbox[c]
    PROVE  /\ outbox[c][i] \in OutboxItem
           /\ i \in Nat
           /\ Message(c, i) \in NttManagerMessage
<1>1. i \in Nat /\ outbox[c][i] \in OutboxItem
    BY LenProperties, ElementOfSeq DEF MessageInv
<1>. QED  BY <1>1 DEF Message, OutboxItem, NttManagerMessage

\* Transfers, transceivers and relayers produce well-formed messages.
LEMMA MessageStep == AdminInv /\ LimitInv /\ MessageInv /\ [Next]_vars => MessageInv'
<1> SUFFICES ASSUME AdminInv, LimitInv, MessageInv, [Next]_vars PROVE MessageInv'
    OBVIOUS
<1>1. CASE UNCHANGED <<outboxVars, validated>>
    BY <1>1 DEF MessageInv, outboxVars
<1>2. ASSUME NEW c \in Chains, NEW d \in Chains, NEW amount \in Amounts[c],
             NEW should_queue, Transfer(c, d, amount, should_queue)
      PROVE  MessageInv'
    <2> DEFINE to_decimals == peers[c][d].token_decimals
               kept == WithoutDust(amount, Decimals[c], to_decimals)
               item == [amount |-> trim(amount, Decimals[c], to_decimals),
                        recipient_chain |-> d,
                        recipient_ntt_manager |-> peers[c][d].address,
                        release_timestamp |-> ReleaseTimestamp(outbox_rate_limit[c], now, kept),
                        released |-> {}]
    <2>1. d \in DOMAIN peers[c] /\ UNCHANGED <<vaas, validated>>
        BY <1>2 DEF Transfer, inboxVars
    <2>2. kept \in Nat /\ trim(amount, Decimals[c], to_decimals) \in TrimmedAmount
        BY <2>1, TransferNumbers
    <2>3. ReleaseTimestamp(outbox_rate_limit[c], now, kept) \in Nat
        <3> HIDE DEF kept
        <3>1. now \in Nat /\ Limiter(outbox_rate_limit[c], now)
            BY DEF LimitInv
        <3>. QED  BY <2>2, <3>1, LimiterMethods
    <2>4. peers[c][d].address \in Chains \cup PeerAddresses
        BY <2>1 DEF LimitInv, NttManagerPeer
    <2>5. item \in OutboxItem
        <3> HIDE DEF kept
        <3>. QED  BY <2>2, <2>3, <2>4 DEF OutboxItem
    <2>6. outbox' = [outbox EXCEPT ![c] = Append(@, item)]
        BY <1>2 DEF Transfer, insert_into_outbox
    <2> HIDE DEF item
    <2>7. Append(outbox[c], item) \in Seq(OutboxItem)
        BY <2>5, AppendProperties DEF MessageInv
    <2>. QED  BY <2>1, <2>6, <2>7 DEF MessageInv
<1>3. ASSUME NEW c \in Chains, NEW t \in Transceivers, NEW i \in DOMAIN outbox[c],
             release_outbound(c, t, i)
      PROVE  MessageInv'
    <2> DEFINE item == [outbox[c][i] EXCEPT !.released = @ \cup {registered[c][t]}]
    <2>1. registered[c][t] \in 0..BITS - 1
        BY <1>3 DEF release_outbound, Enabled, IsRegistered, AdminInv
    <2>2. outbox[c][i] \in OutboxItem /\ Message(c, i) \in NttManagerMessage
        BY MessageType
    <2>3. item \in OutboxItem
        BY <2>1, <2>2 DEF OutboxItem
    <2>4. outbox' = [outbox EXCEPT ![c] = [@ EXCEPT ![i] = item]]
        BY <1>3 DEF release_outbound
    <2>5. vaas' = vaas \cup {<<t, Message(c, i)>>} /\ UNCHANGED validated
        BY <1>3 DEF release_outbound, inboxVars
    <2> HIDE DEF item
    <2>6. [outbox[c] EXCEPT ![i] = item] \in Seq(OutboxItem)
        BY <2>3, ExceptSeq, LenProperties DEF MessageInv
    <2>. QED  BY <2>2, <2>4, <2>5, <2>6 DEF MessageInv
<1>4. ASSUME NEW c \in Chains, NEW t \in Transceivers, NEW message \in NttManagerMessage,
             validated' = [validated EXCEPT ![c] = @ \cup {<<t, message>>}],
             UNCHANGED outboxVars
      PROVE  MessageInv'
    BY <1>4 DEF MessageInv, outboxVars
<1>5. ASSUME NEW c \in Chains, Outbound(c)
      PROVE  MessageInv'
    BY <1>2, <1>3, <1>5 DEF Outbound, transfer_burn, transfer_lock
<1>6. ASSUME NEW c \in Chains, NEW vaa \in vaas, receive_message(c, vaa[1], vaa[2])
      PROVE  MessageInv'
    <2>1. vaa[1] \in Transceivers /\ vaa[2] \in NttManagerMessage
        BY DEF MessageInv
    <2>. QED  BY <1>4, <1>6, <2>1 DEF receive_message
<1>7. ASSUME NEW c \in Chains, NEW t \in Faulty, NEW message \in Phantoms,
             misattest(c, t, message)
      PROVE  MessageInv'
    BY <1>4, <1>7, DeploymentAssumption, PhantomsAssumption DEF misattest
<1>8. ASSUME NEW c \in Chains, Inbound(c)
      PROVE  MessageInv'
    BY <1>1, <1>6, <1>7, <1>8 DEF Inbound, redeem, release_inbound_mint,
       release_inbound_unlock, release_inbox_item
<1>9. ASSUME NEW c \in Chains, Administration(c)
      PROVE  MessageInv'
    BY <1>1, <1>9, AdministrationFrame DEF inboxVars
<1>10. CASE UNCHANGED vars \/ Tick
    BY <1>1, <1>10 DEF vars, Tick, inboxVars
<1>. QED  BY <1>5, <1>8, <1>9, <1>10, DeploymentAssumption DEF Next

-----------------------------------------------------------------------------
(* The inbox                                                               *)

\* redeem puts one item; everything else of the inboxes stays.
Redeems(c, k, item) ==
    /\ DOMAIN inbox' = Chains
    /\ \A d \in Chains \ {c} : inbox'[d] = inbox[d]
    /\ inbox'[c] = [x \in DOMAIN inbox[c] \cup {k} |-> IF x = k THEN item ELSE inbox[c][x]]

\* What redeem does to the inbox: the vote is added, and the item approved if
\* the enabled ones among the votes are enough.
LEMMA RedeemEffect ==
    ASSUME AdminInv, LimitInv, MessageInv, InboxInv, NEW c \in Chains, NEW v \in validated[c],
           redeem(c, v[1], v[2])
    PROVE  LET item == ItemOf(c, v[2])
               votes == item.votes \cup {registered[c][v[1]]}
           IN  /\ item \in InboxItem
               /\ IsRegistered(c, v[1])
               /\ registered[c][v[1]] \in 0..BITS - 1
               /\ \E new_item \in InboxItem :
                      /\ new_item.amount = item.amount
                      /\ new_item.votes = votes
                      /\ \/ new_item.release_status = item.release_status
                         \/ /\ item.release_status = NotApproved
                            /\ new_item.release_status.tag = "ReleaseAfter"
                            /\ Cardinality(votes \cap config[c].enabled_transceivers) >=
                                   config[c].threshold
                      /\ Redeems(c, keccak256(v[2]), new_item)
<1> DEFINE message == v[2]
           d == message.from_chain
           item == ItemOf(c, message)
           amount == untrim(message.amount, Decimals[c])
           id == registered[c][v[1]]
           votes == item.votes \cup {id}
           timestamp == ReleaseTimestamp(inbox_rate_limit[c][d], now, amount)
           k == keccak256(message)
<1>1. message \in NttManagerMessage
    BY DEF MessageInv
<1>2. amount \in Nat
    BY <1>1, RedeemNumbers
<1>3. NotApproved \in ReleaseStatus
    BY DEF NotApproved, ReleaseStatus
<1>4. item \in InboxItem
    <2>1. CASE k \in DOMAIN inbox[c]
        BY <2>1 DEF ItemOf, InboxInv
    <2>2. CASE k \notin DOMAIN inbox[c]
        <3>1. item = [amount |-> amount, votes |-> {}, release_status |-> NotApproved]
            BY <2>2 DEF ItemOf
        <3> HIDE DEF amount, item
        <3>. QED  BY <1>2, <1>3, <3>1 DEF InboxItem
    <2>. QED  BY <2>1, <2>2
<1>5. d \in DOMAIN peers[c] /\ IsRegistered(c, v[1])
    BY <1>1 DEF redeem, MayRedeem, Enabled
<1>6. id \in 0..BITS - 1
    BY <1>5 DEF IsRegistered, AdminInv
<1>7. timestamp \in Nat
    <2>1. now \in Nat /\ Limiter(inbox_rate_limit[c][d], now)
        BY <1>5 DEF LimitInv
    <2> HIDE DEF amount, d
    <2>. QED  BY <1>2, <2>1, LimiterMethods
<1>8. ASSUME NEW new_item, PutItem(c, message, new_item)
      PROVE  Redeems(c, k, new_item)
    BY <1>8 DEF PutItem, Redeems, InboxInv
<1>9. CASE count_enabled_votes(votes, config[c].enabled_transceivers) < config[c].threshold
    <2> DEFINE new_item == [item EXCEPT !.votes = votes]
    <2>1. PutItem(c, message, new_item)
        BY <1>9 DEF redeem
    <2>2. Redeems(c, k, new_item)
        BY <1>8, <2>1
    <2>3. /\ new_item \in InboxItem /\ new_item.amount = item.amount
          /\ new_item.votes = votes /\ new_item.release_status = item.release_status
        <3> HIDE DEF item, id
        <3>. QED  BY <1>4, <1>6 DEF InboxItem
    <2> HIDE DEF new_item
    <2>. QED  BY <1>4, <1>5, <1>6, <2>2, <2>3
<1>10. CASE ~(count_enabled_votes(votes, config[c].enabled_transceivers) < config[c].threshold)
    <2> DEFINE new_item == [item EXCEPT !.votes = votes,
                                        !.release_status = ReleaseAfter(timestamp)]
    <2>1. item.release_status = NotApproved /\ PutItem(c, message, new_item)
        BY <1>10 DEF redeem, release_after
    <2>2. ReleaseAfter(timestamp) \in ReleaseStatus /\ ReleaseAfter(timestamp).tag = "ReleaseAfter"
        <3> HIDE DEF timestamp
        <3>. QED  BY <1>7 DEF ReleaseAfter, ReleaseStatus
    <2>3. Redeems(c, k, new_item)
        BY <1>8, <2>1
    <2>a. /\ new_item \in InboxItem /\ new_item.amount = item.amount
          /\ new_item.votes = votes /\ new_item.release_status = ReleaseAfter(timestamp)
        <3> HIDE DEF item, id, timestamp
        <3>. QED  BY <1>4, <1>6, <2>2 DEF InboxItem
    <2>4. Cardinality(votes \cap config[c].enabled_transceivers) >= config[c].threshold
        <3>1. config[c].enabled_transceivers \in SUBSET (0..BITS - 1)
              /\ config[c].threshold \in Nat
            BY DEF AdminInv, Config
        <3>2. Cardinality(votes \cap config[c].enabled_transceivers) \in Nat
            BY <3>1, BitmapsFinite
        <3> HIDE DEF votes
        <3>. QED  BY <1>10, <3>1, <3>2 DEF count_enabled_votes
    <2> HIDE DEF timestamp, new_item
    <2>. QED  BY <1>4, <1>5, <1>6, <2>1, <2>2, <2>3, <2>a, <2>4
<1>. QED  BY <1>9, <1>10


\* Only redeem and release_inbound_* change an inbox.
LEMMA InboxFrame ==
    ASSUME [Next]_vars
    PROVE  \/ UNCHANGED inbox
           \/ \E c \in Chains : \E v \in validated[c] : redeem(c, v[1], v[2])
           \/ \E c \in Chains : \E k \in DOMAIN inbox[c] : release_inbox_item(c, k)
<1>1. CASE UNCHANGED vars \/ Tick
    BY <1>1 DEF vars, Tick, inboxVars
<1>2. ASSUME NEW c \in Chains, Outbound(c)
      PROVE  UNCHANGED inbox
    BY <1>2, OutboundFrame DEF inboxVars
<1>3. ASSUME NEW c \in Chains, Inbound(c)
      PROVE  \/ UNCHANGED inbox
             \/ \E v \in validated[c] : redeem(c, v[1], v[2])
             \/ \E k \in DOMAIN inbox[c] : release_inbox_item(c, k)
    BY <1>3 DEF Inbound, receive_message, misattest, release_inbound_mint,
       release_inbound_unlock
<1>4. ASSUME NEW c \in Chains, Administration(c)
      PROVE  UNCHANGED inbox
    BY <1>4, AdministrationFrame DEF inboxVars
<1>. QED  BY <1>1, <1>2, <1>3, <1>4, DeploymentAssumption DEF Next

\* release_inbound_mint and release_inbound_unlock touch one item.
LEMMA ReleaseEffect ==
    ASSUME InboxInv, NEW c \in Chains, NEW k \in DOMAIN inbox[c], release_inbox_item(c, k)
    PROVE  /\ DOMAIN inbox' = Chains
           /\ \A d \in Chains \ {c} : inbox'[d] = inbox[d]
           /\ DOMAIN inbox'[c] = DOMAIN inbox[c]
           /\ \A x \in DOMAIN inbox[c] \ {k} : inbox'[c][x] = inbox[c][x]
           /\ inbox'[c][k] \in InboxItem
           /\ inbox'[c][k].amount = inbox[c][k].amount
           /\ inbox'[c][k].votes = inbox[c][k].votes
           /\ inbox[c][k].release_status.tag = "ReleaseAfter"
           /\ inbox'[c][k].release_status = Released
<1>1. inbox[c][k] \in InboxItem
    BY DEF InboxInv
<1>2. Released \in ReleaseStatus
    BY DEF Released, ReleaseStatus
<1>3. inbox' = [inbox EXCEPT ![c][k].release_status = Released]
    BY DEF release_inbox_item
<1>4. inbox'[c][k] = [inbox[c][k] EXCEPT !.release_status = Released]
    BY <1>3 DEF InboxInv
<1>5. inbox[c][k].release_status.tag = "ReleaseAfter"
    BY DEF release_inbox_item, try_release
<1>6. /\ inbox'[c][k] \in InboxItem
      /\ inbox'[c][k].amount = inbox[c][k].amount
      /\ inbox'[c][k].votes = inbox[c][k].votes
      /\ inbox'[c][k].release_status = Released
    BY <1>1, <1>2, <1>4 DEF InboxItem
<1>. QED  BY <1>3, <1>5, <1>6 DEF InboxInv

\* No inbox item exists at the start.
LEMMA InboxInit == Init => InboxInv
BY DEF Init, InboxInv

\* redeem and release_inbound_* write well-formed items.
LEMMA InboxStep ==
    AdminInv /\ LimitInv /\ MessageInv /\ InboxInv /\ [Next]_vars => InboxInv'
<1> SUFFICES ASSUME AdminInv, LimitInv, MessageInv, InboxInv, [Next]_vars PROVE InboxInv'
    OBVIOUS
<1>1. CASE UNCHANGED inbox
    BY <1>1 DEF InboxInv
<1>2. ASSUME NEW c \in Chains, NEW v \in validated[c], redeem(c, v[1], v[2])
      PROVE  InboxInv'
    <2>1. PICK new_item \in InboxItem : Redeems(c, keccak256(v[2]), new_item)
        BY <1>2, RedeemEffect
    <2>. QED  BY <2>1 DEF Redeems, InboxInv
<1>3. ASSUME NEW c \in Chains, NEW k \in DOMAIN inbox[c], release_inbox_item(c, k)
      PROVE  InboxInv'
    BY <1>3, ReleaseEffect DEF InboxInv
<1>. QED  BY <1>1, <1>2, <1>3, InboxFrame

-----------------------------------------------------------------------------
(* Tokens                                                                  *)

\* The users start with the supply.
LEMMA TokenInit == Init => TokenInv
BY DeploymentAssumption DEF Init, TokenInv

\* No token account is overdrawn.
LEMMA TokenStep == LimitInv /\ InboxInv /\ TokenInv /\ [Next]_vars => TokenInv'
<1> SUFFICES ASSUME LimitInv, InboxInv, TokenInv, [Next]_vars PROVE TokenInv'
    OBVIOUS
<1>1. CASE UNCHANGED tokenVars
    BY <1>1 DEF TokenInv, tokenVars
<1>2. ASSUME NEW c \in Chains, NEW d \in Chains, NEW amount \in Amounts[c],
             NEW should_queue, Transfer(c, d, amount, should_queue),
             \/ UNCHANGED custody
             \/ custody' = [custody EXCEPT ![c] =
                    @ + WithoutDust(amount, Decimals[c], peers[c][d].token_decimals)]
      PROVE  TokenInv'
    <2> DEFINE kept == WithoutDust(amount, Decimals[c], peers[c][d].token_decimals)
    <2>1. d \in DOMAIN peers[c] /\ kept <= balance[c]
          /\ balance' = [balance EXCEPT ![c] = @ - kept]
        BY <1>2 DEF Transfer
    <2>2. kept \in Nat
        BY <2>1, TransferNumbers
    <2>3. \/ UNCHANGED custody
          \/ custody' = [custody EXCEPT ![c] = @ + kept]
        BY <1>2
    <2> HIDE DEF kept
    <2>. QED  BY <2>1, <2>2, <2>3 DEF TokenInv
<1>3. ASSUME NEW c \in Chains, NEW k \in DOMAIN inbox[c], release_inbox_item(c, k),
             \/ UNCHANGED custody
             \/ /\ inbox[c][k].amount <= custody[c]
                /\ custody' = [custody EXCEPT ![c] = @ - inbox[c][k].amount]
      PROVE  TokenInv'
    <2>1. inbox[c][k].amount \in Nat
        BY DEF InboxInv, InboxItem
    <2>2. balance' = [balance EXCEPT ![c] = @ + inbox[c][k].amount]
        BY <1>3 DEF release_inbox_item
    <2>. QED  BY <1>3, <2>1, <2>2 DEF TokenInv
<1>4. ASSUME NEW c \in Chains, Outbound(c)
      PROVE  TokenInv'
    BY <1>1, <1>2, <1>4 DEF Outbound, transfer_burn, transfer_lock, release_outbound
<1>5. ASSUME NEW c \in Chains, Inbound(c)
      PROVE  TokenInv'
    BY <1>1, <1>3, <1>5 DEF Inbound, receive_message, misattest, redeem,
       release_inbound_mint, release_inbound_unlock
<1>6. ASSUME NEW c \in Chains, Administration(c)
      PROVE  TokenInv'
    BY <1>1, <1>6, AdministrationFrame
<1>7. CASE UNCHANGED vars \/ Tick
    BY <1>1, <1>7 DEF vars, Tick
<1>. QED  BY <1>4, <1>5, <1>6, <1>7, DeploymentAssumption DEF Next

\* The accounts are well-formed at the start,
LEMMA AccountsInit == Init => AccountInv
BY AdminInit, LimitInit, MessageInit, InboxInit, TokenInit DEF AccountInv

\* after every step,
LEMMA AccountsStep == AccountInv /\ [Next]_vars => AccountInv'
BY AdminStep, LimitStep, MessageStep, InboxStep, TokenStep DEF AccountInv

\* and so always.
LEMMA AccountsAlways == Spec => []AccountInv
<1>1. AccountInv /\ [Next]_vars => AccountInv'
    BY AccountsStep
<1>. QED  BY AccountsInit, <1>1, PTL DEF Spec

\* The accounts hold values of their structs in every behaviour, for every deployment:
\* ids of transceivers fit the bitmaps, no limiter and no token account underflows, and
\* every peer has its limiter.
THEOREM TypeCorrect == Spec => []TypeOK
BY AccountsAlways, AccountsTyped, PTL

\* No order of register_transceiver, deregister_transceiver and set_threshold leaves a
\* threshold that the enabled transceivers cannot reach.
THEOREM ThresholdStaysReachable == Spec => []ThresholdReachable
<1>1. AccountInv => ThresholdReachable
    BY DEF AccountInv, AdminInv
<1>. QED  BY AccountsAlways, <1>1, PTL

-----------------------------------------------------------------------------
(* Votes                                                                   *)

\* Attestations and registrations are never taken back.
LEMMA AttestationsStay ==
    ASSUME AccountInv, [Next]_vars, NEW c \in Chains
    PROVE  /\ validated[c] \subseteq validated'[c]
           /\ \A t \in DOMAIN registered[c] :
                  t \in DOMAIN registered'[c] /\ registered'[c][t] = registered[c][t]
<1>1. validated[c] \subseteq validated'[c]
    <2>1. CASE UNCHANGED validated
        BY <2>1
    <2>2. ASSUME NEW d \in Chains, NEW x, validated' = [validated EXCEPT ![d] = @ \cup {x}]
          PROVE  validated[c] \subseteq validated'[c]
        BY <2>2 DEF AccountInv, MessageInv
    <2>3. ASSUME NEW d \in Chains, Inbound(d)
          PROVE  validated[c] \subseteq validated'[c]
        BY <2>1, <2>2, <2>3 DEF Inbound, receive_message, misattest, redeem,
           release_inbound_mint, release_inbound_unlock, release_inbox_item
    <2>4. ASSUME NEW d \in Chains, Outbound(d) \/ Administration(d)
          PROVE  validated[c] \subseteq validated'[c]
        BY <2>1, <2>4, OutboundFrame, AdministrationFrame DEF inboxVars
    <2>5. CASE UNCHANGED vars \/ Tick
        BY <2>1, <2>5 DEF vars, Tick, inboxVars
    <2>. QED  BY <2>3, <2>4, <2>5, DeploymentAssumption DEF Next
<1>2. ASSUME NEW t \in DOMAIN registered[c]
      PROVE  t \in DOMAIN registered'[c] /\ registered'[c][t] = registered[c][t]
    <2>1. CASE UNCHANGED registered
        BY <2>1
    <2>2. ASSUME NEW d \in Chains, NEW u \in Registrable, register_transceiver(d, u)
          PROVE  t \in DOMAIN registered'[c] /\ registered'[c][t] = registered[c][t]
        BY <2>2 DEF register_transceiver, transceiver_id, IsRegistered, AccountInv, AdminInv
    <2>. QED  BY <2>1, <2>2, ConfigFrame DEF Reconfigures, deregister_transceiver,
              set_threshold, set_paused, SetConfig
<1>. QED  BY <1>1, <1>2

\* So a transceiver that attests to an item keeps doing so.
LEMMA AttestingStays ==
    ASSUME AccountInv, [Next]_vars, NEW c \in Chains, NEW k
    PROVE  Attesting(c, k) \subseteq Attesting(c, k)'
BY AttestationsStay DEF Attesting

\* The vote of redeem is an attestation of the transceiver it counts for.
LEMMA VoteAttested ==
    ASSUME NEW c \in Chains, NEW v \in validated[c], IsRegistered(c, v[1])
    PROVE  v[1] \in Attesting(c, keccak256(v[2]))
BY DEF Attesting, IsRegistered

\* A vote is added by redeem only, for a transceiver that holds the message.
LEMMA VotesStep == AccountInv /\ VotesAttested /\ [Next]_vars => VotesAttested'
<1> SUFFICES ASSUME AccountInv, VotesAttested, [Next]_vars PROVE VotesAttested'
    OBVIOUS
<1>1. AdminInv'
    BY AccountsStep DEF AccountInv
<1>2. \A c \in Chains : \A t, u \in DOMAIN registered'[c] :
          registered'[c][t] = registered'[c][u] => t = u
    BY <1>1 DEF AdminInv
<1>3. ASSUME NEW c \in Chains, NEW k, NEW id, \E t \in Attesting(c, k) : registered[c][t] = id
      PROVE  \E t \in Attesting(c, k)' : registered'[c][t] = id
    <2>1. PICK t \in Attesting(c, k) : registered[c][t] = id
        BY <1>3
    <2>2. t \in DOMAIN registered[c]
        BY DEF Attesting
    <2>. QED  BY <2>1, <2>2, AttestingStays, AttestationsStay
<1>4. ASSUME NEW c \in Chains, NEW k \in DOMAIN inbox'[c], NEW id \in inbox'[c][k].votes
      PROVE  \E t \in Attesting(c, k) : registered[c][t] = id
    <2>1. CASE k \in DOMAIN inbox[c] /\ id \in inbox[c][k].votes
        BY <2>1 DEF VotesAttested
    <2>2. CASE UNCHANGED inbox
        BY <1>4, <2>1, <2>2
    <2>3. ASSUME NEW d \in Chains, NEW v \in validated[d], redeem(d, v[1], v[2])
          PROVE  \E t \in Attesting(c, k) : registered[c][t] = id
        <3> DEFINE item == ItemOf(d, v[2])
        <3>1. PICK new_item \in InboxItem :
                  /\ new_item.votes = item.votes \cup {registered[d][v[1]]}
                  /\ Redeems(d, keccak256(v[2]), new_item)
            BY <2>3, RedeemEffect DEF AccountInv
        <3>2. CASE c # d \/ k # keccak256(v[2])
            BY <1>4, <2>1, <3>1, <3>2 DEF Redeems
        <3>3. CASE c = d /\ k = keccak256(v[2])
            <4>1. id \in item.votes \cup {registered[d][v[1]]}
                BY <1>4, <3>1, <3>3 DEF Redeems
            <4>2. CASE id \in item.votes
                BY <2>1, <3>3, <4>2 DEF ItemOf
            <4>3. CASE id = registered[d][v[1]]
                <5>1. IsRegistered(d, v[1])
                    BY <2>3, RedeemEffect DEF AccountInv
                <5>. QED  BY <3>3, <4>3, <5>1, VoteAttested
            <4>. QED  BY <4>1, <4>2, <4>3
        <3>. QED  BY <3>2, <3>3
    <2>4. ASSUME NEW d \in Chains, NEW j \in DOMAIN inbox[d], release_inbox_item(d, j)
          PROVE  \E t \in Attesting(c, k) : registered[c][t] = id
        <3>1. InboxInv
            BY DEF AccountInv
        <3>2. k \in DOMAIN inbox[c] /\ inbox'[c][k].votes = inbox[c][k].votes
            BY <1>4, <2>4, <3>1, ReleaseEffect
        <3>. QED  BY <1>4, <2>1, <3>2
    <2>. QED  BY <2>2, <2>3, <2>4, InboxFrame
<1>. QED  BY <1>2, <1>3, <1>4 DEF VotesAttested

\* Every vote of an inbox item is an attestation of the registered transceiver whose id
\* it is, whatever was registered, disabled and enabled again in between.
THEOREM VotesAreAttestations == Spec => []VotesAttested
<1>1. Init => VotesAttested
    <2> SUFFICES ASSUME Init PROVE VotesAttested
        OBVIOUS
    <2>1. AdminInv
        BY AdminInit
    <2>2. \A c \in Chains : DOMAIN inbox[c] = {}
        BY DEF Init
    <2>. QED  BY <2>1, <2>2 DEF VotesAttested, AdminInv
<1>2. AccountInv /\ VotesAttested /\ [Next]_vars => VotesAttested'
    BY VotesStep
<1>. QED  BY AccountsAlways, <1>1, <1>2, PTL DEF Spec


\* Votes of enabled transceivers come from as many enabled transceivers that hold the
\* message, because ids are not shared.
LEMMA VotersCounted ==
    ASSUME AdminInv, NEW c \in Chains, NEW k, NEW votes,
           \A id \in votes : \E t \in Attesting(c, k) : registered[c][t] = id
    PROVE  Cardinality(votes \cap config[c].enabled_transceivers)
               <= Cardinality({t \in Attesting(c, k) : Enabled(c, t)})
<1> DEFINE S == votes \cap config[c].enabled_transceivers
           T == {t \in Attesting(c, k) : Enabled(c, t)}
           voter == [id \in S |-> CHOOSE t \in T : registered[c][t] = id]
           number == [t \in T |-> registered[c][t]]
<1>1. \A t \in T : t \in DOMAIN registered[c]
    BY DEF Attesting
<1>2. IsFiniteSet(T)
    <2>1. number \in Injection(T, 0..BITS - 1)
        BY <1>1 DEF AdminInv, Injection, IsInjective
    <2>2. 0..BITS - 1 \in SUBSET (0..BITS - 1)
        OBVIOUS
    <2> HIDE DEF number, T
    <2>. QED  BY <2>1, <2>2, BitmapsFinite, FS_Injection
<1>3. \A id \in S : \E t \in T : registered[c][t] = id
    BY DEF Attesting, Enabled, IsRegistered
<1>4. voter \in Injection(S, T)
    <2>1. \A id \in S : voter[id] \in T /\ registered[c][voter[id]] = id
        BY <1>3
    <2>2. voter = [id \in S |-> voter[id]]
        OBVIOUS
    <2> HIDE DEF voter, T, S
    <2>. QED  BY <2>1, <2>2 DEF Injection, IsInjective
<1> HIDE DEF voter, T, S
<1>5. Cardinality(S) <= Cardinality(T)
    BY <1>2, <1>4, FS_Injection
<1>. QED  BY <1>5 DEF S, T

\* An inbox item is approved only when `threshold` transceivers that are enabled at that
\* moment hold its message: disabled ones and messages of another content do not count.
THEOREM ApprovalNeedsThreshold == Spec => ApprovedByThreshold
<1> DEFINE Act == \A c \in Chains : \A k \in DOMAIN inbox'[c] :
                      /\ inbox'[c][k].release_status # NotApproved
                      /\ k \in DOMAIN inbox[c] => inbox[c][k].release_status = NotApproved
                      => Cardinality({t \in Attesting(c, k) : Enabled(c, t)}) >= config[c].threshold
<1>1. AccountInv /\ VotesAttested /\ [Next]_vars => [Act]_vars
    <2> SUFFICES ASSUME AccountInv, VotesAttested, [Next]_vars,
                        NEW c \in Chains, NEW k \in DOMAIN inbox'[c],
                        inbox'[c][k].release_status # NotApproved,
                        k \in DOMAIN inbox[c] => inbox[c][k].release_status = NotApproved
                 PROVE  Cardinality({t \in Attesting(c, k) : Enabled(c, t)}) >= config[c].threshold
        OBVIOUS
    <2>1. ~(UNCHANGED inbox)
        OBVIOUS
    <2>2. ASSUME NEW d \in Chains, NEW v \in validated[d], redeem(d, v[1], v[2])
          PROVE  Cardinality({t \in Attesting(c, k) : Enabled(c, t)}) >= config[c].threshold
        <3> DEFINE item == ItemOf(d, v[2])
                   votes == item.votes \cup {registered[d][v[1]]}
        <3>1. PICK new_item \in InboxItem :
                  /\ \/ new_item.release_status = item.release_status
                     \/ Cardinality(votes \cap config[d].enabled_transceivers) >=
                            config[d].threshold
                  /\ Redeems(d, keccak256(v[2]), new_item)
            BY <2>2, RedeemEffect DEF AccountInv
        <3>2. d = c /\ k = keccak256(v[2]) /\ inbox'[c][k] = new_item
            BY <3>1 DEF Redeems
        <3>3. item.release_status = NotApproved
            BY <3>2 DEF ItemOf
        <3>4. Cardinality(votes \cap config[c].enabled_transceivers) >= config[c].threshold
            BY <3>1, <3>2, <3>3
        <3>5. \A id \in votes : \E t \in Attesting(c, k) : registered[c][t] = id
            <4>1. ASSUME NEW id \in item.votes
                  PROVE  \E t \in Attesting(c, k) : registered[c][t] = id
                BY <3>2 DEF ItemOf, VotesAttested
            <4>2. v[1] \in Attesting(c, k)
                BY <2>2, <3>2, RedeemEffect, VoteAttested DEF AccountInv
            <4>. QED  BY <3>2, <4>1, <4>2
        <3>6. /\ config[c].threshold \in Nat
              /\ config[c].enabled_transceivers \in SUBSET (0..BITS - 1)
            BY DEF AccountInv, AdminInv, Config
        <3>7. Cardinality(votes \cap config[c].enabled_transceivers) \in Nat
            BY <3>6, BitmapsFinite
        <3>8. Cardinality(votes \cap config[c].enabled_transceivers)
                  <= Cardinality({t \in Attesting(c, k) : Enabled(c, t)})
            <4> HIDE DEF votes
            <4>. QED  BY <3>5, VotersCounted DEF AccountInv
        <3>9. Cardinality({t \in Attesting(c, k) : Enabled(c, t)}) \in Int
            <4> DEFINE T == {t \in Attesting(c, k) : Enabled(c, t)}
                       number == [t \in T |-> registered[c][t]]
            <4>1. number \in Injection(T, 0..BITS - 1)
                BY DEF AccountInv, AdminInv, Injection, IsInjective, Attesting
            <4>2. 0..BITS - 1 \in SUBSET (0..BITS - 1)
                OBVIOUS
            <4> HIDE DEF T, number
            <4>3. IsFiniteSet(T)
                BY <4>1, <4>2, BitmapsFinite, FS_Injection
            <4>4. Cardinality(T) \in Nat
                BY <4>3, FS_CardinalityType
            <4>. QED  BY <4>4 DEF T
        <3>. QED  BY <3>4, <3>6, <3>7, <3>8, <3>9
    <2>3. ASSUME NEW d \in Chains, NEW j \in DOMAIN inbox[d], release_inbox_item(d, j)
          PROVE  FALSE
        <3>1. InboxInv
            BY DEF AccountInv
        <3>2. inbox[d][j].release_status # NotApproved
            BY <2>3, <3>1, ReleaseEffect DEF NotApproved
        <3>. QED  BY <2>3, <3>1, <3>2, ReleaseEffect
    <2>. QED  BY <2>1, <2>2, <2>3, InboxFrame
<1>. QED  BY <1>1, AccountsAlways, VotesAreAttestations, PTL DEF Spec, ApprovedByThreshold

\* Only a release of an inbox item adds to the users' tokens.
LEMMA BalanceFrame ==
    ASSUME AccountInv, [Next]_vars, NEW c \in Chains, balance'[c] > balance[c]
    PROVE  \E k \in DOMAIN inbox[c] :
               /\ release_inbox_item(c, k)
               /\ balance'[c] = balance[c] + inbox[c][k].amount
<1>1. ~(UNCHANGED balance)
    BY DEF AccountInv, TokenInv
<1>2. ASSUME NEW d \in Chains, NEW e \in Chains, NEW amount \in Amounts[d],
             NEW should_queue, Transfer(d, e, amount, should_queue)
      PROVE  FALSE
    <2> DEFINE kept == WithoutDust(amount, Decimals[d], peers[d][e].token_decimals)
    <2>1. e \in DOMAIN peers[d] /\ balance' = [balance EXCEPT ![d] = @ - kept]
        BY <1>2 DEF Transfer
    <2>2. kept \in Nat
        BY <2>1, TransferNumbers DEF AccountInv
    <2> HIDE DEF kept
    <2>. QED  BY <2>1, <2>2 DEF AccountInv, TokenInv
<1>3. ASSUME NEW d \in Chains, NEW k \in DOMAIN inbox[d], release_inbox_item(d, k)
      PROVE  c = d /\ balance'[c] = balance[c] + inbox[c][k].amount
    BY <1>3 DEF release_inbox_item, AccountInv, TokenInv
<1>4. CASE UNCHANGED vars \/ Tick
    BY <1>1, <1>4 DEF vars, Tick, tokenVars
<1>5. ASSUME NEW d \in Chains, Outbound(d)
      PROVE  FALSE
    BY <1>1, <1>2, <1>5 DEF Outbound, transfer_burn, transfer_lock, release_outbound, tokenVars
<1>6. ASSUME NEW d \in Chains, Administration(d)
      PROVE  FALSE
    BY <1>1, <1>6, AdministrationFrame DEF tokenVars
<1>7. ASSUME NEW d \in Chains, Inbound(d)
      PROVE  \E k \in DOMAIN inbox[d] : release_inbox_item(d, k)
    BY <1>1, <1>7 DEF Inbound, receive_message, misattest, redeem, release_inbound_mint,
       release_inbound_unlock, tokenVars
<1>. QED  BY <1>3, <1>4, <1>5, <1>6, <1>7, DeploymentAssumption DEF Next

\* Inbox items move forward only, one status at a time; an item is neither removed nor
\* resized, and the users' tokens grow only by the amount of an item that is released.
THEOREM ItemsMoveForward == Spec => ReleaseForward
<1> DEFINE Forward(c) ==
               \A k \in DOMAIN inbox[c] :
                 /\ k \in DOMAIN inbox'[c]
                 /\ inbox'[c][k].amount = inbox[c][k].amount
                 /\ inbox[c][k].votes \subseteq inbox'[c][k].votes
                 /\ \/ inbox'[c][k].release_status = inbox[c][k].release_status
                    \/ Rank(inbox'[c][k].release_status) = Rank(inbox[c][k].release_status) + 1
           PaidOut(c) ==
               balance'[c] > balance[c] =>
                 \E k \in DOMAIN inbox[c] :
                     /\ inbox[c][k].release_status.tag = "ReleaseAfter"
                     /\ inbox'[c][k].release_status = Released
                     /\ balance'[c] = balance[c] + inbox[c][k].amount
<1>1. ASSUME AccountInv, [Next]_vars, NEW c \in Chains
      PROVE  Forward(c)
    <2> SUFFICES ASSUME NEW k \in DOMAIN inbox[c]
                 PROVE  /\ k \in DOMAIN inbox'[c]
                        /\ inbox'[c][k].amount = inbox[c][k].amount
                        /\ inbox[c][k].votes \subseteq inbox'[c][k].votes
                        /\ \/ inbox'[c][k].release_status = inbox[c][k].release_status
                           \/ Rank(inbox'[c][k].release_status) =
                                  Rank(inbox[c][k].release_status) + 1
        OBVIOUS
    <2>1. CASE UNCHANGED inbox
        BY <2>1
    <2>2. ASSUME NEW d \in Chains, NEW v \in validated[d], redeem(d, v[1], v[2])
          PROVE  /\ k \in DOMAIN inbox'[c]
                 /\ inbox'[c][k].amount = inbox[c][k].amount
                 /\ inbox[c][k].votes \subseteq inbox'[c][k].votes
                 /\ \/ inbox'[c][k].release_status = inbox[c][k].release_status
                    \/ Rank(inbox'[c][k].release_status) =
                           Rank(inbox[c][k].release_status) + 1
        <3> DEFINE item == ItemOf(d, v[2])
        <3>1. PICK new_item \in InboxItem :
                  /\ new_item.amount = item.amount
                  /\ item.votes \subseteq new_item.votes
                  /\ \/ new_item.release_status = item.release_status
                     \/ /\ item.release_status = NotApproved
                        /\ new_item.release_status.tag = "ReleaseAfter"
                  /\ Redeems(d, keccak256(v[2]), new_item)
            BY <1>1, <2>2, RedeemEffect DEF AccountInv
        <3>2. CASE c # d \/ k # keccak256(v[2])
            BY <3>1, <3>2 DEF Redeems
        <3>3. CASE c = d /\ k = keccak256(v[2])
            <4>1. item = inbox[c][k]
                BY <3>3 DEF ItemOf
            <4>2. k \in DOMAIN inbox'[c] /\ inbox'[c][k] = new_item
                BY <3>1, <3>3 DEF Redeems
            <4>3. /\ item.release_status = NotApproved
                  /\ new_item.release_status.tag = "ReleaseAfter"
                  => Rank(new_item.release_status) = Rank(item.release_status) + 1
                BY DEF Rank, NotApproved
            <4>. QED  BY <3>1, <4>1, <4>2, <4>3
        <3>. QED  BY <3>2, <3>3
    <2>3. ASSUME NEW d \in Chains, NEW j \in DOMAIN inbox[d], release_inbox_item(d, j)
          PROVE  /\ k \in DOMAIN inbox'[c]
                 /\ inbox'[c][k].amount = inbox[c][k].amount
                 /\ inbox[c][k].votes \subseteq inbox'[c][k].votes
                 /\ \/ inbox'[c][k].release_status = inbox[c][k].release_status
                    \/ Rank(inbox'[c][k].release_status) =
                           Rank(inbox[c][k].release_status) + 1
        <3>1. InboxInv
            BY <1>1 DEF AccountInv
        <3>2. CASE c # d \/ k # j
            BY <2>3, <3>1, <3>2, ReleaseEffect
        <3>3. CASE c = d /\ k = j
            <4>1. /\ inbox[c][k].release_status.tag = "ReleaseAfter"
                  /\ inbox'[c][k].release_status = Released
                BY <2>3, <3>1, <3>3, ReleaseEffect
            <4>2. Rank(inbox'[c][k].release_status) = Rank(inbox[c][k].release_status) + 1
                BY <4>1 DEF Rank, Released
            <4>. QED  BY <2>3, <3>1, <3>3, <4>2, ReleaseEffect
        <3>. QED  BY <3>2, <3>3
    <2>. QED  BY <1>1, <2>1, <2>2, <2>3, InboxFrame
<1>2. ASSUME AccountInv, [Next]_vars, NEW c \in Chains
      PROVE  PaidOut(c)
    <2> SUFFICES ASSUME balance'[c] > balance[c]
                 PROVE  \E k \in DOMAIN inbox[c] :
                            /\ inbox[c][k].release_status.tag = "ReleaseAfter"
                            /\ inbox'[c][k].release_status = Released
                            /\ balance'[c] = balance[c] + inbox[c][k].amount
        OBVIOUS
    <2>1. PICK k \in DOMAIN inbox[c] : /\ release_inbox_item(c, k)
                                       /\ balance'[c] = balance[c] + inbox[c][k].amount
        BY <1>2, BalanceFrame
    <2>. QED  BY <1>2, <2>1, ReleaseEffect DEF AccountInv
<1> DEFINE Act ==
        \A c \in Chains :
          /\ \A k \in DOMAIN inbox[c] :
                 /\ k \in DOMAIN inbox'[c]
                 /\ inbox'[c][k].amount = inbox[c][k].amount
                 /\ inbox[c][k].votes \subseteq inbox'[c][k].votes
                 /\ \/ inbox'[c][k].release_status = inbox[c][k].release_status
                    \/ Rank(inbox'[c][k].release_status) = Rank(inbox[c][k].release_status) + 1
          /\ balance'[c] > balance[c] =>
                 \E k \in DOMAIN inbox[c] :
                     /\ inbox[c][k].release_status.tag = "ReleaseAfter"
                     /\ inbox'[c][k].release_status = Released
                     /\ balance'[c] = balance[c] + inbox[c][k].amount
<1>3. AccountInv /\ [Next]_vars => [Act]_vars
    BY <1>1, <1>2
<1>. QED  BY <1>3, AccountsAlways, PTL DEF Spec, ReleaseForward


-----------------------------------------------------------------------------
(* Units                                                                   *)

\* A finite set of natural numbers that is not empty has a largest element.
LEMMA LargestElement ==
    ASSUME NEW S \in SUBSET Nat, IsFiniteSet(S), S # {}
    PROVE  \E m \in S : \A y \in S : y <= m
<1> DEFINE N == {n \in Nat : \A T \in SUBSET Nat :
                    IsFiniteSet(T) /\ Cardinality(T) = n /\ T # {} =>
                        \E m \in T : \A y \in T : y <= m}
<1>1. 0 \in N
    BY FS_EmptySet
<1>2. ASSUME NEW n \in Nat, n \in N
      PROVE  n + 1 \in N
    <2> SUFFICES ASSUME NEW T \in SUBSET Nat, IsFiniteSet(T), Cardinality(T) = n + 1, T # {}
                 PROVE  \E m \in T : \A y \in T : y <= m
        OBVIOUS
    <2>1. PICK x \in T : TRUE
        OBVIOUS
    <2>2. IsFiniteSet(T \ {x}) /\ Cardinality(T \ {x}) = n
        <3>1. IsFiniteSet(T \ {x}) /\ Cardinality(T \ {x}) = Cardinality(T) - 1
            BY <2>1, FS_RemoveElement
        <3>. QED  BY <3>1
    <2>3. CASE T \ {x} = {}
        <3>1. \A y \in T : y = x
            BY <2>1, <2>3
        <3>. QED  BY <2>1, <3>1
    <2>4. CASE T \ {x} # {}
        <3>1. PICK m \in T \ {x} : \A y \in T \ {x} : y <= m
            BY <1>2, <2>2, <2>4
        <3>2. CASE m <= x
            BY <2>1, <3>1, <3>2
        <3>3. CASE x <= m
            BY <2>1, <3>1, <3>3
        <3>. QED  BY <3>1, <3>2, <3>3
    <2>. QED  BY <2>3, <2>4
<1> HIDE DEF N
<1>3. Nat \subseteq N
    BY <1>1, <1>2, SetInduction
<1>4. Cardinality(S) \in Nat
    BY FS_CardinalityType
<1>. QED  BY <1>3, <1>4 DEF N

\* The unit that amounts are compared in is at least as fine as that of every chain.
LEMMA FinestUnit ==
    ASSUME NEW c \in Chains
    PROVE  /\ Decimals[c] \in Nat
           /\ Max({Decimals[d] : d \in Chains}) \in Nat
           /\ Decimals[c] <= Max({Decimals[d] : d \in Chains})
<1> DEFINE S == {Decimals[d] : d \in Chains}
<1>1. S \in SUBSET Nat /\ S # {}
    BY DeploymentAssumption
<1>2. IsFiniteSet(S)
    <2>1. S = {[e \in Chains |-> Decimals[e]][d] : d \in Chains}
        OBVIOUS
    <2> HIDE DEF S
    <2>2. [d \in Chains |-> Decimals[d]] \in Surjection(Chains, S)
        BY <2>1 DEF Surjection
    <2>. QED  BY <2>2, DeploymentAssumption, FS_Surjection
<1>3. Decimals[c] \in S
    OBVIOUS
<1> HIDE DEF S
<1>4. PICK m \in S : \A y \in S : m >= y
    BY <1>1, <1>2, LargestElement
<1>5. Max(S) \in S /\ \A y \in S : Max(S) >= y
    BY <1>4 DEF Max
<1>6. Max(S) \in Nat /\ Decimals[c] \in Nat /\ Decimals[c] <= Max(S)
    BY <1>1, <1>3, <1>5
<1>. QED  BY <1>6 DEF S

\* Amounts in units are natural numbers, and add up.
LEMMA UnitsAdd ==
    ASSUME NEW c \in Chains, NEW decimals \in Nat, decimals <= Decimals[c]
    PROVE  /\ \A a \in Nat : InUnits(a, decimals) \in Nat
           /\ \A a, b, s \in Nat :
                  s = a + b => InUnits(s, decimals) = InUnits(a, decimals) + InUnits(b, decimals)
<1> DEFINE e == Max({Decimals[d] : d \in Chains}) - decimals
           p == pow10[e]
<1>1. e \in Nat
    BY FinestUnit
<1>2. p \in Nat \ {0}
    BY <1>1, PowType
<1> HIDE DEF e, p
<1>3. /\ \A a \in Nat : a * p \in Nat
      /\ \A a, b, s \in Nat : s = a + b => s * p = a * p + b * p
    BY <1>2
<1>. QED  BY <1>3 DEF InUnits, e, p

\* Untrimming an amount to the decimals of a chain keeps its value.
LEMMA UntrimKeepsValue ==
    ASSUME NEW c \in Chains, NEW trimmed \in TrimmedAmount, trimmed.decimals <= Decimals[c]
    PROVE  InUnits(untrim(trimmed, Decimals[c]), Decimals[c]) =
               InUnits(trimmed.amount, trimmed.decimals)
<1> DEFINE M == Max({Decimals[d] : d \in Chains})
           x == Decimals[c] - trimmed.decimals
           y == M - Decimals[c]
<1>1. trimmed.amount \in Nat /\ trimmed.decimals \in Nat
    BY DEF TrimmedAmount
<1>2. x \in Nat /\ y \in Nat /\ x + y = M - trimmed.decimals
    BY <1>1, FinestUnit
<1>3. pow10[x] \in Nat /\ pow10[y] \in Nat /\ pow10[x + y] = pow10[x] * pow10[y]
    BY <1>2, PowType, PowAdd
<1>4. untrim(trimmed, Decimals[c]) = trimmed.amount * pow10[x]
    <2>1. ~(trimmed.decimals > Decimals[c])
        <3>1. Decimals[c] \in Nat
            BY DeploymentAssumption
        <3>. QED  BY <1>1, <3>1
    <2>2. Factor(trimmed.decimals, Decimals[c]) = pow10[x]
        BY <2>1 DEF Factor
    <2>. QED  BY <2>1, <2>2 DEF untrim, scale
<1>5. \A a, p, q \in Nat : (a * p) * q = a * (p * q)
    OBVIOUS
<1>6. (trimmed.amount * pow10[x]) * pow10[y] = trimmed.amount * pow10[x + y]
    BY <1>1, <1>3, <1>5
<1>. QED  BY <1>2, <1>4, <1>6 DEF InUnits


-----------------------------------------------------------------------------
(* What is on its way                                                      *)

\* The instructions that change the outboxes or the messages sent.
LEMMA OutboxFrame ==
    ASSUME [Next]_vars
    PROVE  \/ UNCHANGED outboxVars
           \/ \E c, d \in Chains : \E amount \in Amounts[c], should_queue \in Queueing :
                  Transfer(c, d, amount, should_queue)
           \/ \E c \in Chains, t \in Transceivers : \E i \in DOMAIN outbox[c] :
                  release_outbound(c, t, i)
<1>1. CASE UNCHANGED vars \/ Tick
    BY <1>1 DEF vars, Tick
<1>2. ASSUME NEW c \in Chains, Outbound(c)
      PROVE  \/ \E d \in Chains : \E amount \in Amounts[c], should_queue \in Queueing :
                    Transfer(c, d, amount, should_queue)
             \/ \E t \in Transceivers : \E i \in DOMAIN outbox[c] : release_outbound(c, t, i)
    BY <1>2 DEF Outbound, transfer_burn, transfer_lock
<1>3. ASSUME NEW c \in Chains, Inbound(c)
      PROVE  UNCHANGED outboxVars
    BY <1>3, InboundFrame
<1>4. ASSUME NEW c \in Chains, Administration(c)
      PROVE  UNCHANGED outboxVars
    BY <1>4, AdministrationFrame
<1>. QED  BY <1>1, <1>2, <1>3, <1>4, DeploymentAssumption DEF Next

\* A transfer appends one item to the outbox of its chain.
LEMMA TransferEffect ==
    ASSUME MessageInv, NEW c \in Chains, NEW d \in Chains, NEW amount \in Amounts[c],
           NEW should_queue, Transfer(c, d, amount, should_queue)
    PROVE  LET trimmed == trim(amount, Decimals[c], peers[c][d].token_decimals)
               n == Len(outbox[c]) + 1
           IN  /\ d \in DOMAIN peers[c]
               /\ n <= MaxTransfers
               /\ DOMAIN outbox[c] = 1..Len(outbox[c])
               /\ Len(outbox[c]) \in Nat
               /\ Len(outbox'[c]) = n
               /\ DOMAIN outbox'[c] = 1..n
               /\ \A i \in DOMAIN outbox[c] : outbox'[c][i] = outbox[c][i]
               /\ outbox'[c][n].amount = trimmed
               /\ outbox'[c][n].recipient_chain = d
               /\ \A e \in Chains \ {c} : outbox'[e] = outbox[e]
               /\ UNCHANGED <<vaas, inboxVars, adminVars>>
<1> DEFINE item == [amount |-> trim(amount, Decimals[c], peers[c][d].token_decimals),
                    recipient_chain |-> d,
                    recipient_ntt_manager |-> peers[c][d].address,
                    release_timestamp |-> ReleaseTimestamp(outbox_rate_limit[c], now,
                        WithoutDust(amount, Decimals[c], peers[c][d].token_decimals)),
                    released |-> {}]
<1>1. /\ outbox' = [outbox EXCEPT ![c] = Append(@, item)]
      /\ d \in DOMAIN peers[c]
      /\ Len(outbox[c]) < MaxTransfers
      /\ UNCHANGED <<vaas, inboxVars, adminVars>>
    BY DEF Transfer, insert_into_outbox
<1>2. /\ item.amount = trim(amount, Decimals[c], peers[c][d].token_decimals)
      /\ item.recipient_chain = d
    OBVIOUS
<1> HIDE DEF item
<1>3. outbox'[c] = Append(outbox[c], item) /\ \A e \in Chains \ {c} : outbox'[e] = outbox[e]
    BY <1>1 DEF MessageInv
<1>4. outbox[c] \in Seq(OutboxItem) /\ Len(outbox[c]) \in Nat
    BY LenProperties DEF MessageInv
<1>5. DOMAIN outbox[c] = 1..Len(outbox[c])
    BY <1>4
<1>6. /\ Len(outbox'[c]) = Len(outbox[c]) + 1
      /\ DOMAIN outbox'[c] = 1..Len(outbox[c]) + 1
      /\ \A i \in 1..Len(outbox[c]) : outbox'[c][i] = outbox[c][i]
      /\ outbox'[c][Len(outbox[c]) + 1] = item
    BY <1>3, <1>4
<1>7. Len(outbox[c]) + 1 <= MaxTransfers
    BY <1>1, <1>4, DeploymentAssumption
<1>. QED  BY <1>1, <1>2, <1>3, <1>4, <1>5, <1>6, <1>7

\* The parts of an outbox item that its message is made of.
Kept(c, i) ==
    /\ i \in DOMAIN outbox'[c]
    /\ outbox'[c][i].amount = outbox[c][i].amount
    /\ outbox'[c][i].recipient_chain = outbox[c][i].recipient_chain
    /\ outbox'[c][i].recipient_ntt_manager = outbox[c][i].recipient_ntt_manager

\* release_outbound marks one item and sends its message.
LEMMA SendEffect ==
    ASSUME MessageInv, NEW c \in Chains, NEW t \in Transceivers, NEW j \in DOMAIN outbox[c],
           release_outbound(c, t, j)
    PROVE  /\ \A e \in Chains : /\ DOMAIN outbox'[e] = DOMAIN outbox[e]
                                /\ Len(outbox'[e]) = Len(outbox[e])
                                /\ \A i \in DOMAIN outbox[e] : Kept(e, i)
           /\ vaas' = vaas \cup {<<t, Message(c, j)>>}
           /\ UNCHANGED <<adminVars, inboxVars, tokenVars>>
<1>1. /\ outbox' = [outbox EXCEPT ![c][j].released = @ \cup {registered[c][t]}]
      /\ vaas' = vaas \cup {<<t, Message(c, j)>>}
      /\ UNCHANGED <<adminVars, inboxVars, tokenVars>>
    BY DEF release_outbound
<1>2. ASSUME NEW e \in Chains, e # c
      PROVE  outbox'[e] = outbox[e]
    BY <1>1, <1>2 DEF MessageInv
<1>3. /\ outbox'[c] = [outbox[c] EXCEPT ![j] =
                         [outbox[c][j] EXCEPT !.released = @ \cup {registered[c][t]}]]
    BY <1>1 DEF MessageInv
<1>4. /\ outbox[c] \in Seq(OutboxItem)
      /\ outbox[c][j] \in OutboxItem
    BY MessageType DEF MessageInv
<1>5. /\ DOMAIN outbox'[c] = DOMAIN outbox[c]
      /\ \A i \in DOMAIN outbox[c] : Kept(c, i)
    BY <1>3, <1>4 DEF Kept, OutboxItem
<1>6. Len(outbox'[c]) = Len(outbox[c])
    BY <1>3, <1>4
<1>7. ASSUME NEW e \in Chains
      PROVE  /\ DOMAIN outbox'[e] = DOMAIN outbox[e]
             /\ Len(outbox'[e]) = Len(outbox[e])
             /\ \A i \in DOMAIN outbox[e] : Kept(e, i)
    BY <1>2, <1>5, <1>6 DEF Kept
<1>. QED  BY <1>1, <1>7

\* Items stay in the outbox, and so do their messages.
LEMMA ItemsKept ==
    ASSUME MessageInv, [Next]_vars, NEW c \in Chains, NEW i \in DOMAIN outbox[c]
    PROVE  Kept(c, i) /\ Message(c, i)' = Message(c, i)
<1>1. UNCHANGED outboxVars => Kept(c, i)
    BY DEF outboxVars, Kept
<1>2. ASSUME NEW d \in Chains, NEW e \in Chains, NEW amount \in Amounts[d], NEW should_queue,
             Transfer(d, e, amount, should_queue)
      PROVE  Kept(c, i)
    <2>1. CASE c = d
        <3>1. i \in DOMAIN outbox'[c] /\ outbox'[c][i] = outbox[c][i]
            BY <1>2, <2>1, TransferEffect
        <3>. QED  BY <3>1 DEF Kept
    <2>2. CASE c # d
        <3>1. outbox'[c] = outbox[c]
            BY <1>2, <2>2, TransferEffect
        <3>. QED  BY <3>1 DEF Kept
    <2>. QED  BY <2>1, <2>2
<1>3. ASSUME NEW d \in Chains, NEW t \in Transceivers, NEW j \in DOMAIN outbox[d],
             release_outbound(d, t, j)
      PROVE  Kept(c, i)
    BY <1>3, SendEffect
<1>4. Kept(c, i)
    BY <1>1, <1>2, <1>3, OutboxFrame
<1>5. /\ outbox'[c][i].amount = outbox[c][i].amount
      /\ outbox'[c][i].recipient_chain = outbox[c][i].recipient_chain
      /\ outbox'[c][i].recipient_ntt_manager = outbox[c][i].recipient_ntt_manager
    BY <1>4 DEF Kept
<1>6. Message(c, i)' = Message(c, i)
    BY <1>5, Zenon DEF Message
<1>. QED  BY <1>4, <1>6


\* k is the address of the inbox item of something that was sent.
IsSent(k) ==
    /\ k.from_chain \in Chains
    /\ k.id \in DOMAIN outbox[k.from_chain]
    /\ k = keccak256(Message(k.from_chain, k.id))

\* Amounts are trimmed to decimals that both ends can represent.
DecimalsInv ==
    \A c \in Chains :
        /\ Len(outbox[c]) <= MaxTransfers
        /\ \A d \in DOMAIN peers[c] : peers[c][d].token_decimals = Decimals[d]
        /\ \A i \in DOMAIN outbox[c] :
               /\ outbox[c][i].amount.decimals <= Decimals[c]
               /\ outbox[c][i].amount.decimals <= Decimals[outbox[c][i].recipient_chain]

\* Nothing is received, voted on or released that was not sent.
SentInv ==
    /\ \A vaa \in vaas : IsSent(keccak256(vaa[2]))
    /\ \A c \in Chains :
           /\ \A v \in validated[c] : IsSent(keccak256(v[2])) /\ v[2].to_chain = c
           /\ \A k \in DOMAIN inbox[c] :
                  /\ IsSent(k) /\ k.to_chain = c
                  /\ inbox[c][k].amount = untrim(k.amount, Decimals[c])

\* What was sent stays sent.
LEMMA SentStays ==
    ASSUME MessageInv, [Next]_vars, NEW k, IsSent(k)
    PROVE  IsSent(k)'
<1>1. k.from_chain \in Chains /\ k.id \in DOMAIN outbox[k.from_chain]
    BY DEF IsSent
<1>2. /\ k.id \in DOMAIN outbox'[k.from_chain]
      /\ Message(k.from_chain, k.id)' = Message(k.from_chain, k.id)
    BY <1>1, ItemsKept DEF Kept
<1>3. keccak256(Message(k.from_chain, k.id))' = keccak256(Message(k.from_chain, k.id))
    BY <1>2, Zenon DEF keccak256
<1>. QED  BY <1>1, <1>2, <1>3 DEF IsSent

\* The message of an item is its own.
LEMMA MessageIsSent ==
    ASSUME NEW c \in Chains, NEW i \in DOMAIN outbox[c]
    PROVE  /\ IsSent(keccak256(Message(c, i)))
           /\ keccak256(Message(c, i)).from_chain = c
           /\ keccak256(Message(c, i)).id = i
           /\ keccak256(Message(c, i)).to_chain = outbox[c][i].recipient_chain
           /\ keccak256(Message(c, i)).amount = outbox[c][i].amount
<1>1. /\ keccak256(Message(c, i)).from_chain = c
      /\ keccak256(Message(c, i)).id = i
      /\ keccak256(Message(c, i)).to_chain = outbox[c][i].recipient_chain
      /\ keccak256(Message(c, i)).amount = outbox[c][i].amount
    BY DEF keccak256, Message
<1>. QED  BY <1>1 DEF IsSent

\* The deployment registers the decimals that the peers have.
LEMMA DecimalsInit == Init => DecimalsInv
<1> SUFFICES ASSUME Init, NEW c \in Chains
             PROVE  /\ Len(outbox[c]) <= MaxTransfers
                    /\ \A d \in DOMAIN peers[c] : peers[c][d].token_decimals = Decimals[d]
                    /\ DOMAIN outbox[c] = {}
    BY DEF DecimalsInv
<1>1. outbox[c] = <<>> /\ peers[c] = [d \in Chains \ {c} |->
                              [address |-> d, token_decimals |-> Decimals[d]]]
    BY DEF Init
<1>. QED  BY <1>1, DeploymentAssumption

\* Transfers trim to what both ends can represent, if the owners register true decimals.
LEMMA DecimalsStep ==
    AccountInv /\ Honest /\ DecimalsInv /\ [Next]_vars => DecimalsInv'
<1> SUFFICES ASSUME AccountInv, Honest, DecimalsInv, [Next]_vars, NEW c \in Chains
             PROVE  /\ Len(outbox'[c]) <= MaxTransfers
                    /\ \A d \in DOMAIN peers'[c] : peers'[c][d].token_decimals = Decimals[d]
                    /\ \A i \in DOMAIN outbox'[c] :
                           /\ outbox'[c][i].amount.decimals <= Decimals[c]
                           /\ outbox'[c][i].amount.decimals <=
                                  Decimals[outbox'[c][i].recipient_chain]
    BY DEF DecimalsInv
<1>1. ASSUME NEW d \in DOMAIN peers'[c]
      PROVE  peers'[c][d].token_decimals = Decimals[d]
    <2>1. CASE UNCHANGED peers
        BY <2>1 DEF DecimalsInv
    <2>2. ASSUME NEW e \in Chains, NEW f \in Chains, NEW address, NEW limit,
                 NEW token_decimals \in PeerDecimals[f],
                 set_peer(e, f, address, token_decimals, limit)
          PROVE  peers'[c][d].token_decimals = Decimals[d]
        <3>1. token_decimals = Decimals[f]
            BY <2>2 DEF Honest
        <3>2. DOMAIN peers = Chains
            BY DEF AccountInv, LimitInv
        <3>3. peers' = [peers EXCEPT ![e] = [x \in DOMAIN @ \cup {f} |->
                  IF x = f THEN [address |-> address, token_decimals |-> token_decimals]
                           ELSE @[x]]]
            BY <2>2 DEF set_peer
        <3>. QED  BY <3>1, <3>2, <3>3 DEF DecimalsInv
    <2>3. UNCHANGED peers \/ \E e, f \in Chains : \E address \in PeerAddresses, limit \in NewLimits[e] :
              \E token_decimals \in PeerDecimals[f] :
                  set_peer(e, f, address, token_decimals, limit)
        <3>1. CASE UNCHANGED vars \/ Tick
            BY <3>1 DEF vars, Tick, adminVars
        <3>2. ASSUME NEW e \in Chains, Outbound(e) \/ Inbound(e)
              PROVE  UNCHANGED peers
            BY <3>2, OutboundFrame, InboundFrame DEF adminVars
        <3>3. ASSUME NEW e \in Chains, Administration(e)
              PROVE  \/ UNCHANGED peers
                     \/ \E f \in Chains : \E address \in PeerAddresses, limit \in NewLimits[e] :
                           \E token_decimals \in PeerDecimals[f] :
                               set_peer(e, f, address, token_decimals, limit)
            BY <3>3 DEF Administration, set_transceiver_peer, register_transceiver,
               deregister_transceiver, set_threshold, set_paused, SetConfig,
               set_outbound_limit, set_inbound_limit, adminVars
        <3>. QED  BY <3>1, <3>2, <3>3, DeploymentAssumption DEF Next
    <2>. QED  BY <2>1, <2>2, <2>3
<1>2. ASSUME UNCHANGED outboxVars
      PROVE  /\ Len(outbox'[c]) <= MaxTransfers
             /\ \A i \in DOMAIN outbox'[c] :
                    /\ outbox'[c][i].amount.decimals <= Decimals[c]
                    /\ outbox'[c][i].amount.decimals <=
                           Decimals[outbox'[c][i].recipient_chain]
    BY <1>2 DEF DecimalsInv, outboxVars
<1>3. ASSUME NEW e \in Chains, NEW d \in Chains, NEW amount \in Amounts[e], NEW should_queue,
             Transfer(e, d, amount, should_queue)
      PROVE  /\ Len(outbox'[c]) <= MaxTransfers
             /\ \A i \in DOMAIN outbox'[c] :
                    /\ outbox'[c][i].amount.decimals <= Decimals[c]
                    /\ outbox'[c][i].amount.decimals <=
                           Decimals[outbox'[c][i].recipient_chain]
    <2>1. MessageInv
        BY DEF AccountInv
    <2>2. CASE c # e
        <3>1. outbox'[c] = outbox[c]
            BY <1>3, <2>1, <2>2, TransferEffect
        <3>. QED  BY <3>1 DEF DecimalsInv
    <2>3. CASE c = e
        <3> DEFINE trimmed == trim(amount, Decimals[c], peers[c][d].token_decimals)
                   n == Len(outbox[c]) + 1
        <3>1. /\ d \in DOMAIN peers[c]
              /\ n <= MaxTransfers
              /\ DOMAIN outbox[c] = 1..Len(outbox[c])
              /\ Len(outbox[c]) \in Nat
              /\ Len(outbox'[c]) = n
              /\ DOMAIN outbox'[c] = 1..n
              /\ \A i \in DOMAIN outbox[c] : outbox'[c][i] = outbox[c][i]
              /\ outbox'[c][n].amount = trimmed
              /\ outbox'[c][n].recipient_chain = d
            BY <1>3, <2>1, <2>3, TransferEffect
        <3>2. /\ amount \in Nat /\ Decimals[c] \in Nat /\ Decimals[d] \in Nat
              /\ peers[c][d].token_decimals = Decimals[d]
            BY <2>3, <3>1, DeploymentAssumption DEF DecimalsInv
        <3>3. trimmed.decimals <= Decimals[c] /\ trimmed.decimals <= Decimals[d]
            BY <3>2, TrimType
        <3> HIDE DEF trimmed
        <3>4. ASSUME NEW i \in DOMAIN outbox'[c]
              PROVE  /\ outbox'[c][i].amount.decimals <= Decimals[c]
                     /\ outbox'[c][i].amount.decimals <=
                           Decimals[outbox'[c][i].recipient_chain]
            <4>1. i \in DOMAIN outbox[c] \/ i = n
                BY <3>1
            <4>2. CASE i \in DOMAIN outbox[c]
                BY <3>1, <4>2 DEF DecimalsInv
            <4>3. CASE i = n
                BY <3>1, <3>3, <4>3
            <4>. QED  BY <4>1, <4>2, <4>3
        <3>. QED  BY <3>1, <3>4
    <2>. QED  BY <2>2, <2>3
<1>4. ASSUME NEW e \in Chains, NEW t \in Transceivers, NEW j \in DOMAIN outbox[e],
             release_outbound(e, t, j)
      PROVE  /\ Len(outbox'[c]) <= MaxTransfers
             /\ \A i \in DOMAIN outbox'[c] :
                    /\ outbox'[c][i].amount.decimals <= Decimals[c]
                    /\ outbox'[c][i].amount.decimals <=
                           Decimals[outbox'[c][i].recipient_chain]
    <2>1. /\ DOMAIN outbox'[c] = DOMAIN outbox[c]
          /\ Len(outbox'[c]) = Len(outbox[c])
          /\ \A i \in DOMAIN outbox[c] : Kept(c, i)
        BY <1>4, SendEffect DEF AccountInv
    <2>. QED  BY <2>1 DEF DecimalsInv, Kept
<1>. QED  BY <1>1, <1>2, <1>3, <1>4, OutboxFrame


\* Nothing was sent, nothing received.
LEMMA SentInit == Init => SentInv
    BY DEF Init, SentInv

\* Only receive_message adds to what is received, if no transceiver is at fault.
LEMMA ValidatedFrame ==
    ASSUME [Next]_vars, Honest
    PROVE  \/ UNCHANGED validated
           \/ \E c \in Chains : \E vaa \in vaas : receive_message(c, vaa[1], vaa[2])
<1>1. CASE UNCHANGED vars \/ Tick
    BY <1>1 DEF vars, Tick, inboxVars
<1>2. ASSUME NEW c \in Chains, Outbound(c)
      PROVE  UNCHANGED validated
    BY <1>2, OutboundFrame DEF inboxVars
<1>3. ASSUME NEW c \in Chains, Administration(c)
      PROVE  UNCHANGED validated
    BY <1>3, AdministrationFrame DEF inboxVars
<1>4. ASSUME NEW c \in Chains, Inbound(c)
      PROVE  UNCHANGED validated \/ \E vaa \in vaas : receive_message(c, vaa[1], vaa[2])
    BY <1>4 DEF Inbound, Honest, redeem, release_inbound_mint, release_inbound_unlock,
       release_inbox_item
<1>. QED  BY <1>1, <1>2, <1>3, <1>4, DeploymentAssumption DEF Next

\* What is received was sent before, and an inbox item stands for what was received.
LEMMA SentStep == AccountInv /\ Honest /\ SentInv /\ [Next]_vars => SentInv'
<1> SUFFICES ASSUME AccountInv, Honest, SentInv, [Next]_vars
             PROVE  SentInv'
    OBVIOUS
<1>1. MessageInv /\ InboxInv
    BY DEF AccountInv
<1>2. ASSUME NEW vaa \in vaas'
      PROVE  IsSent(keccak256(vaa[2]))'
    <2>1. CASE vaa \in vaas
        BY <1>1, <2>1, SentStays DEF SentInv
    <2>2. ASSUME NEW c \in Chains, NEW t \in Transceivers, NEW j \in DOMAIN outbox[c],
                 release_outbound(c, t, j), vaa \notin vaas
          PROVE  IsSent(keccak256(vaa[2]))'
        <3>1. vaa = <<t, Message(c, j)>>
            BY <1>1, <2>2, SendEffect
        <3>2. IsSent(keccak256(vaa[2]))
            BY <3>1, MessageIsSent
        <3>. QED  BY <1>1, <3>2, SentStays
    <2>3. ASSUME NEW c \in Chains, NEW d \in Chains, NEW amount \in Amounts[c],
                 NEW should_queue, Transfer(c, d, amount, should_queue)
          PROVE  vaa \in vaas
        BY <2>3 DEF Transfer
    <2>4. UNCHANGED outboxVars => vaa \in vaas
        BY DEF outboxVars
    <2>. QED  BY <2>1, <2>2, <2>3, <2>4, OutboxFrame
<1>3. ASSUME NEW c \in Chains, NEW v \in validated'[c]
      PROVE  IsSent(keccak256(v[2]))' /\ v[2].to_chain = c
    <2>1. CASE v \in validated[c]
        BY <1>1, <2>1, SentStays DEF SentInv
    <2>2. ASSUME NEW d \in Chains, NEW vaa \in vaas, receive_message(d, vaa[1], vaa[2]),
                 v \notin validated[c]
          PROVE  IsSent(keccak256(v[2]))' /\ v[2].to_chain = c
        <3>1. /\ validated' = [validated EXCEPT ![d] = @ \cup {<<vaa[1], vaa[2]>>}]
              /\ vaa[2].to_chain = d
            BY <2>2 DEF receive_message
        <3>2. c = d /\ v[2] = vaa[2]
            BY <1>1, <2>2, <3>1 DEF MessageInv
        <3>3. IsSent(keccak256(v[2]))
            BY <3>2 DEF SentInv
        <3>. QED  BY <1>1, <3>1, <3>2, <3>3, SentStays
    <2>3. UNCHANGED validated => v \in validated[c]
        OBVIOUS
    <2>. QED  BY <2>1, <2>2, <2>3, ValidatedFrame
<1>4. ASSUME NEW c \in Chains, NEW k \in DOMAIN inbox'[c]
      PROVE  /\ IsSent(k)' /\ k.to_chain = c
             /\ inbox'[c][k].amount = untrim(k.amount, Decimals[c])
    <2>1. ASSUME k \in DOMAIN inbox[c], inbox'[c][k].amount = inbox[c][k].amount
          PROVE  /\ IsSent(k)' /\ k.to_chain = c
                 /\ inbox'[c][k].amount = untrim(k.amount, Decimals[c])
        BY <1>1, <2>1, SentStays DEF SentInv
    <2>2. CASE UNCHANGED inbox
        BY <2>1, <2>2
    <2>3. ASSUME NEW d \in Chains, NEW v \in validated[d], redeem(d, v[1], v[2])
          PROVE  /\ IsSent(k)' /\ k.to_chain = c
                 /\ inbox'[c][k].amount = untrim(k.amount, Decimals[c])
        <3> DEFINE item == ItemOf(d, v[2])
        <3>1. PICK new_item \in InboxItem :
                  /\ new_item.amount = item.amount
                  /\ Redeems(d, keccak256(v[2]), new_item)
            BY <2>3, RedeemEffect DEF AccountInv
        <3>2. CASE c # d \/ k # keccak256(v[2])
            BY <2>1, <3>1, <3>2 DEF Redeems
        <3>3. CASE c = d /\ k = keccak256(v[2])
            <4>1. inbox'[c][k].amount = item.amount
                BY <3>1, <3>3 DEF Redeems
            <4>2. CASE k \in DOMAIN inbox[c]
                BY <2>1, <3>3, <4>1, <4>2 DEF ItemOf
            <4>3. CASE k \notin DOMAIN inbox[c]
                <5>1. item.amount = untrim(v[2].amount, Decimals[c])
                    BY <3>3, <4>3 DEF ItemOf
                <5>2. k.amount = v[2].amount /\ k.to_chain = v[2].to_chain
                    BY <3>3 DEF keccak256
                <5>3. IsSent(k) /\ v[2].to_chain = c
                    BY <3>3 DEF SentInv
                <5>. QED  BY <1>1, <4>1, <5>1, <5>2, <5>3, SentStays
            <4>. QED  BY <4>2, <4>3
        <3>. QED  BY <3>2, <3>3
    <2>4. ASSUME NEW d \in Chains, NEW j \in DOMAIN inbox[d], release_inbox_item(d, j)
          PROVE  k \in DOMAIN inbox[c] /\ inbox'[c][k].amount = inbox[c][k].amount
        <3>1. CASE c # d \/ k # j
            BY <1>1, <2>4, <3>1, ReleaseEffect
        <3>2. CASE c = d /\ k = j
            BY <1>1, <2>4, <3>2, ReleaseEffect
        <3>. QED  BY <3>1, <3>2
    <2>. QED  BY <2>1, <2>2, <2>3, <2>4, InboxFrame
<1>. QED  BY <1>2, <1>3, <1>4 DEF SentInv


\* One chain of S gets a more: so does the sum, in units.
LEMMA UnitsChange ==
    ASSUME NEW S \in SUBSET Chains, NEW f \in [Chains -> Nat], NEW g \in [Chains -> Nat],
           NEW c \in S, NEW a \in Nat, g[c] = f[c] + a, \A d \in S \ {c} : g[d] = f[d]
    PROVE  SumFunction([d \in S |-> InUnits(g[d], Decimals[d])]) =
               SumFunction([d \in S |-> InUnits(f[d], Decimals[d])]) + InUnits(a, Decimals[c])
<1> DEFINE u == [d \in S |-> InUnits(f[d], Decimals[d])]
           v == [d \in S |-> InUnits(g[d], Decimals[d])]
<1>1. IsFiniteSet(S)
    BY DeploymentAssumption, FS_Subset
<1>2. ASSUME NEW d \in Chains
      PROVE  /\ \A x \in Nat : InUnits(x, Decimals[d]) \in Nat
             /\ \A x, y, s \in Nat : s = x + y =>
                   InUnits(s, Decimals[d]) = InUnits(x, Decimals[d]) + InUnits(y, Decimals[d])
    <2>1. Decimals[d] \in Nat /\ Decimals[d] <= Decimals[d]
        BY DeploymentAssumption
    <2>. QED  BY <2>1, UnitsAdd
<1>3. \A d \in S : u[d] \in Nat /\ v[d] \in Nat
    BY <1>2
<1>4. \A d \in S \ {c} : u[d] = v[d]
    OBVIOUS
<1>5. v[c] = u[c] + InUnits(a, Decimals[c]) /\ InUnits(a, Decimals[c]) \in Nat
    BY <1>2
<1>6. DOMAIN u = S /\ DOMAIN v = S
    OBVIOUS
<1> HIDE DEF u, v
<1>7. SumFunctionOnSet(v, S) + u[c] = SumFunctionOnSet(u, S) + v[c]
    BY <1>1, <1>3, <1>4, SumChange
<1>8. SumFunctionOnSet(u, S) \in Nat /\ SumFunctionOnSet(v, S) \in Nat
    BY <1>1, <1>3, SumType
<1>9. SumFunctionOnSet(v, S) = SumFunctionOnSet(u, S) + InUnits(a, Decimals[c])
    BY <1>3, <1>5, <1>7, <1>8
<1>. QED  BY <1>6, <1>9 DEF SumFunction, u, v

\* The sums of Backed are natural numbers.
LEMMA UnitsType ==
    ASSUME NEW S \in SUBSET Chains, NEW f \in [Chains -> Nat]
    PROVE  SumFunction([d \in S |-> InUnits(f[d], Decimals[d])]) \in Nat
<1> DEFINE u == [d \in S |-> InUnits(f[d], Decimals[d])]
<1>1. IsFiniteSet(S)
    BY DeploymentAssumption, FS_Subset
<1>2. ASSUME NEW d \in S
      PROVE  u[d] \in Nat
    <2>1. Decimals[d] \in Nat /\ Decimals[d] <= Decimals[d] /\ f[d] \in Nat
        BY DeploymentAssumption
    <2>. QED  BY <2>1, UnitsAdd
<1>3. DOMAIN u = S
    OBVIOUS
<1> HIDE DEF u
<1>4. SumFunction(u) \in Nat
    BY <1>1, <1>2, <1>3, SumType DEF SumFunction
<1>. QED  BY <1>4 DEF u

\* The sum over one more item.
LEMMA FlightChange ==
    ASSUME NEW S, IsFiniteSet(S), NEW x, x \notin S, NEW f, DOMAIN f = S,
           NEW g, DOMAIN g = S \cup {x}, \A y \in S \cup {x} : g[y] \in Nat,
           \A y \in S : f[y] = g[y]
    PROVE  /\ SumFunction(g) = SumFunction(f) + g[x]
           /\ SumFunction(f) \in Nat /\ SumFunction(g) \in Nat
<1>1. SumFunctionOnSet(g, S \cup {x}) = SumFunctionOnSet(f, S) + g[x]
    BY SumAdd
<1>2. \A y \in S : f[y] \in Nat
    OBVIOUS
<1>3. SumFunctionOnSet(f, S) \in Nat
    BY <1>2, SumType
<1>. QED  BY <1>1, <1>3 DEF SumFunction

\* Items of the outboxes have a value; there are finitely many of them.
ValuesInv ==
    /\ IsFiniteSet(Items)
    /\ \A x \in Items : /\ x[1] \in Chains /\ x[2] \in DOMAIN outbox[x[1]]
                        /\ x = <<x[1], x[2]>>
                        /\ Sent(x) \in Nat

\* Because their number is bounded and their decimals are those of some chain.
LEMMA ItemNumbers == MessageInv /\ DecimalsInv => ValuesInv
<1> SUFFICES ASSUME MessageInv, DecimalsInv
             PROVE  ValuesInv
    OBVIOUS
<1>1. IsFiniteSet(Items)
    <2>1. IsFiniteSet(1..MaxTransfers)
        BY DeploymentAssumption, FS_Interval
    <2>2. IsFiniteSet(Chains \X (1..MaxTransfers))
        BY <2>1, DeploymentAssumption, FS_Product
    <2>3. Items \subseteq Chains \X (1..MaxTransfers)
        BY DEF Items
    <2>. QED  BY <2>2, <2>3, FS_Subset
<1>2. ASSUME NEW x \in Items
      PROVE  /\ x[1] \in Chains /\ x[2] \in DOMAIN outbox[x[1]]
             /\ x = <<x[1], x[2]>>
             /\ Sent(x) \in Nat
    <2>1. x[1] \in Chains /\ x[2] \in DOMAIN outbox[x[1]] /\ x = <<x[1], x[2]>>
        BY DEF Items
    <2>2. outbox[x[1]][x[2]] \in OutboxItem
        BY <2>1, MessageType
    <2>3. /\ outbox[x[1]][x[2]].amount.amount \in Nat
          /\ outbox[x[1]][x[2]].amount.decimals \in Nat
        BY <2>2 DEF OutboxItem, TrimmedAmount
    <2>4. outbox[x[1]][x[2]].amount.decimals <= Decimals[x[1]]
        BY <2>1 DEF DecimalsInv
    <2>. QED  BY <2>1, <2>3, <2>4, UnitsAdd DEF Sent
<1>. QED  BY <1>1, <1>2 DEF ValuesInv

\* The items are those of the outboxes.
LEMMA ItemsOfOutbox ==
    ASSUME MessageInv, DecimalsInv, NEW c \in Chains, NEW i \in DOMAIN outbox[c]
    PROVE  <<c, i>> \in Items
<1>1. outbox[c] \in Seq(OutboxItem) /\ Len(outbox[c]) <= MaxTransfers
    BY DEF MessageInv, DecimalsInv
<1>2. i \in 1..Len(outbox[c]) /\ Len(outbox[c]) \in Nat
    BY <1>1, LenProperties
<1>3. i \in 1..MaxTransfers
    BY <1>1, <1>2, DeploymentAssumption
<1>. QED  BY <1>3 DEF Items

\* The inbox item at k of chain c was released.
Paid(c, k) == k \in DOMAIN inbox[c] /\ inbox[c][k].release_status = Released

\* An item keeps its message and its value.
LEMMA ItemSteady ==
    ASSUME MessageInv, DecimalsInv, MessageInv', DecimalsInv', [Next]_vars, NEW x \in Items
    PROVE  /\ x \in Items'
           /\ keccak256(Message(x[1], x[2]))' = keccak256(Message(x[1], x[2]))
           /\ Sent(x)' = Sent(x)
<1>1. x[1] \in Chains /\ x[2] \in DOMAIN outbox[x[1]] /\ x \in Chains \X (1..MaxTransfers)
    BY DEF Items
<1>2. Kept(x[1], x[2]) /\ Message(x[1], x[2])' = Message(x[1], x[2])
    BY <1>1, ItemsKept
<1>3. x \in Items'
    BY <1>1, <1>2 DEF Items, Kept
<1>4. keccak256(Message(x[1], x[2]))' = keccak256(Message(x[1], x[2]))
    BY <1>2, Zenon DEF keccak256
<1>5. Sent(x)' = Sent(x)
    BY <1>2 DEF Sent, Kept
<1>. QED  BY <1>3, <1>4, <1>5


\* The three sums of Backed.
Locked == SumFunction([c \in Locking |-> InUnits(custody[c], Decimals[c])])
Circulating == SumFunction([c \in Chains \ Locking |-> InUnits(balance[c], Decimals[c])])
Flying == SumFunction([x \in InFlight |-> Sent(x)])

\* Another item is on its way.
LEMMA FlyingGrows ==
    ASSUME MessageInv, DecimalsInv, MessageInv', DecimalsInv', NEW x, x \notin InFlight,
           InFlight' = InFlight \cup {x}, \A y \in InFlight : Sent(y)' = Sent(y)
    PROVE  Flying' = Flying + Sent(x)' /\ Flying \in Nat
<1> DEFINE f == [y \in InFlight |-> Sent(y)]
           g == [y \in InFlight' |-> Sent(y)']
<1>1. IsFiniteSet(InFlight) /\ \A y \in InFlight : Sent(y) \in Nat
    <2>1. InFlight \subseteq Items
        BY DEF InFlight
    <2>. QED  BY <2>1, ItemNumbers, FS_Subset DEF ValuesInv
<1>2. \A y \in InFlight' : Sent(y)' \in Nat
    <2>1. ValuesInv'
        BY ItemNumbers, PTL
    <2>2. InFlight' \subseteq Items'
        BY DEF InFlight
    <2>. QED  BY <2>1, <2>2 DEF ValuesInv
<1>3. /\ DOMAIN f = InFlight
      /\ DOMAIN g = InFlight \cup {x}
      /\ \A y \in InFlight \cup {x} : g[y] = Sent(y)'
      /\ \A y \in InFlight : f[y] = Sent(y)
    OBVIOUS
<1>4. /\ \A y \in InFlight \cup {x} : g[y] \in Nat
      /\ \A y \in InFlight : f[y] = g[y]
      /\ g[x] = Sent(x)'
    BY <1>2, <1>3
<1>5. Flying = SumFunction(f) /\ Flying' = SumFunction(g)
    BY DEF Flying
<1> HIDE DEF f, g
<1>6. SumFunction(g) = SumFunction(f) + g[x] /\ SumFunction(f) \in Nat
    BY <1>1, <1>3, <1>4, FlightChange
<1>. QED  BY <1>4, <1>5, <1>6

\* An item has arrived.
LEMMA FlyingShrinks ==
    ASSUME MessageInv, DecimalsInv, MessageInv', DecimalsInv', NEW x, x \notin InFlight',
           InFlight = InFlight' \cup {x}, \A y \in InFlight : Sent(y)' = Sent(y)
    PROVE  Flying = Flying' + Sent(x) /\ Flying' \in Nat
<1> DEFINE f == [y \in InFlight |-> Sent(y)]
           g == [y \in InFlight' |-> Sent(y)']
<1>1. IsFiniteSet(InFlight) /\ \A y \in InFlight : Sent(y) \in Nat
    <2>1. InFlight \subseteq Items
        BY DEF InFlight
    <2>. QED  BY <2>1, ItemNumbers, FS_Subset DEF ValuesInv
<1>2. IsFiniteSet(InFlight')
    BY <1>1, FS_Subset
<1>3. /\ DOMAIN g = InFlight'
      /\ DOMAIN f = InFlight' \cup {x}
      /\ \A y \in InFlight' : g[y] = Sent(y)'
      /\ \A y \in InFlight' \cup {x} : f[y] = Sent(y)
    OBVIOUS
<1>4. /\ \A y \in InFlight' \cup {x} : f[y] \in Nat
      /\ \A y \in InFlight' : g[y] = f[y]
      /\ f[x] = Sent(x)
    BY <1>1, <1>3
<1>5. Flying = SumFunction(f) /\ Flying' = SumFunction(g)
    BY DEF Flying
<1> DEFINE S == InFlight'
<1>6. SumFunction(f) = SumFunction(g) + f[x] /\ SumFunction(g) \in Nat
    <2>1. /\ IsFiniteSet(S) /\ x \notin S /\ DOMAIN g = S /\ DOMAIN f = S \cup {x}
          /\ \A y \in S \cup {x} : f[y] \in Nat
          /\ \A y \in S : g[y] = f[y]
        BY <1>2, <1>3, <1>4
    <2> HIDE DEF S, f, g
    <2>. QED  BY <2>1, FlightChange
<1> HIDE DEF f, g
<1>. QED  BY <1>4, <1>5, <1>6

\* A transfer sends one more item, of the value that was taken.
LEMMA TransferFlight ==
    ASSUME AccountInv, DecimalsInv, SentInv, AccountInv', DecimalsInv', [Next]_vars,
           NEW c \in Chains, NEW d \in Chains, NEW amount \in Amounts[c],
           NEW should_queue, Transfer(c, d, amount, should_queue),
           NEW n, n = Len(outbox[c]) + 1
    PROVE  LET x == <<c, n>>
               kept == WithoutDust(amount, Decimals[c], peers[c][d].token_decimals)
           IN  /\ x \notin Items /\ Items' = Items \cup {x}
               /\ outbox'[c][n].recipient_chain = d
               /\ x \notin InFlight
               /\ InFlight' = InFlight \cup {x}
               /\ \A y \in InFlight : Sent(y)' = Sent(y)
               /\ kept \in Nat
               /\ Sent(x)' = InUnits(kept, Decimals[c])
<1> DEFINE x == <<c, n>>
           trimmed == trim(amount, Decimals[c], peers[c][d].token_decimals)
           kept == WithoutDust(amount, Decimals[c], peers[c][d].token_decimals)
<1>1. /\ d \in DOMAIN peers[c]
      /\ n <= MaxTransfers
      /\ DOMAIN outbox[c] = 1..Len(outbox[c])
      /\ Len(outbox[c]) \in Nat
      /\ DOMAIN outbox'[c] = 1..n
      /\ outbox'[c][n].amount = trimmed
      /\ outbox'[c][n].recipient_chain = d
      /\ \A e \in Chains \ {c} : outbox'[e] = outbox[e]
      /\ UNCHANGED inbox
    BY TransferEffect DEF AccountInv, inboxVars
<1>2. n \notin DOMAIN outbox[c] /\ n \in DOMAIN outbox'[c] /\ n \in 1..MaxTransfers
    BY <1>1, DeploymentAssumption
<1>3. x \notin Items
    BY <1>2 DEF Items
<1>4. Items' = Items \cup {x}
    <2>1. ASSUME NEW y \in Chains \X (1..MaxTransfers)
          PROVE  y[2] \in DOMAIN outbox'[y[1]] <=> (y[2] \in DOMAIN outbox[y[1]] \/ y = x)
        <3>1. CASE y[1] # c
            <4>1. outbox'[y[1]] = outbox[y[1]] /\ y # x
                BY <1>1, <3>1
            <4>. QED  BY <4>1
        <3>2. CASE y[1] = c
            <4>1. y = <<c, y[2]>>
                BY <3>2
            <4>2. y[2] \in 1..n <=> (y[2] \in 1..Len(outbox[c]) \/ y[2] = n)
                BY <1>1
            <4>3. y = x <=> y[2] = n
                BY <4>1
            <4>. QED  BY <1>1, <3>2, <4>2, <4>3
        <3>. QED  BY <3>1, <3>2
    <2>2. x \in Chains \X (1..MaxTransfers)
        BY <1>2
    <2> HIDE DEF x
    <2>. QED  BY <2>1, <2>2 DEF Items
<1>5. ASSUME NEW y \in Items
      PROVE  /\ Arrived(y[1], y[2])' <=> Arrived(y[1], y[2])
             /\ Sent(y)' = Sent(y)
    <2>1. /\ keccak256(Message(y[1], y[2]))' = keccak256(Message(y[1], y[2]))
          /\ Sent(y)' = Sent(y)
        BY <1>5, ItemSteady DEF AccountInv
    <2>. QED  BY <1>1, <2>1 DEF Arrived
<1>6. ~ Arrived(c, n)'
    <2> DEFINE k == keccak256(Message(c, n))'
    <2>1. k.from_chain = c /\ k.id = n
        BY DEF keccak256, Message
    <2>2. k.to_chain = d
        BY <1>1 DEF keccak256, Message
    <2> HIDE DEF k
    <2>3. k \notin DOMAIN inbox[d]
        BY <1>2, <2>1 DEF SentInv, IsSent
    <2>4. Arrived(c, n)' => k \in DOMAIN inbox'[k.to_chain]
        BY DEF Arrived, k
    <2>. QED  BY <1>1, <2>2, <2>3, <2>4
<1>7. /\ InFlight' = {y \in Items' : ~ Arrived(y[1], y[2])'}
      /\ InFlight = {y \in Items : ~ Arrived(y[1], y[2])}
    BY DEF InFlight
<1>8. x \notin InFlight /\ InFlight' = InFlight \cup {x}
    <2>1. x[1] = c /\ x[2] = n
        OBVIOUS
    <2> HIDE DEF x
    <2>. QED  BY <1>3, <1>4, <1>5, <1>6, <1>7, <2>1
<1>9. \A y \in InFlight : Sent(y)' = Sent(y)
    BY <1>5, <1>7
<1>10. kept \in Nat /\ Sent(x)' = InUnits(kept, Decimals[c])
    <2>1. /\ amount \in Nat /\ Decimals[c] \in Nat /\ peers[c][d].token_decimals \in Nat
          /\ trimmed \in TrimmedAmount
          /\ kept \in Nat
        BY <1>1, TransferNumbers DEF AccountInv
    <2>2. trimmed.decimals <= Decimals[c]
        BY <2>1, TrimType
    <2>3. kept = untrim(trimmed, Decimals[c])
        BY DEF WithoutDust
    <2>4. Sent(x)' = InUnits(outbox'[c][n].amount.amount, outbox'[c][n].amount.decimals)
        BY DEF Sent, InUnits
    <2> HIDE DEF trimmed, kept, x
    <2>5. Sent(x)' = InUnits(trimmed.amount, trimmed.decimals)
        BY <1>1, <2>4
    <2>. QED  BY <2>1, <2>2, <2>3, <2>5, UntrimKeepsValue
<1>. QED  BY <1>1, <1>3, <1>4, <1>8, <1>9, <1>10


\* An item arrives where its message goes.
LEMMA ArrivedPaid ==
    ASSUME MessageInv, NEW x \in Items
    PROVE  LET k == keccak256(Message(x[1], x[2]))
           IN  /\ k.to_chain \in Chains
               /\ k.from_chain = x[1] /\ k.id = x[2]
               /\ k.amount = outbox[x[1]][x[2]].amount
               /\ k.to_chain = outbox[x[1]][x[2]].recipient_chain
               /\ Arrived(x[1], x[2]) <=> Paid(k.to_chain, k)
<1>1. x[1] \in Chains /\ x[2] \in DOMAIN outbox[x[1]]
    BY DEF Items
<1>2. outbox[x[1]][x[2]].recipient_chain \in Chains
    BY <1>1, MessageType DEF OutboxItem
<1>. QED  BY <1>1, <1>2, MessageIsSent DEF Arrived, Paid

\* A release of an inbox item lands the item that its message came from, with its value.
LEMMA ReleaseFlight ==
    ASSUME AccountInv, DecimalsInv, SentInv, AccountInv', DecimalsInv', [Next]_vars,
           NEW c \in Chains, NEW k \in DOMAIN inbox[c], release_inbox_item(c, k)
    PROVE  LET x == <<k.from_chain, k.id>>
           IN  /\ Items' = Items
               /\ outbox[x[1]][x[2]].recipient_chain = c
               /\ x \notin InFlight'
               /\ InFlight = InFlight' \cup {x}
               /\ \A y \in InFlight : Sent(y)' = Sent(y)
               /\ inbox[c][k].amount \in Nat
               /\ Sent(x) = InUnits(inbox[c][k].amount, Decimals[c])
<1> DEFINE x == <<k.from_chain, k.id>>
           h(y) == keccak256(Message(y[1], y[2]))
<1>1. MessageInv /\ InboxInv
    BY DEF AccountInv
<1>2. IsSent(k) /\ k.to_chain = c /\ inbox[c][k].amount = untrim(k.amount, Decimals[c])
    BY DEF SentInv
<1>3. k.from_chain \in Chains /\ k.id \in DOMAIN outbox[k.from_chain] /\ h(x) = k
    BY <1>2 DEF IsSent
<1>4. x \in Items
    BY <1>1, <1>3, ItemsOfOutbox
<1>5. Items' = Items
    BY DEF release_inbox_item, outboxVars, Items
<1>6. ASSUME NEW y \in Items
      PROVE  h(y) = k <=> y = x
    <2>1. y = <<y[1], y[2]>>
        BY DEF Items
    <2>2. h(y).from_chain = y[1] /\ h(y).id = y[2]
        BY DEF keccak256, Message
    <2> HIDE DEF h
    <2>. QED  BY <1>3, <2>1, <2>2
<1>7. ASSUME NEW y \in Items
      PROVE  /\ Arrived(y[1], y[2])' <=> (Arrived(y[1], y[2]) \/ y = x)
             /\ Sent(y)' = Sent(y)
    <2>1. h(y)' = h(y) /\ Sent(y)' = Sent(y)
        BY <1>7, ItemSteady DEF AccountInv
    <2>2. h(y).to_chain \in Chains /\ (Arrived(y[1], y[2]) <=> Paid(h(y).to_chain, h(y)))
        BY <1>1, <1>7, ArrivedPaid
    <2>3. Arrived(y[1], y[2])' <=> Paid(h(y).to_chain, h(y))'
        <3>1. Arrived(y[1], y[2])' <=>
                /\ h(y)' \in DOMAIN inbox'[h(y)'.to_chain]
                /\ inbox'[h(y)'.to_chain][h(y)'].release_status = Released
            BY DEF Arrived
        <3>2. Paid(h(y).to_chain, h(y))' <=>
                /\ h(y)' \in DOMAIN inbox'[h(y)'.to_chain]
                /\ inbox'[h(y)'.to_chain][h(y)'].release_status = Released
            BY DEF Paid
        <3>. QED  BY <3>1, <3>2
    <2>4. Paid(h(y).to_chain, h(y))' <=>
                /\ h(y) \in DOMAIN inbox'[h(y).to_chain]
                /\ inbox'[h(y).to_chain][h(y)].release_status = Released
        BY <2>1 DEF Paid
    <2> HIDE DEF h
    <2>5. CASE y = x
        <3>1. h(y) = k /\ h(y).to_chain = c
            BY <1>2, <1>3, <2>5
        <3>2. k \in DOMAIN inbox'[c] /\ inbox'[c][k].release_status = Released
            BY <1>1, ReleaseEffect
        <3>. QED  BY <2>1, <2>3, <2>4, <2>5, <3>1, <3>2
    <2>6. CASE y # x
        <3>1. h(y) # k
            BY <1>6, <2>6 DEF h
        <3>2. /\ h(y) \in DOMAIN inbox'[h(y).to_chain]
              /\ inbox'[h(y).to_chain][h(y)].release_status = Released
              <=> Paid(h(y).to_chain, h(y))
            <4>1. CASE h(y).to_chain # c
                <5>1. inbox'[h(y).to_chain] = inbox[h(y).to_chain]
                    BY <1>1, <2>2, <4>1, ReleaseEffect
                <5>. QED  BY <5>1 DEF Paid
            <4>2. CASE h(y).to_chain = c
                <5>1. /\ DOMAIN inbox'[c] = DOMAIN inbox[c]
                      /\ h(y) \in DOMAIN inbox[c] => inbox'[c][h(y)] = inbox[c][h(y)]
                    BY <1>1, <3>1, ReleaseEffect
                <5>. QED  BY <4>2, <5>1 DEF Paid
            <4>. QED  BY <4>1, <4>2
        <3>. QED  BY <2>1, <2>2, <2>3, <2>4, <2>6, <3>2
    <2>. QED  BY <2>5, <2>6
<1>8. ~ Arrived(x[1], x[2])
    <2>1. inbox[c][k].release_status.tag = "ReleaseAfter"
        BY <1>1, ReleaseEffect
    <2>2. ~ Paid(c, k)
        BY <2>1 DEF Paid, Released
    <2>3. Arrived(x[1], x[2]) <=> Paid(k.to_chain, k)
        BY <1>1, <1>3, <1>4, ArrivedPaid
    <2>. QED  BY <1>2, <2>2, <2>3
<1>9. /\ InFlight' = {y \in Items : ~ Arrived(y[1], y[2])'}
      /\ InFlight = {y \in Items : ~ Arrived(y[1], y[2])}
    BY <1>5 DEF InFlight
<1>10. x \notin InFlight' /\ InFlight = InFlight' \cup {x}
    <2> HIDE DEF x
    <2>. QED  BY <1>4, <1>7, <1>8, <1>9
<1>11. \A y \in InFlight : Sent(y)' = Sent(y)
    BY <1>7, <1>9
<1>12. inbox[c][k].amount \in Nat /\ Sent(x) = InUnits(inbox[c][k].amount, Decimals[c])
    <2>1. inbox[c][k].amount \in Nat
        BY <1>1 DEF InboxInv, InboxItem
    <2>2. /\ k.amount = outbox[x[1]][x[2]].amount
          /\ c = outbox[x[1]][x[2]].recipient_chain
        BY <1>1, <1>2, <1>3, <1>4, ArrivedPaid
    <2>3. /\ outbox[x[1]][x[2]].amount \in TrimmedAmount
          /\ outbox[x[1]][x[2]].amount.decimals <= Decimals[c]
        BY <1>1, <1>3, <2>2, MessageType DEF OutboxItem, DecimalsInv
    <2>4. Sent(x) = InUnits(k.amount.amount, k.amount.decimals)
        BY <2>2 DEF Sent
    <2>. QED  BY <1>2, <2>1, <2>2, <2>3, <2>4, UntrimKeepsValue
<1>13. c = outbox[x[1]][x[2]].recipient_chain
    BY <1>1, <1>2, <1>3, <1>4, ArrivedPaid
<1>. QED  BY <1>5, <1>10, <1>11, <1>12, <1>13


\* Nothing is sent, nothing arrives.
LEMMA SteadyFlight ==
    ASSUME AccountInv, DecimalsInv, AccountInv', DecimalsInv', [Next]_vars,
           \A c \in Chains : DOMAIN outbox'[c] = DOMAIN outbox[c],
           \A c \in Chains : \A k :
               k \in DOMAIN inbox'[c] /\ inbox'[c][k].release_status = Released <=> Paid(c, k)
    PROVE  Flying' = Flying /\ InFlight' = InFlight /\ Items' = Items
<1> DEFINE h(y) == keccak256(Message(y[1], y[2]))
<1>1. MessageInv
    BY DEF AccountInv
<1>2. Items' = Items
    BY DEF Items
<1>3. ASSUME NEW y \in Items
      PROVE  /\ Arrived(y[1], y[2])' <=> Arrived(y[1], y[2])
             /\ Sent(y)' = Sent(y)
    <2>1. h(y)' = h(y) /\ Sent(y)' = Sent(y)
        BY <1>3, ItemSteady DEF AccountInv
    <2>2. h(y).to_chain \in Chains /\ (Arrived(y[1], y[2]) <=> Paid(h(y).to_chain, h(y)))
        BY <1>1, <1>3, ArrivedPaid
    <2>3. Arrived(y[1], y[2])' <=>
                /\ h(y)' \in DOMAIN inbox'[h(y)'.to_chain]
                /\ inbox'[h(y)'.to_chain][h(y)'].release_status = Released
        BY DEF Arrived
    <2> HIDE DEF h
    <2>4. Arrived(y[1], y[2])' <=> Paid(h(y).to_chain, h(y))
        BY <2>1, <2>2, <2>3
    <2>. QED  BY <2>1, <2>2, <2>4
<1>4. InFlight' = InFlight
    BY <1>2, <1>3 DEF InFlight
<1>5. \A y \in InFlight : Sent(y)' = Sent(y)
    BY <1>3 DEF InFlight
<1>6. [y \in InFlight' |-> Sent(y)'] = [y \in InFlight |-> Sent(y)]
    BY <1>4, <1>5
<1>. QED  BY <1>2, <1>4, <1>6 DEF Flying

\* The instructions that neither send nor land anything move no tokens.
LEMMA Quiet ==
    ASSUME AccountInv, [Next]_vars
    PROVE  \/ /\ UNCHANGED tokenVars
              /\ \A c \in Chains : DOMAIN outbox'[c] = DOMAIN outbox[c]
              /\ \A c \in Chains : \A k :
                     k \in DOMAIN inbox'[c] /\ inbox'[c][k].release_status = Released
                         <=> Paid(c, k)
           \/ \E c, d \in Chains : \E amount \in Amounts[c], should_queue \in Queueing :
                  \/ transfer_burn(c, d, amount, should_queue)
                  \/ transfer_lock(c, d, amount, should_queue)
           \/ \E c \in Chains : \E k \in DOMAIN inbox[c] :
                  release_inbound_mint(c, k) \/ release_inbound_unlock(c, k)
<1> DEFINE Still == /\ UNCHANGED tokenVars
                    /\ \A c \in Chains : DOMAIN outbox'[c] = DOMAIN outbox[c]
                    /\ \A c \in Chains : \A k :
                           k \in DOMAIN inbox'[c] /\ inbox'[c][k].release_status = Released
                               <=> Paid(c, k)
<1>1. ASSUME UNCHANGED <<tokenVars, outbox, inbox>>
      PROVE  Still
    BY <1>1 DEF Paid
<1>2. (UNCHANGED vars \/ Tick) => Still
    BY <1>1 DEF vars, Tick, outboxVars, inboxVars
<1>3. ASSUME NEW c \in Chains, Administration(c)
      PROVE  Still
    <2>1. UNCHANGED <<tokenVars, outbox, inbox>>
        BY <1>3, AdministrationFrame DEF outboxVars, inboxVars
    <2>. QED  BY <1>1, <2>1
<1>4. ASSUME NEW c \in Chains, NEW t \in Transceivers, NEW i \in DOMAIN outbox[c],
             release_outbound(c, t, i)
      PROVE  Still
    <2>1. /\ UNCHANGED <<tokenVars, inbox>>
          /\ \A d \in Chains : DOMAIN outbox'[d] = DOMAIN outbox[d]
        BY <1>4, SendEffect DEF AccountInv, inboxVars
    <2>. QED  BY <2>1 DEF Paid
<1>5. ASSUME NEW c \in Chains, NEW v \in validated[c], redeem(c, v[1], v[2])
      PROVE  Still
    <2> DEFINE item == ItemOf(c, v[2])
    <2>1. UNCHANGED <<tokenVars, outbox>>
        BY <1>5 DEF redeem, outboxVars
    <2>2. PICK new_item \in InboxItem :
              /\ \/ new_item.release_status = item.release_status
                 \/ /\ item.release_status = NotApproved
                    /\ new_item.release_status.tag = "ReleaseAfter"
              /\ Redeems(c, keccak256(v[2]), new_item)
        BY <1>5, RedeemEffect DEF AccountInv
    <2>3. ASSUME NEW d \in Chains, NEW k
          PROVE  k \in DOMAIN inbox'[d] /\ inbox'[d][k].release_status = Released
                     <=> Paid(d, k)
        <3>1. CASE d # c \/ k # keccak256(v[2])
            BY <2>2, <3>1 DEF Redeems, Paid
        <3>2. CASE d = c /\ k = keccak256(v[2])
            <4>1. k \in DOMAIN inbox'[d] /\ inbox'[d][k] = new_item
                BY <2>2, <3>2 DEF Redeems
            <4>2. CASE k \in DOMAIN inbox[d]
                <5>1. item = inbox[d][k]
                    BY <3>2, <4>2 DEF ItemOf
                <5>2. new_item.release_status = Released <=> item.release_status = Released
                    BY <2>2 DEF Released, NotApproved
                <5>. QED  BY <4>1, <4>2, <5>1, <5>2 DEF Paid
            <4>3. CASE k \notin DOMAIN inbox[d]
                <5>1. item.release_status = NotApproved
                    BY <3>2, <4>3 DEF ItemOf
                <5>2. new_item.release_status # Released
                    BY <2>2, <5>1 DEF Released, NotApproved
                <5>. QED  BY <4>1, <4>3, <5>2 DEF Paid
            <4>. QED  BY <4>2, <4>3
        <3>. QED  BY <3>1, <3>2
    <2>. QED  BY <2>1, <2>3
<1>6. ASSUME NEW c \in Chains, NEW t, NEW message,
             receive_message(c, t, message) \/ misattest(c, t, message)
      PROVE  Still
    <2>1. UNCHANGED <<tokenVars, outbox, inbox>>
        BY <1>6 DEF receive_message, misattest, outboxVars
    <2>. QED  BY <1>1, <2>1
<1> HIDE DEF Still
<1>7. ASSUME NEW c \in Chains, Outbound(c)
      PROVE  \/ Still
             \/ \E d \in Chains : \E amount \in Amounts[c], should_queue \in Queueing :
                    \/ transfer_burn(c, d, amount, should_queue)
                    \/ transfer_lock(c, d, amount, should_queue)
    BY <1>4, <1>7 DEF Outbound
<1>8. ASSUME NEW c \in Chains, Inbound(c)
      PROVE  \/ Still
             \/ \E k \in DOMAIN inbox[c] :
                    release_inbound_mint(c, k) \/ release_inbound_unlock(c, k)
    BY <1>5, <1>6, <1>8 DEF Inbound
<1>9. \/ Still
      \/ \E c, d \in Chains : \E amount \in Amounts[c], should_queue \in Queueing :
             \/ transfer_burn(c, d, amount, should_queue)
             \/ transfer_lock(c, d, amount, should_queue)
      \/ \E c \in Chains : \E k \in DOMAIN inbox[c] :
             release_inbound_mint(c, k) \/ release_inbound_unlock(c, k)
    BY <1>2, <1>3, <1>7, <1>8, DeploymentAssumption DEF Next
<1>. QED  BY <1>9 DEF Still


\* Backed is about the three sums.
LEMMA BackedSums == Backed <=> Locked = Circulating + Flying
    BY DEF Backed, Locked, Circulating, Flying

\* At the start nothing is locked, nothing circulates and nothing is on its way.
LEMMA BackedInit == Init => Backed
<1> SUFFICES ASSUME Init PROVE Backed
    OBVIOUS
<1>1. ASSUME NEW S \in SUBSET Chains, NEW f, \A d \in S : f[d] = 0
      PROVE  SumFunction([d \in S |-> InUnits(f[d], Decimals[d])]) = 0
    <2> DEFINE u == [d \in S |-> InUnits(f[d], Decimals[d])]
    <2>1. IsFiniteSet(S)
        BY DeploymentAssumption, FS_Subset
    <2>2. ASSUME NEW d \in S
          PROVE  u[d] = 0
        <3> DEFINE p == pow10[Max({Decimals[c] : c \in Chains}) - Decimals[d]]
        <3>1. p \in Nat
            BY FinestUnit, PowType
        <3>2. u[d] = 0 * p
            BY <1>1 DEF InUnits
        <3> HIDE DEF p, u
        <3>. QED  BY <3>1, <3>2
    <2>3. DOMAIN u = S
        OBVIOUS
    <2> HIDE DEF u
    <2>4. SumFunction(u) = 0
        BY <2>1, <2>2, <2>3, SumZero DEF SumFunction
    <2>. QED  BY <2>4 DEF u
<1>2. Locked = 0
    <2>1. Locking \in SUBSET Chains /\ \A d \in Locking : custody[d] = 0
        BY DeploymentAssumption DEF Init
    <2>. QED  BY <1>1, <2>1 DEF Locked
<1>3. Circulating = 0
    <2>1. Chains \ Locking \in SUBSET Chains /\ \A d \in Chains \ Locking : balance[d] = 0
        BY BridgedAssumption DEF Init
    <2>. QED  BY <1>1, <2>1 DEF Circulating
<1>4. Flying = 0
    <2>1. \A c \in Chains : DOMAIN outbox[c] = {}
        BY DEF Init
    <2>2. InFlight = {}
        BY <2>1 DEF InFlight, Items
    <2> DEFINE f == [x \in InFlight |-> Sent(x)]
    <2>3. DOMAIN f = {}
        BY <2>2
    <2> HIDE DEF f
    <2>4. SumFunction(f) = 0
        BY <2>3, SumEmpty DEF SumFunction
    <2>. QED  BY <2>4 DEF f, Flying
<1>. QED  BY <1>2, <1>3, <1>4, BackedSums

\* A transfer adds the same amount on both sides of the equation or moves it from
\* circulation into flight; a release does the reverse; nothing else touches the sums.
LEMMA BackedStep ==
    ASSUME AccountInv, DecimalsInv, SentInv, Backed, AccountInv', DecimalsInv', [Next]_vars
    PROVE  Backed'
<1>1. /\ balance \in [Chains -> Nat] /\ balance' \in [Chains -> Nat]
      /\ custody \in [Chains -> Nat] /\ custody' \in [Chains -> Nat]
    BY DEF AccountInv, TokenInv
<1>2. Locking \in SUBSET Chains /\ Chains \ Locking \in SUBSET Chains
    BY DeploymentAssumption
<1>3. Locked = Circulating + Flying
    BY BackedSums
<1>4. /\ Locked \in Nat /\ Circulating \in Nat
      /\ Locked' \in Nat /\ Circulating' \in Nat
    BY <1>1, <1>2, UnitsType DEF Locked, Circulating
<1>5. SUFFICES Locked' = Circulating' + Flying'
    BY DEF Backed, Locked, Circulating, Flying
<1>6. UNCHANGED custody => Locked' = Locked
    BY DEF Locked
<1>7. (\A c \in Chains \ Locking : balance'[c] = balance[c]) => Circulating' = Circulating
    <2> SUFFICES ASSUME \A c \in Chains \ Locking : balance'[c] = balance[c]
                 PROVE  Circulating' = Circulating
        OBVIOUS
    <2>1. [c \in Chains \ Locking |-> InUnits(balance'[c], Decimals[c])] =
              [c \in Chains \ Locking |-> InUnits(balance[c], Decimals[c])]
        OBVIOUS
    <2>. QED  BY <2>1 DEF Circulating
<1> DEFINE Purse(f) == SumFunction([d \in Chains \ Locking |-> InUnits(f[d], Decimals[d])])
           Vault(f) == SumFunction([d \in Locking |-> InUnits(f[d], Decimals[d])])
<1>8. ASSUME NEW f \in [Chains -> Nat], NEW g \in [Chains -> Nat], NEW c \in Chains \ Locking,
             NEW a \in Nat, g[c] = f[c] + a, \A d \in Chains \ {c} : g[d] = f[d]
      PROVE  Purse(g) = Purse(f) + InUnits(a, Decimals[c])
    BY <1>2, <1>8, UnitsChange
<1>9. ASSUME NEW f \in [Chains -> Nat], NEW g \in [Chains -> Nat], NEW c \in Locking,
             NEW a \in Nat, g[c] = f[c] + a, \A d \in Chains \ {c} : g[d] = f[d]
      PROVE  Vault(g) = Vault(f) + InUnits(a, Decimals[c])
    BY <1>2, <1>9, UnitsChange
<1>10. Locked = Vault(custody) /\ Locked' = Vault(custody')
    BY DEF Locked
<1>11. Circulating = Purse(balance) /\ Circulating' = Purse(balance')
    BY DEF Circulating
<1> HIDE DEF Purse, Vault
<1>12. ASSUME NEW c \in Chains, NEW a \in Nat
       PROVE  InUnits(a, Decimals[c]) \in Nat
    <2>1. Decimals[c] \in Nat /\ Decimals[c] <= Decimals[c]
        BY DeploymentAssumption
    <2>. QED  BY <2>1, UnitsAdd
<1>13. ASSUME NEW c \in Chains, NEW d \in Chains, NEW amount \in Amounts[c], NEW should_queue,
              Transfer(c, d, amount, should_queue)
       PROVE  LET kept == WithoutDust(amount, Decimals[c], peers[c][d].token_decimals)
              IN  /\ kept \in Nat
                  /\ Flying' = Flying + InUnits(kept, Decimals[c])
                  /\ Flying \in Nat
                  /\ balance[c] = balance'[c] + kept
                  /\ \A e \in Chains \ {c} : balance'[e] = balance[e]
    <2> DEFINE kept == WithoutDust(amount, Decimals[c], peers[c][d].token_decimals)
    <2>1. PICK n : n = Len(outbox[c]) + 1
        OBVIOUS
    <2>2. /\ <<c, n>> \notin InFlight
          /\ InFlight' = InFlight \cup {<<c, n>>}
          /\ \A y \in InFlight : Sent(y)' = Sent(y)
          /\ kept \in Nat
          /\ Sent(<<c, n>>)' = InUnits(kept, Decimals[c])
        BY <1>13, <2>1, TransferFlight
    <2>3. Flying' = Flying + Sent(<<c, n>>)' /\ Flying \in Nat
        BY <2>2, FlyingGrows DEF AccountInv
    <2>4. balance' = [balance EXCEPT ![c] = @ - kept]
        BY <1>13 DEF Transfer
    <2> HIDE DEF kept
    <2>5. /\ balance[c] = balance'[c] + kept
          /\ \A e \in Chains \ {c} : balance'[e] = balance[e]
        BY <1>1, <2>2, <2>4
    <2>. QED  BY <2>2, <2>3, <2>5 DEF kept
<1>14. ASSUME NEW c \in Chains, NEW k \in DOMAIN inbox[c], release_inbox_item(c, k)
       PROVE  /\ inbox[c][k].amount \in Nat
              /\ Flying = Flying' + InUnits(inbox[c][k].amount, Decimals[c])
              /\ Flying' \in Nat
              /\ balance'[c] = balance[c] + inbox[c][k].amount
              /\ \A e \in Chains \ {c} : balance'[e] = balance[e]
    <2> DEFINE x == <<k.from_chain, k.id>>
    <2>1. /\ x \notin InFlight'
          /\ InFlight = InFlight' \cup {x}
          /\ \A y \in InFlight : Sent(y)' = Sent(y)
          /\ inbox[c][k].amount \in Nat
          /\ Sent(x) = InUnits(inbox[c][k].amount, Decimals[c])
        BY <1>14, ReleaseFlight
    <2> HIDE DEF x
    <2>2. Flying = Flying' + Sent(x) /\ Flying' \in Nat
        BY <2>1, FlyingShrinks DEF AccountInv
    <2>3. balance' = [balance EXCEPT ![c] = @ + inbox[c][k].amount]
        BY <1>14 DEF release_inbox_item
    <2>. QED  BY <1>1, <2>1, <2>2, <2>3
<1>15. ASSUME UNCHANGED tokenVars,
              \A c \in Chains : DOMAIN outbox'[c] = DOMAIN outbox[c],
              \A c \in Chains : \A k :
                  k \in DOMAIN inbox'[c] /\ inbox'[c][k].release_status = Released
                      <=> Paid(c, k)
       PROVE  Locked' = Circulating' + Flying'
    <2>1. Flying' = Flying
        BY <1>15, SteadyFlight
    <2>2. Locked' = Locked /\ Circulating' = Circulating
        BY <1>6, <1>7, <1>15 DEF tokenVars
    <2>. QED  BY <1>3, <2>1, <2>2
<1>16. ASSUME NEW c \in Chains, NEW d \in Chains, NEW amount \in Amounts[c], NEW should_queue,
              transfer_burn(c, d, amount, should_queue)
       PROVE  Locked' = Circulating' + Flying'
    <2> DEFINE kept == WithoutDust(amount, Decimals[c], peers[c][d].token_decimals)
    <2>1. Transfer(c, d, amount, should_queue) /\ UNCHANGED custody /\ c \in Chains \ Locking
        BY <1>16 DEF transfer_burn
    <2>2. /\ kept \in Nat
          /\ Flying' = Flying + InUnits(kept, Decimals[c])
          /\ Flying \in Nat
          /\ balance[c] = balance'[c] + kept
          /\ \A e \in Chains \ {c} : balance'[e] = balance[e]
        BY <1>13, <2>1
    <2> HIDE DEF kept
    <2>3. Circulating = Circulating' + InUnits(kept, Decimals[c])
        BY <1>1, <1>8, <1>11, <2>1, <2>2
    <2>4. InUnits(kept, Decimals[c]) \in Nat
        BY <1>12, <2>2
    <2>. QED  BY <1>3, <1>4, <1>6, <2>1, <2>2, <2>3, <2>4
<1>17. ASSUME NEW c \in Chains, NEW d \in Chains, NEW amount \in Amounts[c], NEW should_queue,
              transfer_lock(c, d, amount, should_queue)
       PROVE  Locked' = Circulating' + Flying'
    <2> DEFINE kept == WithoutDust(amount, Decimals[c], peers[c][d].token_decimals)
    <2>1. /\ Transfer(c, d, amount, should_queue) /\ c \in Locking
          /\ custody' = [custody EXCEPT ![c] = @ + kept]
        BY <1>17 DEF transfer_lock
    <2>2. /\ kept \in Nat
          /\ Flying' = Flying + InUnits(kept, Decimals[c])
          /\ Flying \in Nat
          /\ \A e \in Chains \ {c} : balance'[e] = balance[e]
        BY <1>13, <2>1
    <2> HIDE DEF kept
    <2>3. custody'[c] = custody[c] + kept /\ \A e \in Chains \ {c} : custody'[e] = custody[e]
        BY <1>1, <2>1
    <2>4. Locked' = Locked + InUnits(kept, Decimals[c])
        <3>1. c \in Locking
            BY <2>1
        <3>2. Vault(custody') = Vault(custody) + InUnits(kept, Decimals[c])
            BY <1>1, <1>9, <2>2, <2>3, <3>1
        <3>. QED  BY <1>10, <3>2
    <2>5. Circulating' = Circulating
        BY <1>7, <2>1, <2>2
    <2>6. InUnits(kept, Decimals[c]) \in Nat
        BY <1>12, <2>2
    <2>. QED  BY <1>3, <1>4, <2>2, <2>4, <2>5, <2>6
<1>18. ASSUME NEW c \in Chains, NEW k \in DOMAIN inbox[c], release_inbound_mint(c, k)
       PROVE  Locked' = Circulating' + Flying'
    <2> DEFINE amount == inbox[c][k].amount
    <2>1. release_inbox_item(c, k) /\ UNCHANGED custody /\ c \in Chains \ Locking
        BY <1>18 DEF release_inbound_mint
    <2>2. /\ amount \in Nat
          /\ Flying = Flying' + InUnits(amount, Decimals[c])
          /\ Flying' \in Nat
          /\ balance'[c] = balance[c] + amount
          /\ \A e \in Chains \ {c} : balance'[e] = balance[e]
        BY <1>14, <2>1
    <2> HIDE DEF amount
    <2>3. Circulating' = Circulating + InUnits(amount, Decimals[c])
        BY <1>1, <1>8, <1>11, <2>1, <2>2
    <2>4. InUnits(amount, Decimals[c]) \in Nat
        BY <1>12, <2>2
    <2>. QED  BY <1>3, <1>4, <1>6, <2>1, <2>2, <2>3, <2>4
<1>19. ASSUME NEW c \in Chains, NEW k \in DOMAIN inbox[c], release_inbound_unlock(c, k)
       PROVE  Locked' = Circulating' + Flying'
    <2> DEFINE amount == inbox[c][k].amount
    <2>1. /\ release_inbox_item(c, k) /\ c \in Locking
          /\ custody' = [custody EXCEPT ![c] = @ - amount]
        BY <1>19 DEF release_inbound_unlock
    <2>2. /\ amount \in Nat
          /\ Flying = Flying' + InUnits(amount, Decimals[c])
          /\ Flying' \in Nat
          /\ \A e \in Chains \ {c} : balance'[e] = balance[e]
        BY <1>14, <2>1
    <2> HIDE DEF amount
    <2>3. custody[c] = custody'[c] + amount /\ \A e \in Chains \ {c} : custody'[e] = custody[e]
        BY <1>1, <2>1, <2>2
    <2>4. Locked = Locked' + InUnits(amount, Decimals[c])
        <3>1. c \in Locking
            BY <2>1
        <3>2. Vault(custody) = Vault(custody') + InUnits(amount, Decimals[c])
            BY <1>1, <1>9, <2>2, <2>3, <3>1
        <3>. QED  BY <1>10, <3>2
    <2>5. Circulating' = Circulating
        BY <1>7, <2>1, <2>2
    <2>6. InUnits(amount, Decimals[c]) \in Nat
        BY <1>12, <2>2
    <2>7. Locked' = Locked - InUnits(amount, Decimals[c])
        BY <1>4, <2>4, <2>6
    <2>8. Flying' = Flying - InUnits(amount, Decimals[c]) /\ Flying \in Nat
        BY <2>2, <2>6
    <2>. QED  BY <1>3, <1>4, <2>5, <2>6, <2>7, <2>8
<1>. QED  BY <1>15, <1>16, <1>17, <1>18, <1>19, Quiet

\* If no transceiver attests to what was not sent and the owners register the decimals
\* their peers really have, then in every behaviour the custody accounts hold exactly what
\* circulates on the chains that mint plus what is on its way: transfer_lock and
\* transfer_burn take what the message carries, dust excluded, release_inbound_mint and
\* release_inbound_unlock pay every message out at most once and in full.
THEOREM LockedBacksTheRest == ASSUME Honest PROVE Spec => []Backed
<1>1. Init => DecimalsInv /\ SentInv /\ Backed
    BY DecimalsInit, SentInit, BackedInit
<1>2. AccountInv /\ DecimalsInv /\ SentInv /\ Backed /\ [Next]_vars
          => DecimalsInv' /\ SentInv' /\ Backed'
    BY AccountsStep, DecimalsStep, SentStep, BackedStep
<1>. QED  BY <1>1, <1>2, AccountsAlways, PTL DEF Spec

-----------------------------------------------------------------------------
(* The refinement of TokenTransfers                                        *)

\* The transfer that an item stands for does not change.
LEMMA TicketSteady ==
    ASSUME AccountInv, DecimalsInv, AccountInv', DecimalsInv', [Next]_vars, NEW x \in Items
    PROVE  Ticket(x)' = Ticket(x)
<1>1. x[1] \in Chains /\ x[2] \in DOMAIN outbox[x[1]]
    BY DEF Items
<1>2. outbox'[x[1]][x[2]].recipient_chain = outbox[x[1]][x[2]].recipient_chain
    BY <1>1, ItemsKept DEF AccountInv, Kept
<1>3. Sent(x)' = Sent(x)
    BY ItemSteady DEF AccountInv
<1>. QED  BY <1>2, <1>3 DEF Ticket

\* Amounts of the chains, in common units.
Valued(f) == [d \in Chains |-> InUnits(f[d], Decimals[d])]

\* What users hold is counted in naturals, and adds up as their balances do.
LEMMA HoldingsAdd ==
    ASSUME NEW f \in [Chains -> Nat], NEW g \in [Chains -> Nat], NEW c \in Chains, NEW a \in Nat,
           g[c] = f[c] + a, \A d \in Chains \ {c} : g[d] = f[d]
    PROVE  /\ InUnits(a, Decimals[c]) \in Nat /\ Valued(g)[c] \in Nat
           /\ InUnits(a, Decimals[c]) <= Valued(g)[c]
           /\ Valued(g) = [Valued(f) EXCEPT ![c] = @ + InUnits(a, Decimals[c])]
           /\ Valued(f) = [Valued(g) EXCEPT ![c] = @ - InUnits(a, Decimals[c])]
<1> DEFINE F == Valued(f)
           G == Valued(g)
           u == InUnits(a, Decimals[c])
<1>1. Decimals[c] \in Nat /\ Decimals[c] <= Decimals[c]
    BY DeploymentAssumption
<1>2. u \in Nat /\ F[c] \in Nat /\ G[c] \in Nat /\ G[c] = F[c] + u
    <2>1. F[c] = InUnits(f[c], Decimals[c]) /\ G[c] = InUnits(g[c], Decimals[c])
        BY DEF Valued
    <2>2. f[c] \in Nat /\ g[c] \in Nat /\ g[c] = f[c] + a
        OBVIOUS
    <2>3. /\ \A m \in Nat : InUnits(m, Decimals[c]) \in Nat
          /\ \A l, m, s \in Nat : s = l + m =>
                InUnits(s, Decimals[c]) = InUnits(l, Decimals[c]) + InUnits(m, Decimals[c])
        BY <1>1, UnitsAdd
    <2> HIDE DEF F, G
    <2>. QED  BY <2>1, <2>2, <2>3
<1>3. /\ F = [d \in Chains |-> F[d]] /\ G = [d \in Chains |-> G[d]]
      /\ \A d \in Chains \ {c} : G[d] = F[d]
    BY DEF Valued
<1> HIDE DEF F, G, u
<1>4. F[c] = G[c] - u /\ u <= G[c]
    BY <1>2
<1>5. G = [F EXCEPT ![c] = @ + u] /\ F = [G EXCEPT ![c] = @ - u]
    BY <1>2, <1>3, <1>4
<1>. QED  BY <1>2, <1>4, <1>5 DEF F, G, u

\* A transfer instruction sends a transfer.
LEMMA SendRefines ==
    ASSUME AccountInv, DecimalsInv, SentInv, AccountInv', DecimalsInv', [Next]_vars,
           NEW c \in Chains, NEW d \in Chains, NEW amount \in Amounts[c],
           NEW should_queue, Transfer(c, d, amount, should_queue)
    PROVE  Transfers!Next
<1>0. PICK n : n = Len(outbox[c]) + 1
    OBVIOUS
<1> DEFINE x == <<c, n>>
           kept == WithoutDust(amount, Decimals[c], peers[c][d].token_decimals)
           u == InUnits(kept, Decimals[c])
           ticket == [id |-> x, to |-> d, amount |-> u]
<1>1. /\ x \notin Items /\ Items' = Items \cup {x}
      /\ outbox'[c][n].recipient_chain = d
      /\ InFlight' = InFlight \cup {x}
      /\ kept \in Nat
      /\ Sent(x)' = u
    BY <1>0, TransferFlight
<1>2. d \in Chains \ {c}
    <2>1. d \in DOMAIN peers[c]
        BY DEF Transfer
    <2>. QED  BY <2>1 DEF AccountInv, LimitInv
<1>3. x \in Chains \X (1..MaxTransfers)
    BY <1>1 DEF Items
<1>4. Ticket(x)' = ticket
    BY <1>1 DEF Ticket
<1>5. Pending' = Pending \cup {ticket}
    <2>1. Pending' = {Ticket(y)' : y \in InFlight \cup {x}}
        BY <1>1 DEF Pending
    <2>2. \A y \in InFlight : Ticket(y)' = Ticket(y)
        BY TicketSteady DEF InFlight
    <2> HIDE DEF x, ticket
    <2>. QED  BY <1>4, <2>1, <2>2 DEF Pending
<1>6. /\ balance \in [Chains -> Nat] /\ balance' \in [Chains -> Nat]
      /\ balance' = [balance EXCEPT ![c] = @ - kept]
    BY DEF AccountInv, TokenInv, Transfer
<1> HIDE DEF kept
<1>7. balance[c] = balance'[c] + kept /\ \A e \in Chains \ {c} : balance[e] = balance'[e]
    BY <1>1, <1>6
<1>8. /\ u \in Nat /\ Holdings[c] \in Nat /\ u <= Holdings[c]
      /\ Holdings' = [Holdings EXCEPT ![c] = @ - u]
    <2>1. /\ u \in Nat /\ Valued(balance)[c] \in Nat /\ u <= Valued(balance)[c]
          /\ Valued(balance') = [Valued(balance) EXCEPT ![c] = @ - u]
        <3>1. kept \in Nat /\ balance \in [Chains -> Nat] /\ balance' \in [Chains -> Nat]
            BY <1>1, <1>6
        <3>2. u = InUnits(kept, Decimals[c])
            OBVIOUS
        <3> HIDE DEF u
        <3>. QED  BY <1>7, <3>1, <3>2, HoldingsAdd
    <2>2. Holdings = Valued(balance) /\ Holdings' = Valued(balance')
        BY DEF Holdings, Valued
    <2>. QED  BY <2>1, <2>2
<1>9. u \in 0 .. Holdings[c]
    BY <1>8
<1>10. ticket.id = x /\ ticket.amount = u
    OBVIOUS
<1>11. Transfers!Send(c, ticket)
    <2> HIDE DEF ticket, x, u
    <2>. QED  BY <1>1, <1>5, <1>8, <1>10 DEF Transfers!Send
<1>. QED  BY <1>2, <1>3, <1>9, <1>11 DEF Transfers!Next

\* A release pays a pending transfer out.
LEMMA PayRefines ==
    ASSUME AccountInv, DecimalsInv, SentInv, AccountInv', DecimalsInv', [Next]_vars,
           NEW c \in Chains, NEW k \in DOMAIN inbox[c], release_inbox_item(c, k)
    PROVE  Transfers!Next
<1> DEFINE x == <<k.from_chain, k.id>>
           a == inbox[c][k].amount
           u == InUnits(a, Decimals[c])
           ticket == Ticket(x)
<1>1. /\ Items' = Items
      /\ outbox[x[1]][x[2]].recipient_chain = c
      /\ x \notin InFlight'
      /\ InFlight = InFlight' \cup {x}
      /\ a \in Nat
      /\ Sent(x) = u
    BY ReleaseFlight
<1>2. ticket.to = c /\ ticket.amount = u
    BY <1>1 DEF Ticket
<1>3. \A y : Ticket(y).id = y
    BY DEF Ticket
<1>4. ticket \in Pending
    BY <1>1 DEF Pending
<1>5. Pending' = Pending \ {ticket}
    <2>1. Pending' = {Ticket(y)' : y \in InFlight'}
        BY DEF Pending
    <2>2. \A y \in InFlight' : Ticket(y)' = Ticket(y)
        BY <1>1, TicketSteady DEF InFlight
    <2>3. Pending = {Ticket(y) : y \in InFlight}
        BY DEF Pending
    <2> DEFINE S == InFlight'
    <2>4. Pending' = {Ticket(y) : y \in S}
        BY <2>1, <2>2
    <2>5. x \notin S /\ InFlight = S \cup {x}
        BY <1>1
    <2> HIDE DEF S, x
    <2>. QED  BY <1>3, <2>3, <2>4, <2>5
<1>6. /\ balance \in [Chains -> Nat] /\ balance' \in [Chains -> Nat]
      /\ balance' = [balance EXCEPT ![c] = @ + a]
    BY DEF AccountInv, TokenInv, release_inbox_item
<1>7. balance'[c] = balance[c] + a /\ \A e \in Chains \ {c} : balance'[e] = balance[e]
    BY <1>6
<1>8. Holdings' = [Holdings EXCEPT ![c] = @ + u]
    <2>1. Valued(balance') = [Valued(balance) EXCEPT ![c] = @ + u]
        <3>1. a \in Nat /\ balance \in [Chains -> Nat] /\ balance' \in [Chains -> Nat]
            BY <1>1, <1>6
        <3>2. u = InUnits(a, Decimals[c])
            OBVIOUS
        <3> HIDE DEF a, u
        <3>. QED  BY <1>7, <3>1, <3>2, HoldingsAdd
    <2>2. Holdings = Valued(balance) /\ Holdings' = Valued(balance')
        BY DEF Holdings, Valued
    <2>. QED  BY <2>1, <2>2
<1>9. Transfers!Pay(ticket)
    <2> HIDE DEF ticket, x, u
    <2>. QED  BY <1>1, <1>2, <1>5, <1>8 DEF Transfers!Pay
<1>. QED  BY <1>4, <1>9 DEF Transfers!Next

\* The managers of all chains together implement TokenTransfers, if no transceiver attests
\* to what was not sent and the owners register true decimals: every transfer is paid
\* out at most once, where it was sent to and with the value that was taken, and users get
\* tokens in no other way (transfer_lock, transfer_burn, redeem, release_inbound_mint,
\* release_inbound_unlock; all other instructions are stuttering).
THEOREM BridgeImplementsTransfers == ASSUME Honest PROVE Spec => ImplementsTransfers
<1>1. Init => DecimalsInv /\ SentInv
    BY DecimalsInit, SentInit
<1>2. AccountInv /\ DecimalsInv /\ SentInv /\ [Next]_vars => DecimalsInv' /\ SentInv'
    BY DecimalsStep, SentStep
<1>3. Init => Transfers!Init
    <2> SUFFICES ASSUME Init PROVE Transfers!Init
        OBVIOUS
    <2>1. Items = {}
        BY DEF Init, Items
    <2>2. Pending = {}
        BY <2>1 DEF Pending, InFlight
    <2>3. \A c \in Chains : InUnits(balance[c], Decimals[c]) \in Nat
        <3>1. ASSUME NEW c \in Chains
              PROVE  InUnits(balance[c], Decimals[c]) \in Nat
            <4>1. /\ Decimals[c] \in Nat /\ Decimals[c] <= Decimals[c]
                  /\ balance[c] \in Nat
                BY DeploymentAssumption DEF Init
            <4>. QED  BY <4>1, UnitsAdd
        <3>. QED  BY <3>1
    <2>. QED  BY <2>1, <2>2, <2>3 DEF Transfers!Init, Holdings
<1>4. AccountInv /\ DecimalsInv /\ SentInv /\ AccountInv' /\ DecimalsInv' /\ [Next]_vars
          => [Transfers!Next]_(Transfers!vars)
    <2> SUFFICES ASSUME AccountInv, DecimalsInv, SentInv, AccountInv', DecimalsInv', [Next]_vars
                 PROVE  Transfers!Next \/ UNCHANGED <<Holdings, Pending, Items>>
        BY DEF Transfers!vars
    <2>1. ASSUME UNCHANGED tokenVars,
                 \A c \in Chains : DOMAIN outbox'[c] = DOMAIN outbox[c],
                 \A c \in Chains : \A k :
                     k \in DOMAIN inbox'[c] /\ inbox'[c][k].release_status = Released
                         <=> Paid(c, k)
          PROVE  UNCHANGED <<Holdings, Pending, Items>>
        <3>1. InFlight' = InFlight /\ Items' = Items
            BY <2>1, SteadyFlight
        <3>2. \A y \in InFlight : Ticket(y)' = Ticket(y)
            BY TicketSteady DEF InFlight
        <3>3. Pending' = Pending
            BY <3>1, <3>2 DEF Pending
        <3>4. Holdings' = Holdings
            BY <2>1 DEF Holdings, tokenVars
        <3>. QED  BY <3>1, <3>3, <3>4
    <2>2. ASSUME NEW c \in Chains, NEW d \in Chains, NEW amount \in Amounts[c], NEW should_queue,
                 \/ transfer_burn(c, d, amount, should_queue)
                 \/ transfer_lock(c, d, amount, should_queue)
          PROVE  Transfers!Next
        <3>1. Transfer(c, d, amount, should_queue)
            BY <2>2 DEF transfer_burn, transfer_lock
        <3>. QED  BY <3>1, SendRefines
    <2>3. ASSUME NEW c \in Chains, NEW k \in DOMAIN inbox[c],
                 release_inbound_mint(c, k) \/ release_inbound_unlock(c, k)
          PROVE  Transfers!Next
        <3>1. release_inbox_item(c, k)
            BY <2>3 DEF release_inbound_mint, release_inbound_unlock
        <3>. QED  BY <3>1, PayRefines
    <2>. QED  BY <2>1, <2>2, <2>3, Quiet
<1>. QED  BY <1>1, <1>2, <1>3, <1>4, AccountsAlways, PTL
          DEF Spec, ImplementsTransfers, Transfers!Spec

=============================================================================
