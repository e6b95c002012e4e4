---------------------------- MODULE LedgerLemmas ----------------------------
(***************************************************************************)
(* What the operators of the ledger and of the books return, for all       *)
(* arguments: sums over a finite set (SumFunctionOnSet), and entries       *)
(* posted one after the other (PostAll).  Both are folds, recursions on    *)
(* the subsets of a finite set; an induction here is a smallest            *)
(* counterexample, which the well-foundedness of < gives.                  *)
(***************************************************************************)
EXTENDS Ledger, FiniteSets, FiniteSetTheorems, WellFoundedInduction, TLAPS

-----------------------------------------------------------------------------
(***************************************************************************)
(* Arithmetic.                                                             *)
(***************************************************************************)
\* A quotient of naturals is one.
LEMMA DivNat == \A a \in Nat, b \in Nat \ {0} : a \div b \in Nat
  OBVIOUS

\* Rounding down keeps the order.
LEMMA DivMono == \A a, c \in Int, b \in Nat \ {0} : a <= c => a \div b <= c \div b
  OBVIOUS

\* A product of naturals is one.
LEMMA MulNat == \A a, b \in Nat : a * b \in Nat
  OBVIOUS

\* More, taken as often, is no less.
LEMMA MulMono == \A a, b, c \in Nat : b <= c => a * b <= a * c
  OBVIOUS

-----------------------------------------------------------------------------
(***************************************************************************)
(* Induction, by a smallest counterexample.                                *)
(***************************************************************************)
Less == {p \in Nat \X Nat : p[1] < p[2]}

\* Every set of naturals that has an element has a least one.
LEMMA LeastNatural ==
    ASSUME NEW T \in SUBSET Nat, T # {}
    PROVE  \E x \in T : \A y \in T : x <= y
<1>1. IsWellFoundedOn(Less, Nat)
  BY NatLessThanWellFounded, Zenon DEF OpToRel, Less
<1>2. \E x \in T : \A y \in T : ~ (<<y, x>> \in Less)
  BY <1>1, WFMin
<1>3. \A x, y \in T : ~ (<<y, x>> \in Less) => x <= y
  BY DEF Less
<1> QED BY <1>2, <1>3

\* Of some subsets of a finite set, one loses its membership with any of its elements.
LEMMA SmallestSubset ==
    ASSUME NEW S, IsFiniteSet(S), NEW T \in SUBSET SUBSET S, T # {}
    PROVE  \E s \in T : \A x \in s : s \ {x} \notin T
<1> DEFINE Sizes == {Cardinality(t) : t \in T}
<1>1. \A t \in T : IsFiniteSet(t) /\ Cardinality(t) \in Nat
  BY FS_Subset, FS_CardinalityType
<1>2. Sizes \in SUBSET Nat /\ Sizes # {}
  BY <1>1
<1>3. PICK n \in Sizes : \A m \in Sizes : n <= m
  BY <1>2, LeastNatural
<1>4. PICK s \in T : Cardinality(s) = n
  BY <1>3
<1>5. ASSUME NEW x \in s, s \ {x} \in T
      PROVE  FALSE
  <2>1. Cardinality(s \ {x}) = Cardinality(s) - 1
    BY <1>1, FS_RemoveElement
  <2>2. n <= Cardinality(s \ {x})
    BY <1>3, <1>5
  <2> QED BY <1>1, <1>4, <2>1, <2>2
<1> QED BY <1>5

-----------------------------------------------------------------------------
(***************************************************************************)
(* Recursion over the subsets of a finite set, an element c[s] at a time.  *)
(***************************************************************************)
Result(base, H, c, g, s) == IF s = {} THEN base ELSE H[<<c[s], g[s \ {c[s]}]>>]

Recursive(base, H, c, g, D) == g = [s \in D |-> Result(base, H, c, g, s)]

UpTo(n, S) == {s \in SUBSET S : Cardinality(s) <= n}

\* What is defined by recursion on the sets of up to n elements exists.
LEMMA RecursionUpTo ==
    ASSUME NEW S, IsFiniteSet(S), NEW base, NEW H, NEW c,
           \A s \in SUBSET S : s # {} => c[s] \in s
    PROVE  \A n \in Nat : \E g : Recursive(base, H, c, g, UpTo(n, S))
<1> DEFINE Missed == {n \in Nat : ~ \E g : Recursive(base, H, c, g, UpTo(n, S))}
<1> SUFFICES ASSUME Missed # {} PROVE FALSE
  OBVIOUS
<1>1. PICK n \in Missed : \A m \in Missed : n <= m
  BY LeastNatural
<1>2. \A s \in SUBSET S : IsFiniteSet(s) /\ Cardinality(s) \in Nat
  BY FS_Subset, FS_CardinalityType
<1>3. ASSUME NEW s \in UpTo(n, S), s # {}
      PROVE  n > 0 /\ s \ {c[s]} \in UpTo(n - 1, S)
  <2>1. s \in SUBSET S /\ c[s] \in s /\ Cardinality(s) # 0 /\ Cardinality(s) <= n
    BY <1>2, <1>3, FS_EmptySet DEF UpTo
  <2>2. Cardinality(s \ {c[s]}) = Cardinality(s) - 1
    BY <1>2, <2>1, FS_RemoveElement
  <2> QED BY <1>2, <2>1, <2>2 DEF UpTo
<1>4. CASE n = 0
  <2> DEFINE g == [s \in UpTo(n, S) |-> base]
  <2>1. \A s \in UpTo(n, S) : s = {}
    BY <1>3, <1>4
  <2>2. \A s \in UpTo(n, S) : Result(base, H, c, g, s) = base
    BY <2>1 DEF Result
  <2>3. Recursive(base, H, c, g, UpTo(n, S))
    BY <2>2 DEF Recursive
  <2> QED BY <1>1, <2>3
<1>5. CASE n # 0
  <2>1. n - 1 \in Nat /\ n - 1 \notin Missed
    BY <1>1, <1>5
  <2>2. PICK h : Recursive(base, H, c, h, UpTo(n - 1, S))
    BY <2>1
  <2> DEFINE g == [s \in UpTo(n, S) |-> Result(base, H, c, h, s)]
  <2>3. UpTo(n - 1, S) \subseteq UpTo(n, S)
    BY <1>2, <2>1 DEF UpTo
  <2>4. \A t \in UpTo(n - 1, S) : g[t] = h[t]
    BY <2>2, <2>3 DEF Recursive
  <2>5. ASSUME NEW s \in UpTo(n, S) PROVE Result(base, H, c, g, s) = Result(base, H, c, h, s)
    <3>1. s # {} => g[s \ {c[s]}] = h[s \ {c[s]}]
      BY <1>3, <2>4
    <3> HIDE DEF g
    <3> QED BY <3>1 DEF Result
  <2>6. Recursive(base, H, c, g, UpTo(n, S))
    BY <2>5 DEF Recursive
  <2> QED BY <1>1, <2>6
<1> QED BY <1>4, <1>5

\* ... and so it does on all the subsets.
LEMMA RecursionExists ==
    ASSUME NEW S, IsFiniteSet(S), NEW base, NEW H, NEW c,
           \A s \in SUBSET S : s # {} => c[s] \in s
    PROVE  \E g : Recursive(base, H, c, g, SUBSET S)
<1>1. Cardinality(S) \in Nat
  BY FS_CardinalityType
<1>2. UpTo(Cardinality(S), S) = SUBSET S
  BY FS_Subset DEF UpTo
<1>3. \A n \in Nat : \E g : Recursive(base, H, c, g, UpTo(n, S))
  BY RecursionUpTo
<1>4. PICK g : Recursive(base, H, c, g, UpTo(Cardinality(S), S))
  BY <1>1, <1>3
<1> QED BY <1>2, <1>4

-----------------------------------------------------------------------------
(***************************************************************************)
(* Sums over a finite set.                                                 *)
(***************************************************************************)
Chosen(s) == CHOOSE x \in s : TRUE

Part(f, g, s) == IF s = {} THEN 0 ELSE f[Chosen(s)] + g[s \ {Chosen(s)}]

Parts(f, S) == CHOOSE g : g = [s \in SUBSET S |-> Part(f, g, s)]

Summands(f, S) == IsFiniteSet(S) /\ \A x \in S : f[x] \in Int

\* The sum is the last of the sums over parts.
LEMMA SumIsAPart ==
    ASSUME NEW f, NEW S
    PROVE  SumFunctionOnSet(f, S) = Parts(f, S)[S]
  BY DEF SumFunctionOnSet, FoldFunctionOnSet, MapThenFoldSet, Parts, Part, Chosen

\* The sums of the subsets are integers, and each is made from a smaller one.
LEMMA PartsDefined ==
    ASSUME NEW f, NEW S, Summands(f, S)
    PROVE  /\ Parts(f, S) \in [SUBSET S -> Int]
           /\ \A s \in SUBSET S : Parts(f, S)[s] = Part(f, Parts(f, S), s)
<1> DEFINE c == [s \in SUBSET S |-> Chosen(s)]
           H == [p \in S \X Int |-> f[p[1]] + p[2]]
<1>1. \A s \in SUBSET S : s # {} => Chosen(s) \in s /\ c[s] = Chosen(s)
  BY DEF Chosen
<1>2. \A x \in S, n \in Int : H[<<x, n>>] = f[x] + n /\ f[x] \in Int
  BY DEF Summands
<1> HIDE DEF H, c
<1>3. PICK g : Recursive(0, H, c, g, SUBSET S)
  BY <1>1, RecursionExists DEF Summands
<1>4. \A s \in SUBSET S : g[s] = Result(0, H, c, g, s)
  BY <1>3 DEF Recursive
<1>5. \A s \in SUBSET S : g[s] \in Int
  <2> DEFINE T == {s \in SUBSET S : g[s] \notin Int}
  <2> SUFFICES ASSUME T # {} PROVE FALSE
    OBVIOUS
  <2>1. PICK s \in T : \A x \in s : s \ {x} \notin T
    BY SmallestSubset DEF Summands
  <2>0. s \in SUBSET S /\ g[s] \notin Int
    OBVIOUS
  <2>2. s # {}
    <3>1. g[{}] = 0
      BY <1>4 DEF Result
    <3>2. g[{}] \in Int
      BY <3>1
    <3> QED BY <2>0, <3>2
  <2>3. Chosen(s) \in s /\ c[s] = Chosen(s)
    BY <1>1, <2>0, <2>2
  <2>4. g[s \ {Chosen(s)}] \in Int
    BY <2>0, <2>1, <2>3
  <2>5. g[s] = f[Chosen(s)] + g[s \ {Chosen(s)}]
    BY <1>2, <1>4, <2>0, <2>2, <2>3, <2>4 DEF Result
  <2>6. f[Chosen(s)] \in Int
    BY <2>0, <2>3 DEF Summands
  <2>7. f[Chosen(s)] + g[s \ {Chosen(s)}] \in Int
    BY <2>4, <2>6
  <2>8. g[s] \in Int
    BY <2>5, <2>7
  <2> QED BY <2>0, <2>8
<1>6. ASSUME NEW s \in SUBSET S PROVE g[s] = Part(f, g, s)
  <2>1. CASE s = {}
    BY <1>4, <2>1 DEF Result, Part
  <2>2. CASE s # {}
    <3>1. Chosen(s) \in s /\ c[s] = Chosen(s) /\ g[s \ {Chosen(s)}] \in Int
      BY <1>1, <1>5, <2>2
    <3> QED BY <1>2, <1>4, <2>2, <3>1 DEF Result, Part
  <2> QED BY <2>1, <2>2
<1>7. g = [s \in SUBSET S |-> g[s]]
  BY <1>3 DEF Recursive
<1>8. g = [s \in SUBSET S |-> Part(f, g, s)]
  BY <1>6, <1>7
<1>9. Parts(f, S) = [s \in SUBSET S |-> Part(f, Parts(f, S), s)]
  BY <1>8 DEF Parts
<1>10. \A s \in SUBSET S : Parts(f, S)[s] = Part(f, Parts(f, S), s)
  BY <1>9
<1>11. \A s \in SUBSET S : Parts(f, S)[s] = g[s]
  <2> DEFINE T == {s \in SUBSET S : Parts(f, S)[s] # g[s]}
  <2> SUFFICES ASSUME T # {} PROVE FALSE
    OBVIOUS
  <2>1. PICK s \in T : \A x \in s : s \ {x} \notin T
    BY SmallestSubset DEF Summands
  <2>2. s \in SUBSET S /\ (s # {} => Chosen(s) \in s)
    BY <1>1
  <2>3. s # {} => Parts(f, S)[s \ {Chosen(s)}] = g[s \ {Chosen(s)}]
    BY <2>1, <2>2
  <2> QED BY <1>6, <1>10, <2>1, <2>2, <2>3 DEF Part
<1> QED BY <1>5, <1>9, <1>10, <1>11

\* Each of them is its chosen summand and the sum over the rest.
LEMMA PartsUnfold ==
    \A f, S : Summands(f, S) => \A t \in SUBSET S : Parts(f, S)[t] = Part(f, Parts(f, S), t)
<1> SUFFICES ASSUME NEW f, NEW S, Summands(f, S)
             PROVE  \A t \in SUBSET S : Parts(f, S)[t] = Part(f, Parts(f, S), t)
  OBVIOUS
<1> QED BY PartsDefined

\* Two sums over the same elements of the same amounts are the same.
LEMMA PartsAgree ==
    ASSUME NEW f, NEW S, Summands(f, S), NEW h, NEW R, Summands(h, R),
           \A x \in S \cap R : f[x] = h[x]
    PROVE  \A s \in SUBSET (S \cap R) : Parts(f, S)[s] = Parts(h, R)[s]
<1> DEFINE T == {s \in SUBSET (S \cap R) : Parts(f, S)[s] # Parts(h, R)[s]}
<1> SUFFICES ASSUME T # {} PROVE FALSE
  OBVIOUS
<1>1. IsFiniteSet(S \cap R) /\ T \in SUBSET SUBSET (S \cap R)
  BY FS_Subset DEF Summands
<1>2. PICK s \in T : \A x \in s : s \ {x} \notin T
  BY <1>1, SmallestSubset
<1>3. s \in SUBSET S /\ s \in SUBSET R /\ Parts(f, S)[s] # Parts(h, R)[s]
  OBVIOUS
<1>4. Parts(f, S)[s] = Part(f, Parts(f, S), s) /\ Parts(h, R)[s] = Part(h, Parts(h, R), s)
  BY <1>3, PartsUnfold
<1>5. s # {}
  BY <1>3, <1>4 DEF Part
<1>6. Chosen(s) \in s
  BY <1>5 DEF Chosen
<1>7. Parts(f, S)[s \ {Chosen(s)}] = Parts(h, R)[s \ {Chosen(s)}]
  BY <1>2, <1>3, <1>6
<1>8. f[Chosen(s)] = h[Chosen(s)]
  BY <1>3, <1>6
<1> QED BY <1>3, <1>4, <1>5, <1>7, <1>8 DEF Part

\* A sum depends on its summands only.
LEMMA SumSame ==
    ASSUME NEW f, NEW h, NEW S, Summands(f, S), \A x \in S : f[x] = h[x]
    PROVE  SumFunctionOnSet(f, S) = SumFunctionOnSet(h, S)
<1>1. Summands(h, S) /\ S \cap S = S
  BY DEF Summands
<1>2. Parts(f, S)[S] = Parts(h, S)[S]
  BY <1>1, PartsAgree
<1> QED BY <1>2, SumIsAPart

\* A sum of integers is one.
LEMMA SumType ==
    ASSUME NEW f, NEW S, Summands(f, S)
    PROVE  SumFunctionOnSet(f, S) \in Int
<1>1. Parts(f, S) \in [SUBSET S -> Int]
  BY PartsDefined
<1> QED BY <1>1, SumIsAPart

\* Over nothing it is zero.
LEMMA SumEmpty ==
    ASSUME NEW f
    PROVE  SumFunctionOnSet(f, {}) = 0
<1>1. Summands(f, {})
  BY FS_EmptySet DEF Summands
<1>2. \A s \in SUBSET {} : Parts(f, {})[s] = Part(f, Parts(f, {}), s)
  BY <1>1, PartsDefined, Zenon
<1>3. {} \in SUBSET {}
  OBVIOUS
<1>4. Parts(f, {})[{}] = Part(f, Parts(f, {}), {})
  BY <1>2, <1>3, Zenon
<1> QED BY <1>1, <1>4, SumIsAPart DEF Part

\* An element is added last or in between: it makes no difference.
LEMMA PartsRemove ==
    ASSUME NEW f, NEW S, Summands(f, S)
    PROVE  \A s \in SUBSET S : \A x \in s : Parts(f, S)[s] = f[x] + Parts(f, S)[s \ {x}]
<1> DEFINE g == Parts(f, S)
           T == {s \in SUBSET S : ~ \A x \in s : g[s] = f[x] + g[s \ {x}]}
<1> SUFFICES ASSUME T # {} PROVE FALSE
  OBVIOUS
<1> HIDE DEF g
<1>1. PICK s \in T : \A x \in s : s \ {x} \notin T
  BY SmallestSubset DEF Summands
<1>2. s \in SUBSET S
  OBVIOUS
<1>3. PICK x \in s : g[s] # f[x] + g[s \ {x}]
  OBVIOUS
<1>4. \A t \in SUBSET S : g[t] \in Int /\ g[t] = Part(f, g, t)
  <2>1. g \in [SUBSET S -> Int] /\ \A t \in SUBSET S : g[t] = Part(f, g, t)
    BY PartsDefined DEF g
  <2> QED BY <2>1
<1>5. Chosen(s) \in s
  BY <1>3 DEF Chosen
<1> DEFINE a == Chosen(s)
           rest == s \ {a, x}
<1>6. g[s] = f[a] + g[s \ {a}]
  BY <1>2, <1>3, <1>4 DEF Part
<1>7. a # x
  BY <1>3, <1>6
<1>8. s \ {a} \in SUBSET S /\ s \ {x} \in SUBSET S /\ rest \in SUBSET S
  BY <1>2
<1>9. (s \ {a}) \ {x} = rest /\ (s \ {x}) \ {a} = rest
  OBVIOUS
<1>10. x \in s \ {a} /\ a \in s \ {x}
  BY <1>5, <1>7
<1>11. g[s \ {a}] = f[x] + g[(s \ {a}) \ {x}]
  BY <1>1, <1>5, <1>8, <1>10
<1>12. g[s \ {x}] = f[a] + g[(s \ {x}) \ {a}]
  BY <1>1, <1>3, <1>8, <1>10
<1>13. f[a] \in Int /\ f[x] \in Int /\ g[rest] \in Int
  BY <1>2, <1>4, <1>5, <1>8 DEF Summands
<1>14. g[s] = f[x] + g[s \ {x}]
  <2>1. g[s] = f[a] + (f[x] + g[rest])
    BY <1>6, <1>9, <1>11
  <2>2. g[s \ {x}] = f[a] + g[rest]
    BY <1>9, <1>12
  <2>3. \A i, j, k \in Int : i + (j + k) = j + (i + k)
    OBVIOUS
  <2> QED BY <1>13, <2>1, <2>2, <2>3
<1> QED BY <1>3, <1>14

\* Any summand may be taken out first.
LEMMA SumRemove ==
    ASSUME NEW f, NEW S, Summands(f, S), NEW x \in S
    PROVE  SumFunctionOnSet(f, S) = f[x] + SumFunctionOnSet(f, S \ {x})
<1>1. Summands(f, S \ {x}) /\ S \cap (S \ {x}) = S \ {x}
  BY FS_RemoveElement DEF Summands
<1>2. Parts(f, S)[S \ {x}] = Parts(f, S \ {x})[S \ {x}]
  BY <1>1, PartsAgree
<1>3. Parts(f, S)[S] = f[x] + Parts(f, S)[S \ {x}]
  BY PartsRemove
<1> QED BY <1>2, <1>3, SumIsAPart

\* One more summand.
LEMMA SumAdd ==
    ASSUME NEW f, NEW S, NEW x, x \notin S, Summands(f, S \cup {x})
    PROVE  SumFunctionOnSet(f, S \cup {x}) = f[x] + SumFunctionOnSet(f, S)
<1>1. (S \cup {x}) \ {x} = S
  OBVIOUS
<1> QED BY <1>1, SumRemove

\* One summand changes, and the sum by as much.
LEMMA SumChange ==
    ASSUME NEW f, NEW h, NEW S, Summands(f, S), Summands(h, S), NEW x \in S,
           \A y \in S \ {x} : h[y] = f[y]
    PROVE  SumFunctionOnSet(h, S) = SumFunctionOnSet(f, S) - f[x] + h[x]
<1>1. Summands(f, S \ {x})
  BY FS_RemoveElement DEF Summands
<1>2. SumFunctionOnSet(f, S \ {x}) = SumFunctionOnSet(h, S \ {x})
  BY <1>1, SumSame
<1>3. SumFunctionOnSet(f, S \ {x}) \in Int /\ f[x] \in Int /\ h[x] \in Int
  BY <1>1, SumType DEF Summands
<1>4. /\ SumFunctionOnSet(f, S) = f[x] + SumFunctionOnSet(f, S \ {x})
      /\ SumFunctionOnSet(h, S) = h[x] + SumFunctionOnSet(h, S \ {x})
  BY SumRemove
<1> QED BY <1>2, <1>3, <1>4

\* Larger summands make a larger sum; without any, it is zero.
LEMMA SumAtMost ==
    ASSUME NEW f, NEW h, NEW S, Summands(f, S), Summands(h, S), \A x \in S : f[x] <= h[x]
    PROVE  SumFunctionOnSet(f, S) <= SumFunctionOnSet(h, S)
<1> DEFINE T == {s \in SUBSET S : ~ SumFunctionOnSet(f, s) <= SumFunctionOnSet(h, s)}
<1> SUFFICES ASSUME T # {} PROVE FALSE
  OBVIOUS
<1>1. PICK s \in T : \A x \in s : s \ {x} \notin T
  BY SmallestSubset DEF Summands
<1>2. s \in SUBSET S /\ ~ SumFunctionOnSet(f, s) <= SumFunctionOnSet(h, s)
  OBVIOUS
<1>3. s # {}
  BY <1>2, SumEmpty
<1>4. PICK x \in s : TRUE
  BY <1>3
<1>5. Summands(f, s) /\ Summands(h, s) /\ Summands(f, s \ {x}) /\ Summands(h, s \ {x})
  BY <1>2, FS_Subset DEF Summands
<1>6. /\ SumFunctionOnSet(f, s) = f[x] + SumFunctionOnSet(f, s \ {x})
      /\ SumFunctionOnSet(h, s) = h[x] + SumFunctionOnSet(h, s \ {x})
  BY <1>4, <1>5, SumRemove
<1>7. SumFunctionOnSet(f, s \ {x}) <= SumFunctionOnSet(h, s \ {x})
  BY <1>1, <1>2
<1>8. SumFunctionOnSet(f, s \ {x}) \in Int /\ SumFunctionOnSet(h, s \ {x}) \in Int
  BY <1>5, SumType
<1>9. f[x] \in Int /\ h[x] \in Int /\ f[x] <= h[x]
  BY <1>2 DEF Summands
<1> QED BY <1>2, <1>6, <1>7, <1>8, <1>9

\* Zeros add up to zero.
LEMMA SumZero ==
    ASSUME NEW f, NEW S, IsFiniteSet(S), \A x \in S : f[x] = 0
    PROVE  SumFunctionOnSet(f, S) = 0
<1> DEFINE T == {s \in SUBSET S : SumFunctionOnSet(f, s) # 0}
<1> SUFFICES ASSUME T # {} PROVE FALSE
  OBVIOUS
<1>1. PICK s \in T : \A x \in s : s \ {x} \notin T
  BY SmallestSubset
<1>2. s \in SUBSET S /\ SumFunctionOnSet(f, s) # 0
  OBVIOUS
<1>3. PICK x \in s : TRUE
  BY <1>2, SumEmpty
<1>4. Summands(f, s)
  BY <1>2, FS_Subset DEF Summands
<1>5. SumFunctionOnSet(f, s) = f[x] + SumFunctionOnSet(f, s \ {x})
  BY <1>4, SumRemove
<1>6. SumFunctionOnSet(f, s \ {x}) = 0
  BY <1>1, <1>2
<1> QED BY <1>2, <1>5, <1>6

\* Sums add up summand by summand.
LEMMA SumPlus ==
    ASSUME NEW f, NEW g, NEW h, NEW S, Summands(f, S), Summands(g, S),
           \A x \in S : h[x] = f[x] + g[x]
    PROVE  SumFunctionOnSet(h, S) = SumFunctionOnSet(f, S) + SumFunctionOnSet(g, S)
<1> DEFINE T == {s \in SUBSET S :
                     SumFunctionOnSet(h, s) # SumFunctionOnSet(f, s) + SumFunctionOnSet(g, s)}
<1> SUFFICES ASSUME T # {} PROVE FALSE
  OBVIOUS
<1>1. PICK s \in T : \A x \in s : s \ {x} \notin T
  BY SmallestSubset DEF Summands
<1>2. s \in SUBSET S /\ SumFunctionOnSet(h, s) # SumFunctionOnSet(f, s) + SumFunctionOnSet(g, s)
  OBVIOUS
<1>3. PICK x \in s : TRUE
  BY <1>2, SumEmpty
<1>4. \A x1 \in S : h[x1] \in Int
  BY DEF Summands
<1>5. /\ Summands(f, s) /\ Summands(g, s) /\ Summands(h, s)
      /\ Summands(f, s \ {x}) /\ Summands(g, s \ {x})
  BY <1>2, <1>4, FS_Subset DEF Summands
<1>6. SumFunctionOnSet(f, s) = f[x] + SumFunctionOnSet(f, s \ {x})
  BY <1>5, SumRemove
<1>7. SumFunctionOnSet(g, s) = g[x] + SumFunctionOnSet(g, s \ {x})
  BY <1>5, SumRemove
<1>8. SumFunctionOnSet(h, s) = h[x] + SumFunctionOnSet(h, s \ {x})
  BY <1>5, SumRemove
<1>9. SumFunctionOnSet(h, s \ {x}) = SumFunctionOnSet(f, s \ {x}) + SumFunctionOnSet(g, s \ {x})
  BY <1>1, <1>2
<1>10. SumFunctionOnSet(f, s \ {x}) \in Int /\ SumFunctionOnSet(g, s \ {x}) \in Int
  BY <1>5, SumType
<1>11. f[x] \in Int /\ g[x] \in Int /\ h[x] = f[x] + g[x]
  BY <1>2 DEF Summands
<1> QED BY <1>2, <1>6, <1>7, <1>8, <1>9, <1>10, <1>11

\* What is zero may be left out.
LEMMA SumSupport ==
    ASSUME NEW f, NEW S, Summands(f, S), NEW R \in SUBSET S, \A x \in S \ R : f[x] = 0
    PROVE  SumFunctionOnSet(f, R) = SumFunctionOnSet(f, S)
<1> DEFINE T == {s \in SUBSET S : SumFunctionOnSet(f, s) # SumFunctionOnSet(f, s \cap R)}
<1>1. ASSUME T # {} PROVE FALSE
  <2>1. PICK s \in T : \A x \in s : s \ {x} \notin T
    BY <1>1, SmallestSubset DEF Summands
  <2>2. s \in SUBSET S /\ SumFunctionOnSet(f, s) # SumFunctionOnSet(f, s \cap R)
    OBVIOUS
  <2>3. s # {}
    <3>1. s = {} => s \cap R = s
      OBVIOUS
    <3> QED BY <2>2, <3>1
  <2>4. PICK x \in s : TRUE
    BY <2>3
  <2>5. Summands(f, s) /\ Summands(f, s \cap R) /\ Summands(f, s \ {x})
    BY <2>2, FS_Subset DEF Summands
  <2>6. SumFunctionOnSet(f, s) = f[x] + SumFunctionOnSet(f, s \ {x})
    BY <2>5, SumRemove
  <2>7. SumFunctionOnSet(f, s \ {x}) = SumFunctionOnSet(f, (s \ {x}) \cap R)
    BY <2>1, <2>2
  <2>8. CASE x \in R
    <3>1. (s \cap R) \ {x} = (s \ {x}) \cap R /\ x \in s \cap R
      BY <2>8
    <3>2. SumFunctionOnSet(f, s \cap R) = f[x] + SumFunctionOnSet(f, (s \cap R) \ {x})
      BY <2>5, <3>1, SumRemove
    <3> QED BY <2>2, <2>6, <2>7, <3>1, <3>2
  <2>9. CASE x \notin R
    <3>1. (s \ {x}) \cap R = s \cap R /\ f[x] = 0
      BY <2>2, <2>9
    <3>2. SumFunctionOnSet(f, s \ {x}) \in Int
      BY <2>5, SumType
    <3>3. SumFunctionOnSet(f, s) = SumFunctionOnSet(f, s \ {x})
      BY <2>6, <3>1, <3>2
    <3>4. SumFunctionOnSet(f, (s \ {x}) \cap R) = SumFunctionOnSet(f, s \cap R)
      BY <3>1
    <3> QED BY <2>2, <2>7, <3>3, <3>4, Zenon
  <2> QED BY <2>8, <2>9
<1>2. S \cap R = R /\ S \in SUBSET S
  OBVIOUS
<1> QED BY <1>1, <1>2

\* A sum of naturals is no less than any of them.
LEMMA SumNat ==
    ASSUME NEW f, NEW S, IsFiniteSet(S), \A x \in S : f[x] \in Nat
    PROVE  SumFunctionOnSet(f, S) \in Nat /\ \A x \in S : f[x] <= SumFunctionOnSet(f, S)
<1> DEFINE zero == [x \in S |-> 0]
<1>1. ASSUME NEW R, IsFiniteSet(R), R \subseteq S PROVE SumFunctionOnSet(f, R) \in Nat
  <2>1. Summands(f, R) /\ Summands(zero, R) /\ (\A x \in R : zero[x] <= f[x])
    BY <1>1 DEF Summands
  <2>2. SumFunctionOnSet(zero, R) = 0
    BY <1>1, SumZero
  <2>3. SumFunctionOnSet(zero, R) <= SumFunctionOnSet(f, R)
    BY <2>1, SumAtMost
  <2> QED BY <2>1, <2>2, <2>3, SumType
<1>2. Summands(f, S)
  BY DEF Summands
<1>3. ASSUME NEW x \in S PROVE f[x] <= SumFunctionOnSet(f, S)
  <2>1. IsFiniteSet(S \ {x})
    BY FS_RemoveElement
  <2>2. SumFunctionOnSet(f, S \ {x}) \in Nat
    BY <1>1, <2>1
  <2>3. SumFunctionOnSet(f, S) = f[x] + SumFunctionOnSet(f, S \ {x})
    BY <1>2, SumRemove
  <2> QED BY <2>2, <2>3
<1> QED BY <1>1, <1>3

\* A part of naturals sums to no more than all of them.
LEMMA SumPart ==
    ASSUME NEW f, NEW S, IsFiniteSet(S), \A x \in S : f[x] \in Nat, NEW R \in SUBSET S
    PROVE  SumFunctionOnSet(f, R) <= SumFunctionOnSet(f, S)
<1> DEFINE part == [x \in S |-> IF x \in R THEN f[x] ELSE 0]
<1>1. Summands(f, S) /\ Summands(part, S) /\ (\A x \in S : part[x] <= f[x])
  BY DEF Summands
<1>2. \A x \in S \ R : part[x] = 0
  OBVIOUS
<1>3. \A x \in R : part[x] = f[x]
  OBVIOUS
<1>4. Summands(part, R)
  BY <1>1, FS_Subset DEF Summands
<1> HIDE DEF part
<1>5. SumFunctionOnSet(part, R) = SumFunctionOnSet(part, S)
  BY <1>1, <1>2, SumSupport
<1>6. SumFunctionOnSet(part, R) = SumFunctionOnSet(f, R)
  BY <1>3, <1>4, SumSame
<1>7. SumFunctionOnSet(part, S) <= SumFunctionOnSet(f, S)
  BY <1>1, SumAtMost
<1> QED BY <1>5, <1>6, <1>7

\* Summands that map, one to one, into naturals each as large sum to no more.
LEMMA SumInto ==
    ASSUME NEW S, IsFiniteSet(S), NEW R, IsFiniteSet(R), NEW f, NEW g,
           \A y \in R : g[y] \in Nat,
           NEW e \in [S -> R], \A x, y \in S : e[x] = e[y] => x = y,
           \A x \in S : f[x] = g[e[x]]
    PROVE  SumFunctionOnSet(f, S) <= SumFunctionOnSet(g, R)
<1> DEFINE Into(s) == {e[x] : x \in s}
           T == {s \in SUBSET S : SumFunctionOnSet(f, s) # SumFunctionOnSet(g, Into(s))}
<1>1. ASSUME T # {} PROVE FALSE
  <2>1. PICK s \in T : \A x \in s : s \ {x} \notin T
    BY <1>1, SmallestSubset
  <2>2. s \in SUBSET S /\ SumFunctionOnSet(f, s) # SumFunctionOnSet(g, Into(s))
    OBVIOUS
  <2>3. ASSUME s = {} PROVE FALSE
    <3>1. Into(s) = {}
      BY <2>3
    <3> QED BY <2>2, <2>3, <3>1, SumEmpty
  <2>4. PICK x \in s : TRUE
    BY <2>3
  <2>5. x \in S /\ e[x] \in R /\ f[x] = g[e[x]] /\ (\A z \in S : f[z] \in Int) /\ (\A y \in R : g[y] \in Int)
    BY <2>2
  <2>6. Into(s) \subseteq R /\ Into(s \ {x}) = Into(s) \ {e[x]} /\ e[x] \in Into(s)
    BY <2>2
  <2>7. Summands(f, s) /\ Summands(g, Into(s))
    <3>1. IsFiniteSet(s)
      BY <2>2, FS_Subset
    <3>2. IsFiniteSet(Into(s))
      BY <2>6, FS_Subset
    <3> QED BY <2>2, <2>5, <2>6, <3>1, <3>2 DEF Summands
  <2>8. s \ {x} \in SUBSET S /\ s \ {x} \notin T
    BY <2>1, <2>2
  <2>9. SumFunctionOnSet(f, s \ {x}) = SumFunctionOnSet(g, Into(s \ {x}))
    BY <2>8
  <2> HIDE DEF Into
  <2>10. SumFunctionOnSet(f, s) = f[x] + SumFunctionOnSet(f, s \ {x})
    BY <2>7, SumRemove
  <2>11. SumFunctionOnSet(g, Into(s)) = g[e[x]] + SumFunctionOnSet(g, Into(s) \ {e[x]})
    BY <2>6, <2>7, SumRemove
  <2> QED BY <2>2, <2>5, <2>6, <2>9, <2>10, <2>11
<1>2. SumFunctionOnSet(f, S) = SumFunctionOnSet(g, Into(S))
  BY <1>1
<1>3. Into(S) \in SUBSET R
  OBVIOUS
<1> HIDE DEF Into
<1>4. SumFunctionOnSet(g, Into(S)) <= SumFunctionOnSet(g, R)
  BY <1>3, SumPart
<1> QED BY <1>2, <1>4

\* A share, rounded down, times the whole is at most the weight's part.
LEMMA ShareTimesTotal == \A a \in Nat, b \in Nat \ {0} : b * (a \div b) <= a
  OBVIOUS

\* A factor may be taken out.
LEMMA Distributes == \A a, b, c \in Int : a * (b + c) = a * b + a * c
  OBVIOUS

\* ... or cancelled.
LEMMA Cancels == \A a \in Nat \ {0}, b, c \in Nat : a * b <= a * c => b <= c
<1> SUFFICES ASSUME NEW a \in Nat \ {0}, NEW b \in Nat, NEW c \in Nat, a * b <= a * c, b > c PROVE FALSE
  OBVIOUS
<1>1. b = c + (b - c) /\ b - c >= 1 /\ b - c \in Nat
  OBVIOUS
<1>2. a * b = a * c + a * (b - c)
  BY <1>1, Distributes
<1>3. a <= a * (b - c)
  <2>1. a * 1 <= a * (b - c)
    BY <1>1, MulMono
  <2> QED BY <2>1
<1>4. a * c \in Nat /\ a * (b - c) \in Nat
  BY <1>1, MulNat
<1>5. \A x, y, z \in Nat : x = y + z /\ a <= z /\ x <= y => FALSE
  OBVIOUS
<1>6. a * b \in Nat
  BY MulNat
<1> QED BY <1>2, <1>3, <1>4, <1>5, <1>6, Zenon

\* Shares of e in proportion to some weights, each rounded down, are no more
\* than e together.
LEMMA SharesAtMost ==
    ASSUME NEW S, IsFiniteSet(S), NEW weight, \A x \in S : weight[x] \in Nat,
           NEW e \in Nat, NEW total, total = SumFunctionOnSet(weight, S), total # 0,
           NEW share, \A x \in S : share[x] = (e * weight[x]) \div total
    PROVE  /\ \A x \in S : share[x] \in Nat
           /\ SumFunctionOnSet(share, S) <= e
<1>1. total \in Nat \ {0}
  BY SumNat
<1>2. \A x \in S : share[x] \in Nat /\ total * share[x] <= e * weight[x]
  <2> SUFFICES ASSUME NEW x \in S PROVE share[x] \in Nat /\ total * share[x] <= e * weight[x]
    OBVIOUS
  <2>1. e * weight[x] \in Nat
    BY MulNat
  <2> QED BY <1>1, <2>1, DivNat, ShareTimesTotal
<1> DEFINE T == {s \in SUBSET S :
                     ~ total * SumFunctionOnSet(share, s) <= e * SumFunctionOnSet(weight, s)}
<1>3. ASSUME T # {} PROVE FALSE
  <2>1. PICK s \in T : \A x \in s : s \ {x} \notin T
    BY <1>3, SmallestSubset
  <2>2. s \in SUBSET S /\ ~ total * SumFunctionOnSet(share, s) <= e * SumFunctionOnSet(weight, s)
    OBVIOUS
  <2>3. s # {}
    <3>1. SumFunctionOnSet(share, {}) = 0 /\ SumFunctionOnSet(weight, {}) = 0
      BY SumEmpty
    <3>2. total * 0 <= e * 0
      BY <1>1
    <3> QED BY <2>2, <3>1, <3>2
  <2>4. PICK x \in s : TRUE
    BY <2>3
  <2>5. IsFiniteSet(s) /\ IsFiniteSet(s \ {x})
    BY <2>2, FS_Subset
  <2>6. Summands(share, s) /\ Summands(weight, s) /\ s \ {x} \subseteq S
    BY <1>2, <2>2, <2>5 DEF Summands
  <2>7. /\ SumFunctionOnSet(share, s) = share[x] + SumFunctionOnSet(share, s \ {x})
        /\ SumFunctionOnSet(weight, s) = weight[x] + SumFunctionOnSet(weight, s \ {x})
    BY <2>6, SumRemove
  <2>8. SumFunctionOnSet(share, s \ {x}) \in Nat /\ SumFunctionOnSet(weight, s \ {x}) \in Nat
    BY <1>2, <2>5, <2>6, SumNat
  <2>9. total * SumFunctionOnSet(share, s \ {x}) <= e * SumFunctionOnSet(weight, s \ {x})
    BY <2>1, <2>2
  <2>10. /\ total * (share[x] + SumFunctionOnSet(share, s \ {x}))
              = total * share[x] + total * SumFunctionOnSet(share, s \ {x})
         /\ e * (weight[x] + SumFunctionOnSet(weight, s \ {x}))
              = e * weight[x] + e * SumFunctionOnSet(weight, s \ {x})
    BY <1>1, <1>2, <2>2, <2>8, Distributes
  <2>11. /\ total * share[x] \in Nat /\ total * SumFunctionOnSet(share, s \ {x}) \in Nat
         /\ e * weight[x] \in Nat /\ e * SumFunctionOnSet(weight, s \ {x}) \in Nat
    BY <1>1, <1>2, <2>2, <2>8, MulNat
  <2> QED BY <1>2, <2>2, <2>7, <2>9, <2>10, <2>11
<1>4. total * SumFunctionOnSet(share, S) <= e * total
  <2>1. S \in SUBSET S
    OBVIOUS
  <2> QED BY <1>3, <2>1
<1>5. SumFunctionOnSet(share, S) \in Nat
  BY <1>2, SumNat
<1>6. e * total = total * e
  BY <1>1
<1> QED BY <1>1, <1>2, <1>4, <1>5, <1>6, Cancels

-----------------------------------------------------------------------------
(***************************************************************************)
(* Entries posted one after the other.                                     *)
(***************************************************************************)
LEMMA MaxOfFinite ==
    ASSUME NEW S \in SUBSET Nat, IsFiniteSet(S)
    PROVE  \A s \in SUBSET S : s # {} => Max(s) \in s /\ \A y \in s : y <= Max(s)
<1> DEFINE T == {s \in SUBSET S : s # {} /\ ~ \E m \in s : \A y \in s : m >= y}
<1>1. ASSUME T # {} PROVE FALSE
  <2>1. PICK s \in T : \A x \in s : s \ {x} \notin T
    BY <1>1, SmallestSubset
  <2>2. s \in SUBSET S /\ s # {} /\ ~ \E m \in s : \A y \in s : m >= y
    OBVIOUS
  <2>3. PICK x \in s : TRUE
    BY <2>2
  <2>4. CASE s \ {x} = {}
    BY <2>2, <2>3, <2>4
  <2>5. CASE s \ {x} # {}
    <3>1. PICK m \in s \ {x} : \A y \in s \ {x} : m >= y
      BY <2>1, <2>2, <2>3, <2>5
    <3>2. m \in Nat /\ x \in Nat
      BY <2>2
    <3>3. CASE m >= x
      BY <2>2, <3>1, <3>3
    <3>4. CASE ~ m >= x
      <4>1. \A y \in s : y \in Nat
        BY <2>2
      <4>2. \A y \in s : x >= y
        BY <3>1, <3>2, <3>4, <4>1
      <4> QED BY <2>2, <4>2
    <3> QED BY <3>3, <3>4
  <2> QED BY <2>4, <2>5
<1>2. ASSUME NEW s \in SUBSET S, s # {}
      PROVE  Max(s) \in s /\ \A y \in s : y <= Max(s)
  <2>1. \E m \in s : \A y \in s : m >= y
    BY <1>1, <1>2
  <2>2. Max(s) \in s /\ \A y \in s : Max(s) >= y
    BY <2>1 DEF Max
  <2>3. Max(s) \in Nat /\ \A y \in s : y \in Nat
    BY <2>2
  <2> QED BY <2>2, <2>3
<1> QED BY <1>2

Outcomes == [ok : BOOLEAN, ledger : Ledgers]

Start(l) == [ok |-> TRUE, ledger |-> l]

Outcome(l, es, g, s) == IF s = {} THEN Start(l) ELSE PostStep(g[s \ {Max(s)}], es[Max(s)])

Postings(l, es) == CHOOSE g : g = [s \in SUBSET DOMAIN es |-> Outcome(l, es, g, s)]

\* Posting all the entries is the last of the postings of a part of them.
LEMMA PostAllIsAPosting ==
    ASSUME NEW l, NEW es
    PROVE  PostAll(l, es) = Postings(l, es)[DOMAIN es]
  BY DEF PostAll, FoldLeft, MapThenFoldSet, Postings, Outcome, Start

\* An entry leaves a ledger.
LEMMA PostedIsALedger ==
    ASSUME NEW l \in Ledgers, NEW e \in Entries
    PROVE  Posted(l, e) \in Ledgers
<1>1. e.wallet \in Wallets /\ e.amount \in Int /\ e.type \in Types /\ e.ref \in Refs \cup {NoRef}
  BY DEF Entries
<1>2. l.balance \in [Wallets -> Int] /\ l.hold \in SUBSET Wallets /\ l.keys \in SUBSET Keys
  BY DEF Ledgers
<1>3. KeysOf(e) \in SUBSET Keys
  BY <1>1 DEF KeysOf, Keys
<1>4. [l.balance EXCEPT ![e.wallet] = @ + e.amount] \in [Wallets -> Int]
  BY <1>1, <1>2
<1> QED BY <1>2, <1>3, <1>4 DEF Posted, Ledgers

\* One step leaves an outcome, whether the entry is admitted or not.
LEMMA PostStepIsAnOutcome ==
    ASSUME NEW acc \in Outcomes, NEW e \in Entries
    PROVE  PostStep(acc, e) \in Outcomes
<1>1. acc.ledger \in Ledgers /\ acc.ok \in BOOLEAN
  BY DEF Outcomes
<1>2. Posted(acc.ledger, e) \in Ledgers
  BY <1>1, PostedIsALedger
<1>3. [acc EXCEPT !.ok = FALSE] \in Outcomes
  BY DEF Outcomes
<1> QED BY <1>1, <1>2, <1>3 DEF PostStep, Outcomes

\* The postings of the parts of a sequence of entries, as the recursion gives them.
LEMMA PostingsDefined ==
    ASSUME NEW l \in Ledgers, NEW es \in Seq(Entries)
    PROVE  /\ Postings(l, es) \in [SUBSET DOMAIN es -> Outcomes]
           /\ \A s \in SUBSET DOMAIN es : Postings(l, es)[s] = Outcome(l, es, Postings(l, es), s)
<1> DEFINE D == DOMAIN es
           c == [s \in SUBSET D |-> Max(s)]
           H == [p \in D \X Outcomes |-> PostStep(p[2], es[p[1]])]
<1>1. D \in SUBSET Nat /\ IsFiniteSet(D)
  <2>1. D = 1..Len(es) /\ Len(es) \in Nat
    OBVIOUS
  <2> QED BY <2>1, FS_Interval
<1>2. \A s \in SUBSET D : s # {} => Max(s) \in s
  BY <1>1, MaxOfFinite
<1>3. \A s \in SUBSET D : s # {} => c[s] \in s /\ c[s] = Max(s)
  BY <1>2
<1>4. \A i \in D : es[i] \in Entries
  OBVIOUS
<1>5. \A i \in D, o \in Outcomes : H[<<i, o>>] = PostStep(o, es[i]) /\ PostStep(o, es[i]) \in Outcomes
  BY <1>4, PostStepIsAnOutcome
<1>6. Start(l) \in Outcomes
  BY DEF Start, Outcomes
<1> HIDE DEF H, c, D
<1>7. PICK g : Recursive(Start(l), H, c, g, SUBSET D)
  BY <1>1, <1>3, RecursionExists
<1>8. \A s \in SUBSET D : g[s] = Result(Start(l), H, c, g, s)
  BY <1>7 DEF Recursive
<1>9. \A s \in SUBSET D : g[s] \in Outcomes
  <2> DEFINE T == {s \in SUBSET D : g[s] \notin Outcomes}
  <2> SUFFICES ASSUME T # {} PROVE FALSE
    OBVIOUS
  <2>1. PICK s \in T : \A x \in s : s \ {x} \notin T
    BY <1>1, SmallestSubset
  <2>2. s \in SUBSET D /\ g[s] \notin Outcomes
    OBVIOUS
  <2>3. s # {}
    BY <1>6, <1>8, <2>2 DEF Result
  <2>4. Max(s) \in s /\ c[s] = Max(s)
    BY <1>3, <2>2, <2>3
  <2>5. g[s \ {Max(s)}] \in Outcomes /\ Max(s) \in D
    BY <2>1, <2>2, <2>4
  <2>6. g[s] = PostStep(g[s \ {Max(s)}], es[Max(s)])
    BY <1>5, <1>8, <2>2, <2>3, <2>4, <2>5 DEF Result
  <2> QED BY <1>5, <2>2, <2>5, <2>6
<1>10. ASSUME NEW s \in SUBSET D PROVE g[s] = Outcome(l, es, g, s)
  <2>1. CASE s = {}
    BY <1>8, <2>1 DEF Result, Outcome
  <2>2. CASE s # {}
    <3>1. Max(s) \in D /\ c[s] = Max(s) /\ g[s \ {Max(s)}] \in Outcomes
      BY <1>3, <1>9, <2>2
    <3> QED BY <1>5, <1>8, <2>2, <3>1 DEF Result, Outcome
  <2> QED BY <2>1, <2>2
<1>11. g = [s \in SUBSET D |-> g[s]]
  BY <1>7 DEF Recursive
<1>12. g = [s \in SUBSET D |-> Outcome(l, es, g, s)]
  BY <1>10, <1>11
<1>13. Postings(l, es) = [s \in SUBSET D |-> Outcome(l, es, Postings(l, es), s)]
  BY <1>12 DEF Postings, D
<1>14. \A s \in SUBSET D : Postings(l, es)[s] = Outcome(l, es, Postings(l, es), s)
  BY <1>13
<1>15. \A s \in SUBSET D : Postings(l, es)[s] = g[s]
  <2> DEFINE T == {s \in SUBSET D : Postings(l, es)[s] # g[s]}
  <2> SUFFICES ASSUME T # {} PROVE FALSE
    OBVIOUS
  <2>1. PICK s \in T : \A x \in s : s \ {x} \notin T
    BY <1>1, SmallestSubset
  <2>2. s \in SUBSET D /\ (s # {} => Max(s) \in s)
    BY <1>3
  <2>3. s # {} => Postings(l, es)[s \ {Max(s)}] = g[s \ {Max(s)}]
    BY <2>1, <2>2
  <2> QED BY <1>10, <1>14, <2>1, <2>2, <2>3 DEF Outcome
<1>16. Postings(l, es) \in [SUBSET D -> Outcomes]
  BY <1>9, <1>13, <1>15
<1> QED BY <1>14, <1>16 DEF D

\* Each of them is a step from the posting of a smaller part.
LEMMA PostingsUnfold ==
    \A l \in Ledgers, es \in Seq(Entries) : \A s \in SUBSET DOMAIN es :
        Postings(l, es)[s] = Outcome(l, es, Postings(l, es), s)
<1> SUFFICES ASSUME NEW l \in Ledgers, NEW es \in Seq(Entries)
             PROVE  \A s \in SUBSET DOMAIN es : Postings(l, es)[s] = Outcome(l, es, Postings(l, es), s)
  OBVIOUS
<1> QED BY PostingsDefined

\* Entries posted one after the other leave a ledger, and say whether all were admitted.
LEMMA PostAllType ==
    ASSUME NEW l \in Ledgers, NEW es \in Seq(Entries)
    PROVE  PostAll(l, es) \in Outcomes
<1>1. Postings(l, es) \in [SUBSET DOMAIN es -> Outcomes]
  BY PostingsDefined
<1> QED BY <1>1, PostAllIsAPosting

\* No entries change nothing.
LEMMA PostAllNone ==
    ASSUME NEW l \in Ledgers
    PROVE  PostAll(l, <<>>) = Start(l)
<1>1. <<>> \in Seq(Entries) /\ DOMAIN <<>> = {}
  OBVIOUS
<1>2. Postings(l, <<>>)[{}] = Outcome(l, <<>>, Postings(l, <<>>), {})
  BY <1>1, PostingsUnfold
<1> QED BY <1>1, <1>2, PostAllIsAPosting DEF Outcome

\* What is posted last comes after all the rest.
LEMMA PostAllLast ==
    ASSUME NEW l \in Ledgers, NEW es \in Seq(Entries), NEW e \in Entries
    PROVE  PostAll(l, Append(es, e)) = PostStep(PostAll(l, es), e)
<1> DEFINE fs == Append(es, e)
           n == Len(es)
           T == {s \in SUBSET (1..n) : Postings(l, fs)[s] # Postings(l, es)[s]}
<1>1. /\ fs \in Seq(Entries) /\ n \in Nat
      /\ DOMAIN es = 1..n /\ DOMAIN fs = 1..(n + 1)
      /\ \A i \in 1..n : fs[i] = es[i]
      /\ fs[n + 1] = e
  OBVIOUS
<1> HIDE DEF fs, n
<1>2. /\ 1..(n + 1) \in SUBSET Nat /\ IsFiniteSet(1..n) /\ IsFiniteSet(1..(n + 1))
      /\ SUBSET (1..n) \subseteq SUBSET (1..(n + 1))
  <2>1. 1..n \subseteq 1..(n + 1) /\ 1..(n + 1) \in SUBSET Nat /\ 1 \in Int /\ n \in Int /\ n + 1 \in Int
    BY <1>1
  <2>2. IsFiniteSet(1..n) /\ IsFiniteSet(1..(n + 1))
    BY <2>1, FS_Interval
  <2> QED BY <2>1, <2>2
<1>3. \A s \in SUBSET (1..(n + 1)) : s # {} => Max(s) \in s /\ \A y \in s : y <= Max(s)
  BY <1>2, MaxOfFinite
<1>4. /\ \A s \in SUBSET (1..(n + 1)) : Postings(l, fs)[s] = Outcome(l, fs, Postings(l, fs), s)
      /\ \A s \in SUBSET (1..n) : Postings(l, es)[s] = Outcome(l, es, Postings(l, es), s)
  BY <1>1, PostingsUnfold
<1>5. ASSUME T # {} PROVE FALSE
  <2>1. PICK s \in T : \A x \in s : s \ {x} \notin T
    BY <1>2, <1>5, SmallestSubset
  <2>2. s \in SUBSET (1..n) /\ Postings(l, fs)[s] # Postings(l, es)[s]
    OBVIOUS
  <2>3. s # {} => Max(s) \in s
    BY <1>2, <1>3, <2>2
  <2>4. s # {} => Postings(l, fs)[s \ {Max(s)}] = Postings(l, es)[s \ {Max(s)}]
    BY <2>1, <2>2, <2>3
  <2>5. s # {} => fs[Max(s)] = es[Max(s)]
    BY <1>1, <2>2, <2>3
  <2>6. /\ Postings(l, fs)[s] = Outcome(l, fs, Postings(l, fs), s)
        /\ Postings(l, es)[s] = Outcome(l, es, Postings(l, es), s)
    BY <1>2, <1>4, <2>2
  <2> QED BY <2>2, <2>4, <2>5, <2>6 DEF Outcome
<1>6. Max(1..(n + 1)) = n + 1
  <2>1. 1..(n + 1) # {} /\ n + 1 \in 1..(n + 1)
    BY <1>1
  <2>2. Max(1..(n + 1)) \in 1..(n + 1) /\ n + 1 <= Max(1..(n + 1))
    BY <1>3, <2>1
  <2> QED BY <1>1, <2>2
<1>7. (1..(n + 1)) \ {n + 1} = 1..n
  BY <1>1
<1>8. Postings(l, fs)[1..(n + 1)] = PostStep(Postings(l, fs)[1..n], e)
  <2>1. Postings(l, fs)[1..(n + 1)] = Outcome(l, fs, Postings(l, fs), 1..(n + 1))
    BY <1>4
  <2>2. n + 1 \in 1..(n + 1)
    BY <1>1
  <2>3. 1..(n + 1) # {}
    BY <2>2
  <2> QED BY <1>1, <1>6, <1>7, <2>1, <2>3 DEF Outcome
<1>9. Postings(l, fs)[1..n] = Postings(l, es)[1..n]
  BY <1>5
<1>10. PostAll(l, fs) = Postings(l, fs)[1..(n + 1)] /\ PostAll(l, es) = Postings(l, es)[1..n]
  BY <1>1, PostAllIsAPosting
<1> QED BY <1>8, <1>9, <1>10 DEF fs

\* A transfer: the second entry meets the ledger the first has left.
LEMMA PostAllTwo ==
    ASSUME NEW l \in Ledgers, NEW a \in Entries, NEW b \in Entries
    PROVE  /\ PostAll(l, <<a, b>>).ok <=> Admits(l, a) /\ Admits(Posted(l, a), b)
           /\ PostAll(l, <<a, b>>).ok => PostAll(l, <<a, b>>).ledger = Posted(Posted(l, a), b)
<1>1. <<>> \in Seq(Entries) /\ <<a>> \in Seq(Entries)
      /\ <<a>> = Append(<<>>, a) /\ <<a, b>> = Append(<<a>>, b)
  OBVIOUS
<1>2. PostAll(l, <<a>>) = PostStep(Start(l), a)
  BY <1>1, PostAllNone, PostAllLast
<1>3. PostAll(l, <<a, b>>) = PostStep(PostStep(Start(l), a), b)
  BY <1>1, <1>2, PostAllLast
<1>4. CASE Admits(l, a)
  <2>1. PostStep(Start(l), a) = Start(Posted(l, a))
    BY <1>4 DEF PostStep, Start
  <2>2. CASE Admits(Posted(l, a), b)
    <3>1. PostStep(Start(Posted(l, a)), b) = Start(Posted(Posted(l, a), b))
      BY <2>2 DEF PostStep, Start
    <3> QED BY <1>3, <1>4, <2>1, <2>2, <3>1 DEF Start
  <2>3. CASE ~ Admits(Posted(l, a), b)
    <3>1. PostStep(Start(Posted(l, a)), b).ok = FALSE
      BY <2>3 DEF PostStep, Start
    <3> QED BY <1>3, <1>4, <2>1, <2>3, <3>1
  <2> QED BY <2>2, <2>3
<1>5. CASE ~ Admits(l, a)
  <2>1. PostStep(Start(l), a).ok = FALSE
    BY <1>5 DEF PostStep, Start
  <2>2. PostStep(Start(l), a) \in Outcomes
    BY PostStepIsAnOutcome DEF Start, Outcomes
  <2>3. PostStep(PostStep(Start(l), a), b).ok = FALSE
    BY <2>1, <2>2 DEF PostStep, Outcomes
  <2> QED BY <1>3, <1>5, <2>3
<1> QED BY <1>4, <1>5

\* A posting that has failed stays so; one that has not goes on from its ledger.
LEMMA PostStepGoesOn ==
    ASSUME NEW acc \in Outcomes, NEW e \in Entries
    PROVE  /\ PostStep(acc, e).ok <=> acc.ok /\ Admits(acc.ledger, e)
           /\ PostStep(acc, e).ok => PostStep(acc, e).ledger = Posted(acc.ledger, e)
<1>1. [acc EXCEPT !.ok = FALSE].ok = FALSE
  BY DEF Outcomes
<1> QED BY <1>1 DEF PostStep

\* One entry alone.
LEMMA PostAllOne ==
    ASSUME NEW l \in Ledgers, NEW a \in Entries
    PROVE  /\ PostAll(l, <<a>>).ok <=> Admits(l, a)
           /\ PostAll(l, <<a>>).ok => PostAll(l, <<a>>).ledger = Posted(l, a)
<1>1. <<>> \in Seq(Entries) /\ <<a>> = Append(<<>>, a)
  OBVIOUS
<1>2. PostAll(l, <<a>>) = PostStep(Start(l), a)
  BY <1>1, PostAllNone, PostAllLast
<1>3. Start(l) \in Outcomes /\ Start(l).ok /\ Start(l).ledger = l
  BY DEF Start, Outcomes
<1> QED BY <1>2, <1>3, PostStepGoesOn

\* An entry in front of two.
LEMMA OneAndTwo ==
    ASSUME NEW x \in Entries, NEW y \in Entries, NEW z \in Entries
    PROVE  <<x>> \o <<y, z>> = <<x, y, z>>
<1> DEFINE q == <<x>> \o <<y, z>>
           r == <<x, y, z>>
<1>1. \A s, t \in Seq(Entries) :
          Len(s) = Len(t) /\ (\A i \in 1..Len(s) : s[i] = t[i]) => s = t
  OBVIOUS
<1>2. q \in Seq(Entries) /\ Len(q) = 3 /\ q[1] = x /\ q[2] = y /\ q[3] = z
  OBVIOUS
<1>3. r \in Seq(Entries) /\ Len(r) = 3 /\ r[1] = x /\ r[2] = y /\ r[3] = z
  OBVIOUS
<1>4. 1..3 = {1, 2, 3}
  OBVIOUS
<1> HIDE DEF q, r
<1>5. \A i \in 1..Len(q) : q[i] = r[i]
  BY <1>2, <1>3, <1>4
<1>6. q = r
  BY <1>1, <1>2, <1>3, <1>5
<1> QED BY <1>6 DEF q, r

\* Three entries: each meets the ledger the ones before have left.
LEMMA PostAllThree ==
    ASSUME NEW l \in Ledgers, NEW a \in Entries, NEW b \in Entries, NEW c \in Entries
    PROVE  /\ PostAll(l, <<a, b, c>>).ok <=> /\ Admits(l, a)
                                            /\ Admits(Posted(l, a), b)
                                            /\ Admits(Posted(Posted(l, a), b), c)
           /\ PostAll(l, <<a, b, c>>).ok =>
                 PostAll(l, <<a, b, c>>).ledger = Posted(Posted(Posted(l, a), b), c)
<1>1. <<a, b>> \in Seq(Entries) /\ <<a, b, c>> = Append(<<a, b>>, c)
  OBVIOUS
<1>2. PostAll(l, <<a, b, c>>) = PostStep(PostAll(l, <<a, b>>), c)
  BY <1>1, PostAllLast
<1>3. PostAll(l, <<a, b>>) \in Outcomes
  BY <1>1, PostAllType
<1>4. /\ PostAll(l, <<a, b>>).ok <=> Admits(l, a) /\ Admits(Posted(l, a), b)
      /\ PostAll(l, <<a, b>>).ok => PostAll(l, <<a, b>>).ledger = Posted(Posted(l, a), b)
  BY PostAllTwo
<1> QED BY <1>2, <1>3, <1>4, PostStepGoesOn

\* Four entries, as of a swap.
LEMMA PostAllFour ==
    ASSUME NEW l \in Ledgers, NEW a \in Entries, NEW b \in Entries, NEW c \in Entries, NEW d \in Entries
    PROVE  PostAll(l, <<a, b, c, d>>).ok =>
              /\ Admits(l, a)
              /\ Admits(Posted(l, a), b)
              /\ Admits(Posted(Posted(l, a), b), c)
              /\ Admits(Posted(Posted(Posted(l, a), b), c), d)
              /\ PostAll(l, <<a, b, c, d>>).ledger = Posted(Posted(Posted(Posted(l, a), b), c), d)
<1>1. <<a, b, c>> \in Seq(Entries) /\ <<a, b, c, d>> = Append(<<a, b, c>>, d)
  OBVIOUS
<1>2. PostAll(l, <<a, b, c, d>>) = PostStep(PostAll(l, <<a, b, c>>), d)
  BY <1>1, PostAllLast
<1>3. PostAll(l, <<a, b, c>>) \in Outcomes
  BY <1>1, PostAllType
<1>4. /\ PostAll(l, <<a, b, c>>).ok <=> /\ Admits(l, a)
                                       /\ Admits(Posted(l, a), b)
                                       /\ Admits(Posted(Posted(l, a), b), c)
      /\ PostAll(l, <<a, b, c>>).ok =>
            PostAll(l, <<a, b, c>>).ledger = Posted(Posted(Posted(l, a), b), c)
  BY PostAllThree
<1> QED BY <1>2, <1>3, <1>4, PostStepGoesOn

-----------------------------------------------------------------------------
\* What one entry changes: the balance of its wallet, by its amount, and the
\* keys, by its own.
LEMMA PostedChanges ==
    ASSUME NEW l \in Ledgers, NEW e \in Entries
    PROVE  /\ Posted(l, e) \in Ledgers
           /\ Posted(l, e).balance[e.wallet] = l.balance[e.wallet] + e.amount
           /\ \A w \in Wallets \ {e.wallet} : Posted(l, e).balance[w] = l.balance[w]
           /\ Posted(l, e).hold = l.hold
           /\ \A w, ty, r : <<w, ty, r>> \in Posted(l, e).keys <=>
                  \/ <<w, ty, r>> \in l.keys
                  \/ w = e.wallet /\ ty = e.type /\ r = e.ref /\ r # NoRef
<1>1. Posted(l, e) \in Ledgers
  BY PostedIsALedger
<1>2. e.wallet \in Wallets /\ e.amount \in Int /\ l.balance \in [Wallets -> Int]
  BY DEF Entries, Ledgers
<1>3. \A w, ty, r : <<w, ty, r>> \in KeysOf(e) <=>
          w = e.wallet /\ ty = e.type /\ r = e.ref /\ r # NoRef
  BY DEF KeysOf
<1> QED BY <1>1, <1>2, <1>3 DEF Posted

\* What an entry adds to a wallet.
Effect(e, w) == IF e.wallet = w THEN e.amount ELSE 0

\* The balances after one entry, after a transfer, and after the four of a swap.
LEMMA PostedBalances ==
    ASSUME NEW l \in Ledgers, NEW e \in Entries
    PROVE  /\ Posted(l, e) \in Ledgers
           /\ \A w \in Wallets : /\ Posted(l, e).balance[w] = l.balance[w] + Effect(e, w)
                                 /\ l.balance[w] \in Int /\ Effect(e, w) \in Int
<1>1. e.wallet \in Wallets /\ e.amount \in Int /\ l.balance \in [Wallets -> Int]
  BY DEF Entries, Ledgers
<1>2. \A w \in Wallets : l.balance[w] \in Int /\ Effect(e, w) \in Int
  BY <1>1 DEF Effect
<1> QED BY <1>1, <1>2, PostedChanges DEF Effect

\* What two entries change in each wallet.
LEMMA TransferBalances ==
    ASSUME NEW l \in Ledgers, NEW a \in Entries, NEW b \in Entries
    PROVE  /\ Posted(Posted(l, a), b) \in Ledgers
           /\ \A w \in Wallets : /\ Posted(Posted(l, a), b).balance[w] = l.balance[w] + Effect(a, w) + Effect(b, w)
                                 /\ l.balance[w] \in Int /\ Effect(a, w) \in Int /\ Effect(b, w) \in Int
<1>1. /\ Posted(l, a) \in Ledgers
      /\ \A w \in Wallets : /\ Posted(l, a).balance[w] = l.balance[w] + Effect(a, w)
                            /\ l.balance[w] \in Int /\ Effect(a, w) \in Int
  BY PostedBalances
<1>2. PICK m : m = Posted(l, a)
  OBVIOUS
<1>3. /\ Posted(m, b) \in Ledgers
      /\ \A w \in Wallets : Posted(m, b).balance[w] = m.balance[w] + Effect(b, w) /\ Effect(b, w) \in Int
  BY <1>1, <1>2, PostedBalances
<1> QED BY <1>1, <1>2, <1>3

\* What four entries change in each wallet.
LEMMA SwapBalances ==
    ASSUME NEW l \in Ledgers, NEW a \in Entries, NEW b \in Entries, NEW c \in Entries, NEW d \in Entries
    PROVE  /\ Posted(Posted(Posted(Posted(l, a), b), c), d) \in Ledgers
           /\ \A w \in Wallets :
                 /\ Posted(Posted(Posted(Posted(l, a), b), c), d).balance[w]
                       = (l.balance[w] + Effect(a, w) + Effect(b, w)) + Effect(c, w) + Effect(d, w)
                 /\ l.balance[w] \in Int /\ Effect(a, w) \in Int /\ Effect(b, w) \in Int
                 /\ Effect(c, w) \in Int /\ Effect(d, w) \in Int
<1>1. PICK k : k = Posted(Posted(l, a), b)
  OBVIOUS
<1>2. /\ k \in Ledgers
      /\ \A w \in Wallets : /\ k.balance[w] = l.balance[w] + Effect(a, w) + Effect(b, w)
                            /\ l.balance[w] \in Int /\ Effect(a, w) \in Int /\ Effect(b, w) \in Int
  BY <1>1, TransferBalances
<1>3. /\ Posted(Posted(k, c), d) \in Ledgers
      /\ \A w \in Wallets : /\ Posted(Posted(k, c), d).balance[w] = k.balance[w] + Effect(c, w) + Effect(d, w)
                            /\ Effect(c, w) \in Int /\ Effect(d, w) \in Int
  BY <1>2, TransferBalances
<1> QED BY <1>1, <1>2, <1>3

-----------------------------------------------------------------------------
(***************************************************************************)
(* Entries see only the rows of their wallets.                             *)
(***************************************************************************)
\* Two ledgers are the same as far as the wallets of W are concerned.
AgreeOn(l, m, W) ==
    \A w \in W : /\ l.balance[w] = m.balance[w]
                 /\ w \in l.hold <=> w \in m.hold
                 /\ \A ty, r : <<w, ty, r>> \in l.keys <=> <<w, ty, r>> \in m.keys

\* The first n entries of es, posted.
FirstPosted(l, es, n) == PostAll(l, SubSeq(es, 1, n))

\* One entry more.
LEMMA FirstPostedNext ==
    ASSUME NEW l \in Ledgers, NEW es \in Seq(Entries), NEW n \in Nat, n < Len(es)
    PROVE  /\ FirstPosted(l, es, n) \in Outcomes
           /\ es[n + 1] \in Entries /\ n + 1 \in 1..Len(es)
           /\ FirstPosted(l, es, n + 1) = PostStep(FirstPosted(l, es, n), es[n + 1])
<1>1. /\ SubSeq(es, 1, n) \in Seq(Entries)
      /\ es[n + 1] \in Entries /\ n + 1 \in 1..Len(es)
  OBVIOUS
<1>2. SubSeq(es, 1, n + 1) = Append(SubSeq(es, 1, n), es[n + 1])
  <2> DEFINE p == SubSeq(es, 1, n + 1)
             q == Append(SubSeq(es, 1, n), es[n + 1])
  <2>1. p \in Seq(Entries) /\ q \in Seq(Entries) /\ Len(p) = n + 1 /\ Len(q) = n + 1
    OBVIOUS
  <2>2. \A i \in 1..(n + 1) : p[i] = es[i] /\ q[i] = es[i]
    OBVIOUS
  <2>3. \A s, t \in Seq(Entries) :
            Len(s) = Len(t) /\ (\A i \in 1..Len(s) : s[i] = t[i]) => s = t
    OBVIOUS
  <2> HIDE DEF p, q
  <2>4. p = q
    BY <2>1, <2>2, <2>3
  <2> QED BY <2>4 DEF p, q
<1> QED BY <1>1, <1>2, PostAllType, PostAllLast DEF FirstPosted

\* None, and all.
LEMMA FirstPostedEnds ==
    ASSUME NEW l \in Ledgers, NEW es \in Seq(Entries)
    PROVE  /\ FirstPosted(l, es, 0) = Start(l)
           /\ FirstPosted(l, es, Len(es)) = PostAll(l, es)
<1>1. SubSeq(es, 1, 0) = <<>> /\ SubSeq(es, 1, Len(es)) = es
  OBVIOUS
<1> QED BY <1>1, PostAllNone DEF FirstPosted

\* An entry meets the same answer in ledgers that agree on its wallet, and
\* leaves ledgers that agree again; the other wallets it leaves alone.
LEMMA PostedAgrees ==
    ASSUME NEW l \in Ledgers, NEW m \in Ledgers, NEW W \in SUBSET Wallets, AgreeOn(l, m, W),
           NEW e \in Entries, e.wallet \in W
    PROVE  /\ Admits(l, e) <=> Admits(m, e)
           /\ AgreeOn(Posted(l, e), Posted(m, e), W)
           /\ AgreeOn(Posted(l, e), l, Wallets \ W)
<1>1. /\ l.balance[e.wallet] = m.balance[e.wallet]
      /\ e.wallet \in l.hold <=> e.wallet \in m.hold
      /\ KeysOf(e) \cap l.keys = {} <=> KeysOf(e) \cap m.keys = {}
  BY DEF AgreeOn, KeysOf
<1>2. Admits(l, e) <=> Admits(m, e)
  BY <1>1 DEF Admits, HoldPermits, Covers, Fresh
<1>3. \A w \in Wallets : /\ Posted(l, e).balance[w] = l.balance[w] + Effect(e, w)
                         /\ Posted(m, e).balance[w] = m.balance[w] + Effect(e, w)
                         /\ l.balance[w] \in Int
  BY PostedBalances
<1>4. \A w, ty, r :
          /\ <<w, ty, r>> \in Posted(l, e).keys <=>
                 \/ <<w, ty, r>> \in l.keys
                 \/ w = e.wallet /\ ty = e.type /\ r = e.ref /\ r # NoRef
          /\ <<w, ty, r>> \in Posted(m, e).keys <=>
                 \/ <<w, ty, r>> \in m.keys
                 \/ w = e.wallet /\ ty = e.type /\ r = e.ref /\ r # NoRef
  <2>1. ASSUME NEW k \in Ledgers
        PROVE  \A w, ty, r : <<w, ty, r>> \in Posted(k, e).keys <=>
                   \/ <<w, ty, r>> \in k.keys
                   \/ w = e.wallet /\ ty = e.type /\ r = e.ref /\ r # NoRef
    BY PostedChanges
  <2> QED BY <2>1
<1>5. Posted(l, e).hold = l.hold /\ Posted(m, e).hold = m.hold
  BY DEF Posted
<1>6. AgreeOn(Posted(l, e), Posted(m, e), W)
  BY <1>3, <1>4, <1>5 DEF AgreeOn
<1>7. \A w \in Wallets \ W : Posted(l, e).balance[w] = l.balance[w]
  BY <1>3 DEF Effect
<1>8. AgreeOn(Posted(l, e), l, Wallets \ W)
  BY <1>4, <1>5, <1>7 DEF AgreeOn
<1> QED BY <1>2, <1>6, <1>8

\* Entries do the same to two ledgers in W, and nothing elsewhere.
PostsAlike(l, m, es, W) ==
    /\ PostAll(l, es).ok <=> PostAll(m, es).ok
    /\ PostAll(l, es).ok =>
          /\ AgreeOn(PostAll(l, es).ledger, PostAll(m, es).ledger, W)
          /\ AgreeOn(PostAll(l, es).ledger, l, Wallets \ W)
          /\ AgreeOn(PostAll(m, es).ledger, m, Wallets \ W)
          /\ PostAll(l, es).ledger.hold = l.hold
          /\ PostAll(m, es).ledger.hold = m.hold

\* So do entries posted one after the other.
LEMMA PostAllAgrees ==
    ASSUME NEW l \in Ledgers, NEW m \in Ledgers, NEW W \in SUBSET Wallets, AgreeOn(l, m, W),
           NEW es \in Seq(Entries), \A i \in 1..Len(es) : es[i].wallet \in W
    PROVE  PostsAlike(l, m, es, W)
<1> DEFINE A(n) == FirstPosted(l, es, n)
           B(n) == FirstPosted(m, es, n)
           Same(n) == /\ A(n).ok <=> B(n).ok
                      /\ A(n).ok =>
                            /\ AgreeOn(A(n).ledger, B(n).ledger, W)
                            /\ AgreeOn(A(n).ledger, l, Wallets \ W)
                            /\ AgreeOn(B(n).ledger, m, Wallets \ W)
                            /\ A(n).ledger.hold = l.hold
                            /\ B(n).ledger.hold = m.hold
           T == {n \in 0..Len(es) : ~ Same(n)}
<1>1. AgreeOn(m, l, W) /\ AgreeOn(l, l, Wallets \ W) /\ AgreeOn(m, m, Wallets \ W)
  BY DEF AgreeOn
<1>2. Same(0)
  BY <1>1, FirstPostedEnds DEF Start
<1>3. ASSUME NEW n \in Nat, n < Len(es), Same(n)
      PROVE  Same(n + 1)
  <2>1. /\ A(n) \in Outcomes /\ B(n) \in Outcomes
        /\ es[n + 1] \in Entries /\ es[n + 1].wallet \in W
        /\ A(n + 1) = PostStep(A(n), es[n + 1])
        /\ B(n + 1) = PostStep(B(n), es[n + 1])
    BY <1>3, FirstPostedNext
  <2> DEFINE e == es[n + 1]
             a == A(n).ledger
             b == B(n).ledger
  <2>2. a \in Ledgers /\ b \in Ledgers
    BY <2>1 DEF Outcomes
  <2>3. /\ A(n + 1).ok <=> A(n).ok /\ Admits(a, e)
        /\ A(n + 1).ok => A(n + 1).ledger = Posted(a, e)
        /\ B(n + 1).ok <=> B(n).ok /\ Admits(b, e)
        /\ B(n + 1).ok => B(n + 1).ledger = Posted(b, e)
    BY <2>1, PostStepGoesOn
  <2>4. CASE A(n).ok
    <3>1. AgreeOn(a, b, W) /\ AgreeOn(b, a, W) /\ B(n).ok
      BY <1>3, <2>4 DEF AgreeOn
    <3> HIDE DEF e, a, b, A, B
    <3>2. /\ Admits(a, e) <=> Admits(b, e)
          /\ AgreeOn(Posted(a, e), Posted(b, e), W)
          /\ AgreeOn(Posted(a, e), a, Wallets \ W)
          /\ AgreeOn(Posted(b, e), b, Wallets \ W)
      <4>1. e \in Entries /\ e.wallet \in W
        BY <2>1 DEF e
      <4> HIDE DEF e, a, b
      <4>2. /\ Admits(a, e) <=> Admits(b, e)
            /\ AgreeOn(Posted(a, e), Posted(b, e), W)
            /\ AgreeOn(Posted(a, e), a, Wallets \ W)
        BY <2>2, <3>1, <4>1, PostedAgrees
      <4>3. AgreeOn(Posted(b, e), b, Wallets \ W)
        BY <2>2, <3>1, <4>1, PostedAgrees
      <4> QED BY <4>2, <4>3
    <3>3. Posted(a, e).hold = a.hold /\ Posted(b, e).hold = b.hold
      BY DEF Posted
    <3>4. /\ AgreeOn(a, l, Wallets \ W) /\ a.hold = l.hold
          /\ AgreeOn(b, m, Wallets \ W) /\ b.hold = m.hold
      BY <1>3, <2>4 DEF a, b
    <3>5. AgreeOn(Posted(a, e), l, Wallets \ W) /\ AgreeOn(Posted(b, e), m, Wallets \ W)
      BY <3>2, <3>4 DEF AgreeOn
    <3> QED BY <2>3, <2>4, <3>1, <3>2, <3>3, <3>4, <3>5
  <2>5. CASE ~ A(n).ok
    BY <1>3, <2>3, <2>5
  <2> QED BY <2>4, <2>5
<1> HIDE DEF Same
<1>4. ASSUME T # {} PROVE FALSE
  <2>1. T \in SUBSET Nat /\ Len(es) \in Nat
    OBVIOUS
  <2>2. PICK n \in T : \A k \in T : n <= k
    BY <1>4, <2>1, LeastNatural
  <2>3. n \in 0..Len(es) /\ ~ Same(n)
    OBVIOUS
  <2>4. n # 0
    BY <1>2, <2>3
  <2>5. n - 1 \in Nat /\ n - 1 < Len(es) /\ (n - 1) + 1 = n /\ n - 1 \in 0..Len(es)
    BY <2>1, <2>3, <2>4
  <2>6. Same(n - 1)
    BY <2>1, <2>2, <2>3, <2>5
  <2> QED BY <1>3, <2>3, <2>5, <2>6
<1>5. Same(Len(es))
  <2>1. Len(es) \in 0..Len(es)
    OBVIOUS
  <2> QED BY <1>4, <2>1
<1> QED BY <1>5, FirstPostedEnds DEF Same, PostsAlike

-----------------------------------------------------------------------------
\* A finite set in some order: each element once.
LEMMA SetToSeqLists ==
    ASSUME NEW S, IsFiniteSet(S)
    PROVE  /\ SetToSeq(S) \in Seq(S) /\ Len(SetToSeq(S)) = Cardinality(S)
           /\ \A i, j \in 1..Cardinality(S) : SetToSeq(S)[i] = SetToSeq(S)[j] => i = j
           /\ \A x \in S : \E i \in 1..Cardinality(S) : SetToSeq(S)[i] = x
<1> DEFINE n == Cardinality(S)
           q == SetToSeq(S)
<1>1. n \in Nat /\ ExistsBijection(1..n, S)
  BY FS_CardinalityType
<1>2. \E f \in [1..n -> S] : IsInjective(f)
  BY <1>1 DEF ExistsBijection, Bijection, Injection
<1>3. q \in [1..n -> S] /\ IsInjective(q)
  BY <1>2 DEF SetToSeq
<1>4. q \in Injection(1..n, S)
  BY <1>3 DEF Injection
<1>5. IsFiniteSet(1..n) /\ Cardinality(1..n) = n
  <2>1. n = 0 \/ n >= 1
    BY <1>1
  <2>2. 1 \in Int /\ n \in Int
    BY <1>1
  <2> QED BY <1>1, <2>1, <2>2, FS_Interval
<1> HIDE DEF q, n
<1>6. q \in Surjection(1..n, S)
  BY <1>4, <1>5, FS_Injection DEF n
<1>7. q \in Seq(S) /\ Len(q) = n
  BY <1>1, <1>3
<1>8. \A i, j \in 1..n : q[i] = q[j] => i = j
  BY <1>3 DEF IsInjective
<1>9. \A x \in S : \E i \in 1..n : q[i] = x
  BY <1>6 DEF Surjection
<1> QED BY <1>7, <1>8, <1>9 DEF q, n

\* Entries to different wallets do not get in each other's way: each changes
\* its own by its amount.
LEMMA PostAllDistinct ==
    ASSUME NEW l \in Ledgers, NEW es \in Seq(Entries), PostAll(l, es).ok,
           \A i, j \in 1..Len(es) : es[i].wallet = es[j].wallet => i = j
    PROVE  /\ PostAll(l, es).ledger \in Ledgers
           /\ \A i \in 1..Len(es) :
                 /\ PostAll(l, es).ledger.balance[es[i].wallet] = l.balance[es[i].wallet] + es[i].amount
                 /\ Fresh(l, es[i])
           /\ \A w \in Wallets : (\A i \in 1..Len(es) : es[i].wallet # w) =>
                 PostAll(l, es).ledger.balance[w] = l.balance[w]
           /\ \A key : key \in PostAll(l, es).ledger.keys <=>
                 key \in l.keys \/ \E i \in 1..Len(es) : key \in KeysOf(es[i])
<1> DEFINE A(n) == FirstPosted(l, es, n)
           Changed(n) ==
               A(n).ok =>
                 /\ A(n).ledger \in Ledgers
                 /\ \A i \in 1..n :
                       /\ A(n).ledger.balance[es[i].wallet] = l.balance[es[i].wallet] + es[i].amount
                       /\ Fresh(l, es[i])
                 /\ \A w \in Wallets : (\A i \in 1..n : es[i].wallet # w) =>
                       A(n).ledger.balance[w] = l.balance[w]
                 /\ \A key : key \in A(n).ledger.keys <=>
                       key \in l.keys \/ \E i \in 1..n : key \in KeysOf(es[i])
           T == {n \in 0..Len(es) : ~ Changed(n)}
<1>1. Changed(0)
  <2>1. A(0).ledger = l
    BY FirstPostedEnds DEF Start
  <2>2. 1..0 = {}
    OBVIOUS
  <2> QED BY <2>1, <2>2
<1>2. ASSUME NEW n \in Nat, n < Len(es), Changed(n)
      PROVE  Changed(n + 1)
  <2> DEFINE e == es[n + 1]
             m == A(n).ledger
             k == A(n + 1).ledger
  <2>1. /\ A(n) \in Outcomes /\ e \in Entries /\ n + 1 \in 1..Len(es)
        /\ A(n + 1) = PostStep(A(n), e)
    BY <1>2, FirstPostedNext
  <2>2. /\ A(n + 1).ok <=> A(n).ok /\ Admits(m, e)
        /\ A(n + 1).ok => k = Posted(m, e)
    BY <2>1, PostStepGoesOn
  <2> SUFFICES ASSUME A(n + 1).ok
               PROVE  /\ k \in Ledgers
                      /\ \A i \in 1..(n + 1) :
                            /\ k.balance[es[i].wallet] = l.balance[es[i].wallet] + es[i].amount
                            /\ Fresh(l, es[i])
                      /\ \A w \in Wallets : (\A i \in 1..(n + 1) : es[i].wallet # w) =>
                            k.balance[w] = l.balance[w]
                      /\ \A key : key \in k.keys <=>
                            key \in l.keys \/ \E i \in 1..(n + 1) : key \in KeysOf(es[i])
    OBVIOUS
  <2>3. /\ m \in Ledgers
        /\ \A i \in 1..n : /\ m.balance[es[i].wallet] = l.balance[es[i].wallet] + es[i].amount
                           /\ Fresh(l, es[i])
        /\ \A w \in Wallets : (\A i \in 1..n : es[i].wallet # w) => m.balance[w] = l.balance[w]
        /\ \A key : key \in m.keys <=> key \in l.keys \/ \E i \in 1..n : key \in KeysOf(es[i])
    BY <1>2, <2>2
  <2>4. k = Posted(m, e) /\ Admits(m, e)
    BY <2>2
  <2>5. /\ \A i \in 1..(n + 1) : i \in 1..n \/ i = n + 1
        /\ \A i \in 1..n : i \in 1..(n + 1) /\ i \in 1..Len(es) /\ i # n + 1
        /\ n + 1 \in 1..(n + 1)
        /\ \A i \in 1..Len(es) : es[i] \in Entries
    BY <1>2
  <2>6. \A i \in 1..n : es[i].wallet # e.wallet /\ es[i].wallet \in Wallets /\ e.wallet \in Wallets
    BY <2>1, <2>5 DEF Entries
  <2>w. e.wallet \in Wallets
    BY <2>1 DEF Entries
  <2> HIDE DEF e, m, k, A
  <2>7. /\ k \in Ledgers
        /\ k.balance[e.wallet] = m.balance[e.wallet] + e.amount
        /\ \A w \in Wallets \ {e.wallet} : k.balance[w] = m.balance[w]
    <3>1. e \in Entries /\ m \in Ledgers /\ Admits(m, e)
      BY <2>1, <2>3, <2>4
    <3> QED BY <2>4, <3>1, PostedChanges
  <2>k. \A key : key \in k.keys <=> key \in m.keys \/ key \in KeysOf(e)
    BY <2>4 DEF Posted
  <2>8. Fresh(l, e)
    <3>1. ASSUME NEW x \in KeysOf(e), x \in l.keys PROVE FALSE
      <4>1. x = <<e.wallet, e.type, e.ref>>
        BY <3>1 DEF KeysOf
      <4>2. x \in m.keys
        BY <2>3, <3>1, <4>1
      <4> QED BY <2>4, <3>1, <4>2 DEF Admits, Fresh
    <3> QED BY <3>1 DEF Fresh
  <2>9. ASSUME NEW i \in 1..(n + 1)
        PROVE  /\ k.balance[es[i].wallet] = l.balance[es[i].wallet] + es[i].amount
               /\ Fresh(l, es[i])
    <3>1. CASE i \in 1..n
      BY <2>3, <2>6, <2>7, <3>1
    <3>2. CASE i = n + 1
      <4>1. m.balance[e.wallet] = l.balance[e.wallet]
        BY <2>3, <2>6, <2>w
      <4> QED BY <2>7, <2>8, <3>2, <4>1 DEF e
    <3> QED BY <2>5, <3>1, <3>2
  <2>10. ASSUME NEW w \in Wallets, \A i \in 1..(n + 1) : es[i].wallet # w
         PROVE  k.balance[w] = l.balance[w]
    <3>1. w # e.wallet /\ \A i \in 1..n : es[i].wallet # w
      BY <2>5, <2>10 DEF e
    <3> QED BY <2>3, <2>7, <3>1
  <2>11. \A key : key \in k.keys <=> key \in l.keys \/ \E i \in 1..(n + 1) : key \in KeysOf(es[i])
    <3>1. KeysOf(e) = KeysOf(es[n + 1])
      BY DEF e
    <3> QED BY <2>3, <2>5, <2>k, <3>1, Zenon
  <2> QED BY <2>7, <2>9, <2>10, <2>11
<1> HIDE DEF Changed
<1>3. ASSUME T # {} PROVE FALSE
  <2>1. T \in SUBSET Nat /\ Len(es) \in Nat
    OBVIOUS
  <2>2. PICK n \in T : \A k \in T : n <= k
    BY <1>3, <2>1, LeastNatural
  <2>3. n \in 0..Len(es) /\ ~ Changed(n)
    OBVIOUS
  <2>4. n # 0
    BY <1>1, <2>3
  <2>5. n - 1 \in Nat /\ n - 1 < Len(es) /\ (n - 1) + 1 = n /\ n - 1 \in 0..Len(es)
    BY <2>1, <2>3, <2>4
  <2>6. Changed(n - 1)
    BY <2>1, <2>2, <2>3, <2>5
  <2> QED BY <1>2, <2>3, <2>5, <2>6
<1>4. Changed(Len(es))
  <2>1. Len(es) \in 0..Len(es)
    OBVIOUS
  <2> QED BY <1>3, <2>1
<1>5. A(Len(es)) = PostAll(l, es)
  BY FirstPostedEnds
<1> QED BY <1>4, <1>5 DEF Changed
=============================================================================
