------------------------------ MODULE DataLemmas ------------------------------
(***************************************************************************)
(* Facts on data that the proofs of several modules rest on: induction     *)
(* over the naturals, and sums over finite sets.                           *)
(***************************************************************************)
EXTENDS Integers, FiniteSets, Functions, FiniteSetTheorems, WellFoundedInduction, TLAPS

(***************************************************************************)
(* Induction, as it can be used here: a set of naturals that is not empty  *)
(* has a least.                                                            *)
(***************************************************************************)
LEMMA LeastNatural ==
    ASSUME NEW S \in SUBSET Nat, S # {}
    PROVE  \E n \in S : \A k \in S : n <= k
  <1>1. PICK n \in S : \A k \in S : <<k, n>> \notin OpToRel(<, Nat)
    BY NatLessThanWellFounded, WFMin, Zenon
  <1>2. \A k \in S : k < n => <<k, n>> \in OpToRel(<, Nat)
    BY DEF OpToRel
  <1>3. \A k \in S : ~(k < n)
    BY <1>1, <1>2, Zenon
  <1>4. QED
    BY <1>3

LEMMA Induction ==
    ASSUME NEW S \in SUBSET Nat, 0 \in S, \A n \in Nat : n \in S => n + 1 \in S
    PROVE  S = Nat
  <1> SUFFICES ASSUME Nat \ S # {} PROVE FALSE
    OBVIOUS
  <1>1. PICK n \in Nat \ S : \A k \in Nat \ S : n <= k
    BY LeastNatural
  <1>2. n # 0
    BY <1>1
  <1>3. n - 1 \in Nat /\ n - 1 < n
    BY <1>1, <1>2
  <1>4. n - 1 \in S
    BY <1>1, <1>3
  <1>5. (n - 1) + 1 \in S
    BY <1>3, <1>4
  <1>6. QED
    BY <1>1, <1>5

(* Of a finite set that is not empty, one element is taken away.            *)
LEMMA LessOne ==
    ASSUME NEW S, IsFiniteSet(S), NEW x \in S, NEW n \in Nat, Cardinality(S) = n + 1
    PROVE  IsFiniteSet(S \ {x}) /\ Cardinality(S \ {x}) = n
  BY FS_RemoveElement

LEMMA HasOne ==
    ASSUME NEW S, NEW n \in Nat, Cardinality(S) = n + 1
    PROVE  S # {}
  <1>1. Cardinality({}) = 0
    BY FS_EmptySet
  <1>2. QED
    BY <1>1

(***************************************************************************)
(* Sums of a function over a finite set, which the library defines by      *)
(* recursion on the subsets.                                               *)
(***************************************************************************)
OneOf(S) == CHOOSE x \in S : TRUE

SumsOn(it, fun, Sets) ==
    it = [s \in Sets |-> IF s = {} THEN 0 ELSE fun[OneOf(s)] + it[s \ {OneOf(s)}]]

UpTo(S, n) == {s \in SUBSET S : Cardinality(s) <= n}

LEMMA SumsExist ==
    ASSUME NEW fun, NEW S, IsFiniteSet(S)
    PROVE  \E it : SumsOn(it, fun, SUBSET S)
  <1> DEFINE P == {n \in Nat : \E it : SumsOn(it, fun, UpTo(S, n))}
  <1>1. \A s \in SUBSET S : IsFiniteSet(s) /\ Cardinality(s) \in Nat
    BY FS_Subset, FS_CardinalityType
  <1>2. 0 \in P
    <2> DEFINE it == [s \in UpTo(S, 0) |-> 0]
    <2>1. \A s \in UpTo(S, 0) : s = {}
      BY <1>1, FS_EmptySet DEF UpTo
    <2>2. SumsOn(it, fun, UpTo(S, 0))
      BY <2>1 DEF SumsOn
    <2>3. QED
      BY <2>2
  <1>3. ASSUME NEW n \in Nat, n \in P PROVE n + 1 \in P
    <2>1. PICK it : SumsOn(it, fun, UpTo(S, n))
      BY <1>3
    <2> DEFINE more == [s \in UpTo(S, n + 1) |->
                          IF s = {} THEN 0 ELSE fun[OneOf(s)] + it[s \ {OneOf(s)}]]
    <2>2. ASSUME NEW s \in UpTo(S, n) PROVE more[s] = it[s]
      <3>1. s \in UpTo(S, n + 1)
        BY <1>1 DEF UpTo
      <3>2. QED
        BY <2>1, <3>1 DEF SumsOn
    <2>3. ASSUME NEW s \in UpTo(S, n + 1), s # {} PROVE s \ {OneOf(s)} \in UpTo(S, n)
      <3>1. OneOf(s) \in s
        BY <2>3 DEF OneOf
      <3>2. IsFiniteSet(s) /\ s \in SUBSET S /\ Cardinality(s) <= n + 1
        BY <1>1 DEF UpTo
      <3>3. Cardinality(s \ {OneOf(s)}) = Cardinality(s) - 1
        BY <3>1, <3>2, FS_RemoveElement
      <3>4. QED
        BY <1>1, <3>2, <3>3 DEF UpTo
    <2> HIDE DEF more
    <2>4. more = [s \in UpTo(S, n + 1) |->
                    IF s = {} THEN 0 ELSE fun[OneOf(s)] + more[s \ {OneOf(s)}]]
      BY <2>2, <2>3 DEF more
    <2>5. SumsOn(more, fun, UpTo(S, n + 1))
      BY <2>4 DEF SumsOn
    <2>6. QED
      BY <2>5
  <1>4. P = Nat
    <2> HIDE DEF P
    <2>1. P \in SUBSET Nat
      BY DEF P
    <2>2. QED
      BY <1>2, <1>3, <2>1, Induction
  <1>5. Cardinality(S) \in P
    BY <1>1, <1>4
  <1>6. UpTo(S, Cardinality(S)) = SUBSET S
    BY <1>1, FS_Subset DEF UpTo
  <1>7. QED
    BY <1>5, <1>6

\* A sum of a subset is the same whatever set it is taken from.
LEMMA SumsAgree ==
    ASSUME NEW fun, NEW S, IsFiniteSet(S), NEW T \in SUBSET S, NEW f, NEW g,
           SumsOn(f, fun, SUBSET S), SumsOn(g, fun, SUBSET T)
    PROVE  f[T] = g[T]
  <1> DEFINE P == {n \in Nat : \A s \in SUBSET T : Cardinality(s) = n => f[s] = g[s]}
  <1>1. \A s \in SUBSET T : IsFiniteSet(s) /\ Cardinality(s) \in Nat
    BY FS_Subset, FS_CardinalityType
  <1>2. 0 \in P
    <2> SUFFICES ASSUME NEW s \in SUBSET T, Cardinality(s) = 0 PROVE f[s] = g[s]
      OBVIOUS
    <2>1. s = {}
      BY <1>1, FS_EmptySet
    <2>2. QED
      BY <2>1 DEF SumsOn
  <1>3. ASSUME NEW n \in Nat, n \in P PROVE n + 1 \in P
    <2> SUFFICES ASSUME NEW s \in SUBSET T, Cardinality(s) = n + 1 PROVE f[s] = g[s]
      OBVIOUS
    <2>1. s # {}
      BY HasOne
    <2>2. OneOf(s) \in s
      BY <2>1 DEF OneOf
    <2> DEFINE rest == s \ {OneOf(s)}
    <2>3. Cardinality(rest) = n
      BY <1>1, <2>2, LessOne
    <2>4. f[rest] = g[rest]
      BY <1>3, <2>3
    <2>5. f[s] = fun[OneOf(s)] + f[rest] /\ g[s] = fun[OneOf(s)] + g[rest]
      BY <2>1 DEF SumsOn
    <2>6. QED
      BY <2>4, <2>5
  <1>4. P = Nat
    <2> HIDE DEF P
    <2>1. P \in SUBSET Nat
      BY DEF P
    <2>2. QED
      BY <1>2, <1>3, <2>1, Induction
  <1>5. Cardinality(T) \in P
    BY <1>1, <1>4
  <1>6. QED
    BY <1>5

LEMMA SumIs ==
    ASSUME NEW fun, NEW S, IsFiniteSet(S)
    PROVE  \E it : SumsOn(it, fun, SUBSET S) /\ SumFunctionOnSet(fun, S) = it[S]
  <1> DEFINE it == CHOOSE it : SumsOn(it, fun, SUBSET S)
  <1>1. SumsOn(it, fun, SUBSET S)
    BY SumsExist
  <1>2. SumFunctionOnSet(fun, S) = it[S]
    BY DEF SumFunctionOnSet, FoldFunctionOnSet, MapThenFoldSet, SumsOn, OneOf
  <1>3. QED
    BY <1>1, <1>2

LEMMA SumEmpty == ASSUME NEW fun PROVE SumFunctionOnSet(fun, {}) = 0
  <1>1. PICK it : SumsOn(it, fun, SUBSET {}) /\ SumFunctionOnSet(fun, {}) = it[{}]
    BY SumIs, FS_EmptySet
  <1>2. QED
    BY <1>1 DEF SumsOn

LEMMA SumOneOf ==
    ASSUME NEW fun, NEW S, IsFiniteSet(S), S # {}
    PROVE  /\ OneOf(S) \in S
           /\ SumFunctionOnSet(fun, S) = fun[OneOf(S)] + SumFunctionOnSet(fun, S \ {OneOf(S)})
  <1> DEFINE rest == S \ {OneOf(S)}
  <1>1. OneOf(S) \in S
    BY DEF OneOf
  <1>2. PICK f : SumsOn(f, fun, SUBSET S) /\ SumFunctionOnSet(fun, S) = f[S]
    BY SumIs
  <1>3. IsFiniteSet(rest) /\ rest \in SUBSET S
    BY FS_RemoveElement
  <1>4. PICK g : SumsOn(g, fun, SUBSET rest) /\ SumFunctionOnSet(fun, rest) = g[rest]
    BY <1>3, SumIs
  <1>5. f[rest] = g[rest]
    BY <1>2, <1>3, <1>4, SumsAgree
  <1>6. f[S] = fun[OneOf(S)] + f[rest]
    BY <1>2 DEF SumsOn
  <1>7. QED
    BY <1>1, <1>2, <1>4, <1>5, <1>6

(***************************************************************************)
(* What the proofs use. The summands are integers.                         *)
(***************************************************************************)
LEMMA SumAdds ==
    ASSUME NEW S, IsFiniteSet(S), NEW fun, \A x \in S : fun[x] \in Int
    PROVE  /\ SumFunctionOnSet(fun, S) \in Int
           /\ \A x \in S : SumFunctionOnSet(fun, S) = fun[x] + SumFunctionOnSet(fun, S \ {x})
  <1> DEFINE Total(T) == SumFunctionOnSet(fun, T)
             Good(T) == Total(T) \in Int /\ \A x \in T : Total(T) = fun[x] + Total(T \ {x})
             P == {n \in Nat : \A T \in SUBSET S : Cardinality(T) <= n => Good(T)}
  <1>1. \A T \in SUBSET S : IsFiniteSet(T) /\ Cardinality(T) \in Nat
    BY FS_Subset, FS_CardinalityType
  <1>2. Good({})
    BY SumEmpty
  <1> HIDE DEF Total
  <1>3. 0 \in P
    <2> SUFFICES ASSUME NEW T \in SUBSET S, Cardinality(T) <= 0 PROVE Good(T)
      OBVIOUS
    <2>1. T = {}
      BY <1>1, FS_EmptySet
    <2>2. QED
      BY <1>2, <2>1
  <1>4. ASSUME NEW n \in Nat, n \in P PROVE n + 1 \in P
    <2> SUFFICES ASSUME NEW T \in SUBSET S, Cardinality(T) <= n + 1, T # {} PROVE Good(T)
      BY <1>2
    <2> DEFINE c == OneOf(T)
    <2>1. IsFiniteSet(T)
      BY <1>1
    <2>2. c \in T /\ Total(T) = fun[c] + Total(T \ {c})
      BY <2>1, SumOneOf DEF Total
    <2> HIDE DEF c
    <2>3. ASSUME NEW x \in T PROVE Good(T \ {x})
      <3>1. Cardinality(T \ {x}) = Cardinality(T) - 1
        BY <2>1, FS_RemoveElement
      <3>2. Cardinality(T \ {x}) <= n
        BY <1>1, <3>1
      <3>3. QED
        BY <1>4, <3>2
    <2>4. Total(T) \in Int
      BY <2>2, <2>3
    <2>5. ASSUME NEW x \in T PROVE Total(T) = fun[x] + Total(T \ {x})
      <3>1. CASE x = c
        BY <2>2, <3>1
      <3>2. CASE x # c
        <4> DEFINE rest == (T \ {x}) \ {c}
        <4>1. rest = (T \ {c}) \ {x}
          OBVIOUS
        <4>2. x \in T \ {c} /\ c \in T \ {x}
          BY <2>2, <3>2
        <4>3. Total(T \ {c}) = fun[x] + Total(rest)
          BY <2>2, <2>3, <4>1, <4>2
        <4>4. Total(T \ {x}) = fun[c] + Total(rest)
          BY <2>3, <4>2
        <4>5. Total(rest) \in Int
          <5>1. Cardinality(T \ {x}) = Cardinality(T) - 1 /\ IsFiniteSet(T \ {x})
            BY <2>1, FS_RemoveElement
          <5>2. Cardinality(rest) = Cardinality(T \ {x}) - 1
            BY <4>2, <5>1, FS_RemoveElement
          <5>3. Cardinality(rest) <= n /\ rest \in SUBSET S
            BY <1>1, <5>1, <5>2
          <5>4. QED
            BY <1>4, <5>3
        <4> HIDE DEF rest
        <4>6. fun[x] \in Int /\ fun[c] \in Int
          BY <2>2
        <4>7. QED
          BY <2>2, <4>3, <4>4, <4>5, <4>6
      <3>3. QED
        BY <3>1, <3>2
    <2>6. QED
      BY <2>4, <2>5
  <1>5. P = Nat
    <2> HIDE DEF P
    <2>1. P \in SUBSET Nat
      BY DEF P
    <2>2. QED
      BY <1>3, <1>4, <2>1, Induction
  <1>6. Cardinality(S) \in Nat /\ Cardinality(S) \in P
    BY <1>1, <1>5
  <1>7. Good(S)
    BY <1>6
  <1>8. QED
    BY <1>7 DEF Total

(* One more summand.                                                        *)
LEMMA SumWith ==
    ASSUME NEW S, IsFiniteSet(S), NEW x, x \notin S, NEW fun,
           \A y \in S \union {x} : fun[y] \in Int
    PROVE  SumFunctionOnSet(fun, S \union {x}) = SumFunctionOnSet(fun, S) + fun[x]
  <1>1. IsFiniteSet(S \union {x}) /\ (S \union {x}) \ {x} = S
    BY FS_AddElement
  <1>2. SumFunctionOnSet(fun, S \union {x}) = fun[x] + SumFunctionOnSet(fun, S)
    BY <1>1, SumAdds
  <1>3. SumFunctionOnSet(fun, S) \in Int /\ fun[x] \in Int
    BY SumAdds
  <1>4. QED
    BY <1>2, <1>3

(* Sums of functions that agree.                                            *)
LEMMA SumSame ==
    ASSUME NEW S, IsFiniteSet(S), NEW f, NEW g, \A x \in S : f[x] = g[x]
    PROVE  SumFunctionOnSet(f, S) = SumFunctionOnSet(g, S)
  <1> DEFINE Same(T) == SumFunctionOnSet(f, T) = SumFunctionOnSet(g, T)
             P == {n \in Nat : \A T \in SUBSET S : Cardinality(T) = n => Same(T)}
  <1>1. \A T \in SUBSET S : IsFiniteSet(T) /\ Cardinality(T) \in Nat
    BY FS_Subset, FS_CardinalityType
  <1>2. 0 \in P
    <2> SUFFICES ASSUME NEW T \in SUBSET S, Cardinality(T) = 0 PROVE Same(T)
      OBVIOUS
    <2>1. T = {}
      BY <1>1, FS_EmptySet
    <2>2. QED
      BY <2>1, SumEmpty
  <1>3. ASSUME NEW n \in Nat, n \in P PROVE n + 1 \in P
    <2> SUFFICES ASSUME NEW T \in SUBSET S, Cardinality(T) = n + 1 PROVE Same(T)
      OBVIOUS
    <2> DEFINE rest == T \ {OneOf(T)}
    <2>1. T # {}
      BY HasOne
    <2>2. /\ OneOf(T) \in T
          /\ SumFunctionOnSet(f, T) = f[OneOf(T)] + SumFunctionOnSet(f, rest)
          /\ SumFunctionOnSet(g, T) = g[OneOf(T)] + SumFunctionOnSet(g, rest)
      BY <1>1, <2>1, SumOneOf
    <2>3. Cardinality(rest) = n
      BY <1>1, <2>2, LessOne
    <2>4. Same(rest)
      BY <1>3, <2>3
    <2>5. QED
      BY <2>2, <2>4
  <1>4. P = Nat
    <2> HIDE DEF P
    <2>1. P \in SUBSET Nat
      BY DEF P
    <2>2. QED
      BY <1>2, <1>3, <2>1, Induction
  <1>5. Cardinality(S) \in P
    BY <1>1, <1>4
  <1>6. QED
    BY <1>5

(***************************************************************************)
(* The same for a function summed over its domain.                         *)
(***************************************************************************)
LEMMA TotalType ==
    ASSUME NEW S, IsFiniteSet(S), NEW f \in [S -> Int]
    PROVE  SumFunction(f) \in Int
  BY SumAdds DEF SumFunction

LEMMA TotalEmpty == ASSUME NEW f, DOMAIN f = {} PROVE SumFunction(f) = 0
  BY SumEmpty DEF SumFunction

\* One more summand.
LEMMA TotalWith ==
    ASSUME NEW S, IsFiniteSet(S), NEW x, x \notin S, NEW f \in [S -> Int],
           NEW g \in [S \union {x} -> Int], \A y \in S : g[y] = f[y]
    PROVE  SumFunction(g) = SumFunction(f) + g[x]
  <1>1. SumFunction(g) = SumFunctionOnSet(g, S) + g[x]
    BY SumWith DEF SumFunction
  <1>2. SumFunctionOnSet(f, S) = SumFunctionOnSet(g, S)
    BY SumSame, \A y \in S : f[y] = g[y]
  <1>3. QED
    BY <1>1, <1>2 DEF SumFunction

\* One summand is another.
LEMMA TotalMoves ==
    ASSUME NEW S, IsFiniteSet(S), NEW x \in S, NEW f \in [S -> Int],
           NEW g \in [S -> Int], \A y \in S \ {x} : g[y] = f[y]
    PROVE  SumFunction(g) = SumFunction(f) + g[x] - f[x]
  <1> DEFINE rest == S \ {x}
  <1>1. IsFiniteSet(rest) /\ rest \in SUBSET S
    BY FS_Subset
  <1>2. SumFunctionOnSet(f, rest) = SumFunctionOnSet(g, rest)
    BY SumSame, <1>1, \A y \in rest : f[y] = g[y]
  <1>3. SumFunctionOnSet(f, rest) \in Int
    BY SumAdds, <1>1
  <1>4. SumFunction(g) = g[x] + SumFunctionOnSet(g, rest)
    BY SumAdds DEF SumFunction
  <1>5. SumFunction(f) = f[x] + SumFunctionOnSet(f, rest)
    BY SumAdds DEF SumFunction
  <1> HIDE DEF rest
  <1>6. QED
    BY <1>2, <1>3, <1>4, <1>5


LEMMA TotalZero ==
    ASSUME NEW S, IsFiniteSet(S)
    PROVE  SumFunction([x \in S |-> 0]) = 0
  <1> DEFINE none == [x \in S |-> 0]
             P == {n \in Nat : \A T \in SUBSET S : Cardinality(T) = n => SumFunctionOnSet(none, T) = 0}
  <1>1. \A T \in SUBSET S : IsFiniteSet(T) /\ Cardinality(T) \in Nat
    BY FS_Subset, FS_CardinalityType
  <1>2. 0 \in P
    <2>1. \A T \in SUBSET S : Cardinality(T) = 0 => T = {}
      BY <1>1, FS_EmptySet
    <2>2. QED
      BY <2>1, SumEmpty
  <1>3. ASSUME NEW n \in Nat, n \in P
        PROVE  n + 1 \in P
    <2> SUFFICES ASSUME NEW T \in SUBSET S, Cardinality(T) = n + 1
                 PROVE  SumFunctionOnSet(none, T) = 0
      OBVIOUS
    <2>1. PICK x \in T : TRUE
      BY HasOne
    <2>2. IsFiniteSet(T) /\ Cardinality(T \ {x}) = n
      BY <1>1, LessOne
    <2>3. SumFunctionOnSet(none, T \ {x}) = 0
      BY <1>3, <2>2
    <2>4. SumFunctionOnSet(none, T) = none[x] + SumFunctionOnSet(none, T \ {x})
      BY <2>2, SumAdds, \A y \in T : none[y] \in Int
    <2>5. none[x] = 0
      OBVIOUS
    <2>6. QED
      BY <2>3, <2>4, <2>5
  <1> HIDE DEF P
  <1>4. P \in SUBSET Nat
    BY DEF P
  <1>5. P = Nat
    BY <1>2, <1>3, <1>4, Induction
  <1> USE DEF P
  <1>6. SumFunctionOnSet(none, S) = 0
    BY <1>1, <1>5
  <1>7. QED
    BY <1>6 DEF SumFunction


\* Every summand grows by c times another.
LEMMA TotalScales ==
    ASSUME NEW S, IsFiniteSet(S), NEW c \in Int, NEW f \in [S -> Int], NEW g \in [S -> Int],
           NEW h \in [S -> Int], \A x \in S : h[x] = f[x] + g[x] * c
    PROVE  SumFunction(h) = SumFunction(f) + SumFunction(g) * c
  <1> DEFINE Sum(u, T) == SumFunctionOnSet(u, T)
             Scales(T) == Sum(h, T) = Sum(f, T) + Sum(g, T) * c
             P == {n \in Nat : \A T \in SUBSET S : Cardinality(T) = n => Scales(T)}
  <1>1. \A T \in SUBSET S : IsFiniteSet(T) /\ Cardinality(T) \in Nat
    BY FS_Subset, FS_CardinalityType
  <1>2. 0 \in P
    <2> SUFFICES ASSUME NEW T \in SUBSET S, Cardinality(T) = 0 PROVE Scales(T)
      OBVIOUS
    <2>1. T = {}
      BY <1>1, FS_EmptySet
    <2>2. Sum(h, T) = 0 /\ Sum(f, T) = 0 /\ Sum(g, T) = 0
      BY <2>1, SumEmpty
    <2> HIDE DEF Sum
    <2>3. QED
      BY <2>2
  <1>3. ASSUME NEW n \in Nat, n \in P
        PROVE  n + 1 \in P
    <2> SUFFICES ASSUME NEW T \in SUBSET S, Cardinality(T) = n + 1
                 PROVE  Scales(T)
      OBVIOUS
    <2>1. PICK x \in T : TRUE
      BY HasOne
    <2> DEFINE rest == T \ {x}
    <2>2. IsFiniteSet(T) /\ IsFiniteSet(rest) /\ Cardinality(rest) = n
      BY <1>1, LessOne
    <2>3. Scales(rest)
      BY <1>3, <2>2
    <2>4. /\ Sum(h, T) = h[x] + Sum(h, rest)
          /\ Sum(f, T) = f[x] + Sum(f, rest)
          /\ Sum(g, T) = g[x] + Sum(g, rest)
      <3>1. \A y \in T : h[y] \in Int /\ f[y] \in Int /\ g[y] \in Int
        OBVIOUS
      <3>2. QED
        BY <2>2, <3>1, SumAdds
    <2>5. Sum(f, rest) \in Int /\ Sum(g, rest) \in Int
      <3>1. \A y \in rest : f[y] \in Int /\ g[y] \in Int
        OBVIOUS
      <3>2. QED
        BY <2>2, <3>1, SumAdds
    <2>6. h[x] = f[x] + g[x] * c /\ f[x] \in Int /\ g[x] \in Int
      OBVIOUS
    <2> HIDE DEF Sum, rest
    <2>7. (g[x] + Sum(g, rest)) * c = g[x] * c + Sum(g, rest) * c
      BY <2>5, <2>6
    <2>8. g[x] * c \in Int /\ Sum(g, rest) * c \in Int
      BY <2>5, <2>6
    <2>9. QED
      BY <2>3, <2>4, <2>5, <2>6, <2>7, <2>8
  <1> HIDE DEF P
  <1>4. P \in SUBSET Nat
    BY DEF P
  <1>5. P = Nat
    BY <1>2, <1>3, <1>4, Induction
  <1> USE DEF P
  <1>6. Scales(S)
    BY <1>1, <1>5
  <1>7. DOMAIN h = S /\ DOMAIN f = S /\ DOMAIN g = S
    OBVIOUS
  <1>8. QED
    BY <1>6, <1>7 DEF SumFunction

\* A sum of naturals is one.
LEMMA TotalNatural ==
    ASSUME NEW S, IsFiniteSet(S), NEW f \in [S -> Nat]
    PROVE  SumFunction(f) \in Nat
  <1> DEFINE Sum(T) == SumFunctionOnSet(f, T)
             P == {n \in Nat : \A T \in SUBSET S : Cardinality(T) = n => Sum(T) \in Nat}
  <1>1. \A T \in SUBSET S : IsFiniteSet(T) /\ Cardinality(T) \in Nat
    BY FS_Subset, FS_CardinalityType
  <1>2. 0 \in P
    <2>1. \A T \in SUBSET S : Cardinality(T) = 0 => T = {}
      BY <1>1, FS_EmptySet
    <2>2. QED
      BY <2>1, SumEmpty
  <1>3. ASSUME NEW n \in Nat, n \in P
        PROVE  n + 1 \in P
    <2> SUFFICES ASSUME NEW T \in SUBSET S, Cardinality(T) = n + 1
                 PROVE  Sum(T) \in Nat
      OBVIOUS
    <2>1. PICK x \in T : TRUE
      BY HasOne
    <2>2. IsFiniteSet(T) /\ Cardinality(T \ {x}) = n
      BY <1>1, LessOne
    <2>3. Sum(T \ {x}) \in Nat
      BY <1>3, <2>2
    <2>4. Sum(T) = f[x] + Sum(T \ {x})
      BY <2>2, SumAdds, \A y \in T : f[y] \in Int
    <2>5. f[x] \in Nat
      OBVIOUS
    <2> HIDE DEF Sum
    <2>6. QED
      BY <2>3, <2>4, <2>5
  <1> HIDE DEF P
  <1>4. P \in SUBSET Nat
    BY DEF P
  <1>5. P = Nat
    BY <1>2, <1>3, <1>4, Induction
  <1> USE DEF P
  <1>6. Sum(S) \in Nat
    BY <1>1, <1>5
  <1>7. QED
    BY <1>6 DEF SumFunction
=============================================================================
