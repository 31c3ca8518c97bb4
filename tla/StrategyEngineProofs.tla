------------------------ MODULE StrategyEngineProofs ------------------------
(***************************************************************************)
(* Theorems about StrategyEngine, for all assets, prices, windows and      *)
(* bounds: no job on the strand overtakes another; the trackers, which are *)
(* told of one sample at a time, answer what the samples say; the order is *)
(* reached for the right markets; and the histograms agree.                *)
(*                                                                         *)
(* The operators of the model are defined by recursion over sequences:     *)
(* what they do when an element comes or goes is proved from Recursion and *)
(* UpTo, induction over the numbers up to n with sets in place of          *)
(* predicates.                                                             *)
(***************************************************************************)
EXTENDS StrategyEngine, SequenceTheorems, TLAPS

FS == INSTANCE FiniteSetTheorems

-----------------------------------------------------------------------------
(* Induction, with sets for predicates, and definitions by recursion.      *)

\* A set of numbers has a least one.
LEMMA LeastNat ==
  ASSUME NEW T \in SUBSET Nat, T # {}
  PROVE  \E x \in T : \A y \in T : x <= y
<1>. DEFINE R == FS!OpToRel(<, Nat)
<1>1. FS!IsWellFoundedOn(R, Nat)
  BY FS!NatLessThanWellFounded
<1>2. \A x, y \in Nat : <<y, x>> \in R <=> y < x
  <2>. TAKE x, y \in Nat
  <2>1. <<y, x>> \in Nat \X Nat
    OBVIOUS
  <2>. QED BY <2>1 DEF FS!OpToRel
<1>. HIDE DEF R
<1>3. PICK x \in T : \A y \in T : ~(<<y, x>> \in R)
  BY <1>1, FS!WFMin
<1>4. ASSUME NEW y \in T PROVE x <= y
  <2>1. ~(y < x) /\ x \in Nat /\ y \in Nat
    BY <1>2, <1>3
  <2>. QED BY <2>1
<1>. QED BY <1>4

\* What holds of 0 and is passed on up to n holds up to n.
LEMMA UpTo ==
  ASSUME NEW n \in Nat, NEW T, 0 \in T, \A i \in 1 .. n : i - 1 \in T => i \in T
  PROVE  \A i \in 0 .. n : i \in T
<1>. DEFINE Bad == {i \in 0 .. n : i \notin T}
<1>1. Bad \in SUBSET Nat
  OBVIOUS
<1>. SUFFICES ASSUME Bad # {} PROVE FALSE
  OBVIOUS
<1>2. PICK x \in Bad : \A y \in Bad : x <= y
  <2>. HIDE DEF Bad
  <2>. QED BY <1>1, LeastNat
<1>3. x \in 1 .. n /\ x - 1 \in 0 .. n /\ ~(x <= x - 1)
  BY <1>2
<1>4. x - 1 \in T
  BY <1>2, <1>3
<1>. QED BY <1>2, <1>3, <1>4

\* A function that is given for 0, and for i in terms of i - 1, exists.
Recurs(F, n, V, e, step) ==
  /\ F \in [0 .. n -> V] /\ F[0] = e
  /\ \A i \in 1 .. n : F[i] = step[<<i, F[i - 1]>>]

\* A function defined by such a recursion satisfies its equations.
LEMMA Recursion ==
  ASSUME NEW n \in Nat, NEW V, NEW e \in V, NEW step \in [(1 .. n) \X V -> V]
  PROVE  \E F : Recurs(F, n, V, e, step)
<1>. DEFINE Good(m, F) == F[0] = e /\ \A i \in 1 .. m : F[i] = step[<<i, F[i - 1]>>]
            T == {m \in 0 .. n : \E F \in [0 .. m -> V] : Good(m, F)}
<1>1. 0 \in T
  <2>. DEFINE E == [i \in 0 .. 0 |-> e]
  <2>1. E \in [0 .. 0 -> V] /\ E[0] = e
    OBVIOUS
  <2>. HIDE DEF E
  <2>. QED BY <2>1
<1>2. ASSUME NEW m \in 1 .. n, m - 1 \in T PROVE m \in T
  <2>1. PICK F \in [0 .. m - 1 -> V] : Good(m - 1, F)
    BY <1>2
  <2>. DEFINE G == [i \in 0 .. m |-> IF i = m THEN step[<<m, F[m - 1]>>] ELSE F[i]]
  <2>2. F[m - 1] \in V /\ step[<<m, F[m - 1]>>] \in V
    <3>1. m - 1 \in 0 .. m - 1
      OBVIOUS
    <3>2. F[m - 1] \in V
      BY <3>1, <2>1
    <3>. QED BY <3>2
  <2>3. G \in [0 .. m -> V]
    BY <2>1, <2>2
  <2>4. G[0] = e
    BY <2>1
  <2>5. ASSUME NEW i \in 1 .. m PROVE G[i] = step[<<i, G[i - 1]>>]
    <3>1. G[i - 1] = F[i - 1]
      OBVIOUS
    <3>2. i # m => i \in 1 .. m - 1 /\ G[i] = F[i]
      OBVIOUS
    <3>3. G[m] = step[<<m, F[m - 1]>>]
      OBVIOUS
    <3>4. i # m => F[i] = step[<<i, F[i - 1]>>]
      BY <2>1, <3>2
    <3>. HIDE DEF G
    <3>. QED BY <3>1, <3>2, <3>3, <3>4
  <2>. HIDE DEF G
  <2>. QED BY <2>3, <2>4, <2>5
<1>3. \A m \in 0 .. n : m \in T
  <2>. HIDE DEF T
  <2>. QED BY <1>1, <1>2, UpTo
<1>. QED BY <1>3 DEF Recurs

-----------------------------------------------------------------------------
(* Sums.                                                                   *)

IsSum(F, s) == /\ F \in [0 .. Len(s) -> Int] /\ F[0] = 0
               /\ \A i \in 1 .. Len(s) : F[i] = F[i - 1] + s[i]

\* The recursion that defines Sum.
LEMMA SumDef ==
  ASSUME NEW s \in Seq(Int)
  PROVE  \E F : IsSum(F, s) /\ Sum(s) = F[Len(s)]
<1>1. Len(s) \in Nat /\ \A i \in 1 .. Len(s) : s[i] \in Int
  BY LenProperties
<1>. DEFINE step == [p \in (1 .. Len(s)) \X Int |-> p[2] + s[p[1]]]
            Is(F) == F = [n \in 0 .. Len(s) |-> IF n = 0 THEN 0 ELSE F[n - 1] + s[n]]
<1>2. step \in [(1 .. Len(s)) \X Int -> Int]
  BY <1>1
<1>3. PICK F : Recurs(F, Len(s), Int, 0, step)
  <2>1. 0 \in Int
    OBVIOUS
  <2>. HIDE DEF step
  <2>. QED BY <1>1, <1>2, <2>1, Recursion, Zenon
<1>4. Is(F)
  <2>1. ASSUME NEW i \in 1 .. Len(s) PROVE F[i] = F[i - 1] + s[i]
    <3>1. i - 1 \in 0 .. Len(s)
      BY <1>1
    <3>2. F[i - 1] \in Int
      BY <3>1, <1>3 DEF Recurs
    <3>3. <<i, F[i - 1]>> \in (1 .. Len(s)) \X Int
      BY <3>2
    <3>. QED BY <1>3, <3>3 DEF Recurs
  <2>2. \A n \in 0 .. Len(s) : F[n] = IF n = 0 THEN 0 ELSE F[n - 1] + s[n]
    BY <1>1, <1>3, <2>1 DEF Recurs
  <2>. QED BY <1>3, <2>2 DEF Recurs
<1>. DEFINE G == CHOOSE G : Is(G)
<1>5. Is(G)
  BY <1>4
<1>6. Sum(s) = G[Len(s)]
  BY DEF Sum
<1>. HIDE DEF G
<1>7. G = [n \in 0 .. Len(s) |-> IF n = 0 THEN 0 ELSE G[n - 1] + s[n]]
  BY <1>5
<1>8. /\ DOMAIN G = 0 .. Len(s) /\ G[0] = 0
      /\ \A i \in 1 .. Len(s) : G[i] = G[i - 1] + s[i]
  <2>1. \A n \in 0 .. Len(s) : G[n] = IF n = 0 THEN 0 ELSE G[n - 1] + s[n]
    BY <1>7
  <2>2. DOMAIN G = 0 .. Len(s)
    BY <1>7
  <2>. QED BY <1>1, <2>1, <2>2
<1>9. G \in [0 .. Len(s) -> Int]
  <2>. DEFINE T == {n \in 0 .. Len(s) : G[n] \in Int}
  <2>1. 0 \in T
    BY <1>1, <1>8
  <2>2. \A i \in 1 .. Len(s) : i - 1 \in T => i \in T
    BY <1>1, <1>8
  <2>3. \A i \in 0 .. Len(s) : i \in T
    <3>. HIDE DEF T
    <3>. QED BY <1>1, <2>1, <2>2, UpTo
  <2>4. G = [n \in 0 .. Len(s) |-> G[n]]
    BY <1>7
  <2>. QED BY <2>3, <2>4
<1>. QED BY <1>6, <1>8, <1>9 DEF IsSum

LEMMA SumEmpty == Sum(<< >>) = 0
<1>1. << >> \in Seq(Int) /\ Len(<< >>) = 0
  BY EmptySeq
<1>. QED BY <1>1, SumDef DEF IsSum

\* The sum grows by what is appended ...
LEMMA SumAppend ==
  ASSUME NEW s \in Seq(Int), NEW v \in Int
  PROVE  Sum(Append(s, v)) = Sum(s) + v
<1>. DEFINE t == Append(s, v)
<1>1. /\ t \in Seq(Int) /\ Len(t) = Len(s) + 1 /\ Len(s) \in Nat
      /\ \A i \in 1 .. Len(s) : t[i] = s[i]
      /\ t[Len(s) + 1] = v
  BY AppendProperties, LenProperties
<1>. HIDE DEF t
<1>2. PICK F : IsSum(F, s) /\ Sum(s) = F[Len(s)]
  BY SumDef
<1>3. PICK G : IsSum(G, t) /\ Sum(t) = G[Len(t)]
  BY <1>1, SumDef
<1>. DEFINE T == {i \in 0 .. Len(s) : F[i] = G[i]}
<1>4. 0 \in T
  BY <1>1, <1>2, <1>3 DEF IsSum
<1>5. \A i \in 1 .. Len(s) : i - 1 \in T => i \in T
  <2>. SUFFICES ASSUME NEW i \in 1 .. Len(s), F[i - 1] = G[i - 1] PROVE F[i] = G[i]
    BY <1>1
  <2>1. i \in 1 .. Len(t)
    BY <1>1
  <2>. QED BY <1>1, <1>2, <1>3, <2>1 DEF IsSum
<1>6. \A i \in 0 .. Len(s) : i \in T
  <2>. HIDE DEF T
  <2>. QED BY <1>1, <1>4, <1>5, UpTo
<1>7. F[Len(s)] = G[Len(s)]
  BY <1>1, <1>6
<1>8. G[Len(t)] = G[Len(s)] + v
  <2>1. Len(t) \in 1 .. Len(t) /\ Len(t) - 1 = Len(s)
    BY <1>1
  <2>2. G[Len(t)] = G[Len(t) - 1] + t[Len(t)]
    BY <1>3, <2>1 DEF IsSum
  <2>. QED BY <1>1, <2>1, <2>2
<1>9. Sum(t) = Sum(s) + v
  BY <1>2, <1>3, <1>7, <1>8
<1>. QED BY <1>9 DEF t

\* ... and shrinks by what leaves at the front.
LEMMA SumTail ==
  ASSUME NEW s \in Seq(Int), s # << >>
  PROVE  Sum(Tail(s)) = Sum(s) - Head(s)
<1>. DEFINE t == Tail(s)
<1>1. /\ t \in Seq(Int) /\ Len(t) = Len(s) - 1 /\ Len(s) \in Nat /\ Len(s) >= 1
      /\ \A i \in 1 .. Len(t) : t[i] = s[i + 1]
      /\ Head(s) = s[1] /\ s[1] \in Int
  BY HeadTailProperties, LenProperties, EmptySeq
<1>. HIDE DEF t
<1>2. PICK F : IsSum(F, s) /\ Sum(s) = F[Len(s)]
  BY SumDef
<1>3. PICK G : IsSum(G, t) /\ Sum(t) = G[Len(t)]
  BY <1>1, SumDef
<1>. DEFINE T == {i \in 0 .. Len(t) : G[i] = F[i + 1] - s[1]}
<1>4. 0 \in T
  <2>1. 1 \in 1 .. Len(s)
    BY <1>1
  <2>2. F[1] = F[1 - 1] + s[1]
    BY <1>2, <2>1 DEF IsSum
  <2>3. F[0] = 0 /\ G[0] = 0
    BY <1>2, <1>3 DEF IsSum
  <2>. QED BY <1>1, <2>2, <2>3
<1>5. \A i \in 1 .. Len(t) : i - 1 \in T => i \in T
  <2>. SUFFICES ASSUME NEW i \in 1 .. Len(t), G[i - 1] = F[(i - 1) + 1] - s[1]
                PROVE  G[i] = F[i + 1] - s[1]
    BY <1>1
  <2>1. i + 1 \in 1 .. Len(s) /\ (i + 1) - 1 = i /\ (i - 1) + 1 = i /\ i \in 0 .. Len(s)
    BY <1>1
  <2>2. F[i + 1] = F[i] + s[i + 1]
    <3>1. F[i + 1] = F[(i + 1) - 1] + s[i + 1]
      BY <1>2, <2>1 DEF IsSum
    <3>. QED BY <2>1, <3>1
  <2>3. G[i] = G[i - 1] + t[i]
    BY <1>3 DEF IsSum
  <2>4. F[i] \in Int
    BY <1>1, <1>2, <2>1 DEF IsSum
  <2>5. t[i] = s[i + 1] /\ s[i + 1] \in Int
    BY <1>1, <2>1
  <2>. QED BY <1>1, <2>1, <2>2, <2>3, <2>4, <2>5
<1>6. \A i \in 0 .. Len(t) : i \in T
  <2>. HIDE DEF T
  <2>1. Len(t) \in Nat
    BY <1>1
  <2>. QED BY <2>1, <1>4, <1>5, UpTo
<1>7. Sum(t) = Sum(s) - s[1]
  BY <1>1, <1>2, <1>3, <1>6
<1>. QED BY <1>1, <1>7 DEF t

\* Positive numbers sum up to no less than their number.
LEMMA SumPositive ==
  ASSUME NEW s \in Seq(Nat \ {0})
  PROVE  Sum(s) \in Nat /\ Sum(s) >= Len(s)
<1>1. s \in Seq(Int) /\ Len(s) \in Nat /\ \A i \in 1 .. Len(s) : s[i] \in Nat \ {0}
  <2>1. Len(s) \in Nat /\ \A i \in 1 .. Len(s) : s[i] \in Nat \ {0}
    BY LenProperties
  <2>. QED BY <2>1, SeqMonotonic
<1>2. PICK F : IsSum(F, s) /\ Sum(s) = F[Len(s)]
  BY <1>1, SumDef
<1>. DEFINE T == {i \in 0 .. Len(s) : F[i] \in Nat /\ F[i] >= i}
<1>3. 0 \in T
  BY <1>1, <1>2 DEF IsSum
<1>4. \A i \in 1 .. Len(s) : i - 1 \in T => i \in T
  <2>. SUFFICES ASSUME NEW i \in 1 .. Len(s), F[i - 1] \in Nat, F[i - 1] >= i - 1
                PROVE  F[i] \in Nat /\ F[i] >= i
    BY <1>1
  <2>. QED BY <1>1, <1>2 DEF IsSum
<1>5. \A i \in 0 .. Len(s) : i \in T
  <2>. HIDE DEF T
  <2>. QED BY <1>1, <1>3, <1>4, UpTo
<1>. QED BY <1>1, <1>2, <1>5

-----------------------------------------------------------------------------
(* Bags of the samples.                                                    *)

\* Finite sets, and their sizes, are those of the library's theorems.
LEMMA SameFinite == ASSUME NEW S PROVE IsFiniteSet(S) <=> FS!IsFiniteSet(S)
BY DEF IsFiniteSet, FS!IsFiniteSet

LEMMA SameCardinality == ASSUME NEW S PROVE Cardinality(S) = FS!Cardinality(S)
BY DEF Cardinality, FS!Cardinality

LEMMA Interval ==
  ASSUME NEW m \in Int, NEW n \in Int
  PROVE  IsFiniteSet(m .. n)
BY SameFinite, FS!FS_Interval

LEMMA Part ==
  ASSUME NEW S, IsFiniteSet(S), NEW T \in SUBSET S
  PROVE  IsFiniteSet(T)
BY SameFinite, FS!FS_Subset

LEMMA Count ==
  ASSUME NEW S, IsFiniteSet(S)
  PROVE  Cardinality(S) \in Nat /\ (Cardinality(S) = 0 <=> S = {})
<1>1. FS!Cardinality(S) \in Nat
  BY SameFinite, FS!FS_CardinalityType
<1>2. FS!Cardinality(S) = 0 <=> S = {}
  BY SameFinite, FS!FS_EmptySet
<1>. QED BY <1>1, <1>2, SameCardinality

LEMMA OneMore ==
  ASSUME NEW S, IsFiniteSet(S), NEW x, x \notin S
  PROVE  Cardinality(S \cup {x}) = Cardinality(S) + 1
<1>1. FS!Cardinality(S \cup {x}) = FS!Cardinality(S) + 1
  BY SameFinite, FS!FS_AddElement
<1>. QED BY <1>1, SameCardinality

\* f numbers the elements of T by those of S.
LEMMA SameCount ==
  ASSUME NEW S, IsFiniteSet(S), NEW T, NEW f \in [S -> T],
         \A x, y \in S : f[x] = f[y] => x = y, \A z \in T : \E x \in S : f[x] = z
  PROVE  IsFiniteSet(T) /\ Cardinality(T) = Cardinality(S)
<1>1. f \in FS!Bijection(S, T)
  BY DEF FS!Bijection, FS!Injection, FS!Surjection, FS!IsInjective
<1>2. FS!ExistsBijection(S, T)
  BY <1>1 DEF FS!ExistsBijection
<1>3. FS!IsFiniteSet(T) /\ FS!Cardinality(T) = FS!Cardinality(S)
  BY <1>2, SameFinite, FS!FS_Bijection
<1>. QED BY <1>3, SameFinite, SameCardinality

Places(s, v) == {i \in DOMAIN s : s[i] = v}

LEMMA PlacesFinite ==
  ASSUME NEW S, NEW s \in Seq(S), NEW v
  PROVE  /\ IsFiniteSet(Places(s, v)) /\ Cardinality(Places(s, v)) \in Nat
         /\ Cardinality(Places(s, v)) = 0 <=> v \notin ToSet(s)
<1>1. DOMAIN s = 1 .. Len(s) /\ Len(s) \in Nat
  BY LenProperties
<1>2. IsFiniteSet(1 .. Len(s))
  BY <1>1, Interval
<1>3. IsFiniteSet(Places(s, v))
  BY <1>1, <1>2, Part DEF Places
<1>4. Cardinality(Places(s, v)) \in Nat /\ (Cardinality(Places(s, v)) = 0 <=> Places(s, v) = {})
  BY <1>3, Count
<1>5. Places(s, v) = {} <=> v \notin ToSet(s)
  BY DEF Places, ToSet
<1>. QED BY <1>3, <1>4, <1>5

\* A value appended is in one place more ...
LEMMA PlacesAppend ==
  ASSUME NEW S, NEW s \in Seq(S), NEW v \in S, NEW x
  PROVE  Cardinality(Places(Append(s, v), x)) =
           IF x = v THEN Cardinality(Places(s, x)) + 1 ELSE Cardinality(Places(s, x))
<1>. DEFINE t == Append(s, v)
            n == Len(s) + 1
<1>1. /\ DOMAIN t = DOMAIN s \cup {n} /\ n \notin DOMAIN s
      /\ \A i \in DOMAIN s : t[i] = s[i]
      /\ t[n] = v
  <2>1. /\ t \in Seq(S) /\ Len(t) = n /\ Len(s) \in Nat
        /\ \A i \in 1 .. Len(s) : t[i] = s[i]
        /\ t[n] = v /\ DOMAIN s = 1 .. Len(s)
    BY AppendProperties, LenProperties
  <2>2. DOMAIN t = 1 .. n
    BY <2>1, LenProperties
  <2>. HIDE DEF t
  <2>. QED BY <2>1, <2>2
<1>. HIDE DEF t, n
<1>2. Places(t, x) = IF x = v THEN Places(s, x) \cup {n} ELSE Places(s, x)
  BY <1>1 DEF Places
<1>3. n \notin Places(s, x)
  BY <1>1 DEF Places
<1>4. IsFiniteSet(Places(s, x))
  BY PlacesFinite
<1>5. Cardinality(Places(s, x) \cup {n}) = Cardinality(Places(s, x)) + 1
  BY <1>3, <1>4, OneMore
<1>6. Cardinality(Places(t, x)) =
        IF x = v THEN Cardinality(Places(s, x)) + 1 ELSE Cardinality(Places(s, x))
  BY <1>2, <1>5
<1>. QED BY <1>6 DEF t

\* ... and the one that leaves at the front in one place less.
LEMMA PlacesTail ==
  ASSUME NEW S, NEW s \in Seq(S), s # << >>, NEW x
  PROVE  Cardinality(Places(s, x)) =
           IF x = Head(s) THEN Cardinality(Places(Tail(s), x)) + 1
           ELSE Cardinality(Places(Tail(s), x))
<1>. DEFINE t == Tail(s)
            P == {i \in 2 .. Len(s) : s[i] = x}
            f == [i \in Places(t, x) |-> i + 1]
<1>1. /\ t \in Seq(S) /\ Len(t) = Len(s) - 1 /\ Len(s) \in Nat /\ Len(s) >= 1
      /\ \A i \in 1 .. Len(t) : t[i] = s[i + 1]
      /\ Head(s) = s[1] /\ DOMAIN s = 1 .. Len(s) /\ DOMAIN t = 1 .. Len(t)
  BY HeadTailProperties, LenProperties, EmptySeq
<1>. HIDE DEF t
<1>2. IsFiniteSet(Places(t, x))
  BY <1>1, PlacesFinite
<1>4. IsFiniteSet(P) /\ Cardinality(P) = Cardinality(Places(t, x))
  <2>1. \A i \in Places(t, x) : i \in Nat /\ f[i] = i + 1 /\ f[i] \in P
    BY <1>1 DEF Places
  <2>2. ASSUME NEW j \in P PROVE \E i \in Places(t, x) : f[i] = j
    <3>1. j - 1 \in 1 .. Len(t) /\ (j - 1) + 1 = j
      BY <1>1
    <3>2. t[j - 1] = x
      BY <1>1, <3>1
    <3>3. j - 1 \in Places(t, x)
      BY <1>1, <3>1, <3>2 DEF Places
    <3>. QED BY <3>1, <3>3
  <2>3. f \in [Places(t, x) -> P]
    BY <2>1
  <2>4. \A i, j \in Places(t, x) : f[i] = f[j] => i = j
    BY <2>1
  <2>. HIDE DEF f, P
  <2>. QED BY <1>2, <2>2, <2>3, <2>4, SameCount
<1>5. Places(s, x) = IF x = Head(s) THEN P \cup {1} ELSE P
  BY <1>1 DEF Places
<1>6. 1 \notin P
  OBVIOUS
<1>7. Cardinality(P \cup {1}) = Cardinality(P) + 1
  <2>. HIDE DEF P
  <2>. QED BY <1>4, <1>6, OneMore
<1>8. Cardinality(Places(s, x)) =
        IF x = Head(s) THEN Cardinality(Places(t, x)) + 1 ELSE Cardinality(Places(t, x))
  <2>. HIDE DEF P
  <2>. QED BY <1>4, <1>5, <1>7
<1>. QED BY <1>8 DEF t

Counts(s) == [v \in ToSet(s) |-> Cardinality(Places(s, v))]

LEMMA ValuesAppend ==
  ASSUME NEW S, NEW s \in Seq(S), NEW v \in S
  PROVE  ToSet(Append(s, v)) = ToSet(s) \cup {v}
<1>1. /\ Append(s, v) \in Seq(S) /\ Len(Append(s, v)) = Len(s) + 1 /\ Len(s) \in Nat
      /\ \A i \in 1 .. Len(s) : Append(s, v)[i] = s[i]
      /\ Append(s, v)[Len(s) + 1] = v
  BY AppendProperties, LenProperties
<1>2. DOMAIN s = 1 .. Len(s) /\ DOMAIN Append(s, v) = 1 .. Len(s) + 1
  BY <1>1, LenProperties
<1>3. ASSUME NEW x \in ToSet(Append(s, v)) PROVE x \in ToSet(s) \cup {v}
  <2>1. PICK i \in 1 .. Len(s) + 1 : Append(s, v)[i] = x
    BY <1>2 DEF ToSet
  <2>2. i \in 1 .. Len(s) \/ i = Len(s) + 1
    BY <1>1
  <2>. QED BY <1>1, <1>2, <2>1, <2>2 DEF ToSet
<1>4. ASSUME NEW x \in ToSet(s) \cup {v} PROVE x \in ToSet(Append(s, v))
  <2>1. PICK i \in 1 .. Len(s) + 1 : Append(s, v)[i] = x
    BY <1>1, <1>2 DEF ToSet
  <2>. QED BY <1>2, <2>1 DEF ToSet
<1>. QED BY <1>3, <1>4

LEMMA ValuesTail ==
  ASSUME NEW S, NEW s \in Seq(S), s # << >>
  PROVE  ToSet(s) = ToSet(Tail(s)) \cup {Head(s)}
<1>1. /\ Tail(s) \in Seq(S) /\ Len(Tail(s)) = Len(s) - 1 /\ Len(s) \in Nat /\ Len(s) >= 1
      /\ \A i \in 1 .. Len(Tail(s)) : Tail(s)[i] = s[i + 1]
      /\ Head(s) = s[1]
  BY HeadTailProperties, LenProperties, EmptySeq
<1>2. DOMAIN s = 1 .. Len(s) /\ DOMAIN Tail(s) = 1 .. Len(s) - 1
  BY <1>1, LenProperties
<1>3. ASSUME NEW x \in ToSet(s) PROVE x \in ToSet(Tail(s)) \cup {Head(s)}
  <2>1. PICK i \in 1 .. Len(s) : s[i] = x
    BY <1>2 DEF ToSet
  <2>2. i = 1 \/ (i - 1 \in 1 .. Len(s) - 1 /\ (i - 1) + 1 = i)
    BY <1>1
  <2>3. CASE i = 1
    BY <1>1, <2>1, <2>3
  <2>4. CASE i - 1 \in 1 .. Len(s) - 1 /\ (i - 1) + 1 = i
    <3>1. Tail(s)[i - 1] = x
      BY <1>1, <2>1, <2>4
    <3>. QED BY <1>2, <2>4, <3>1 DEF ToSet
  <2>. QED BY <2>2, <2>3, <2>4
<1>4. ASSUME NEW x \in ToSet(Tail(s)) PROVE x \in ToSet(s)
  <2>1. PICK i \in 1 .. Len(s) - 1 : Tail(s)[i] = x
    BY <1>2 DEF ToSet
  <2>2. i + 1 \in 1 .. Len(s) /\ s[i + 1] = x
    BY <1>1, <2>1
  <2>. QED BY <1>2, <2>2 DEF ToSet
<1>5. Head(s) \in ToSet(s)
  <2>1. 1 \in 1 .. Len(s)
    BY <1>1
  <2>. QED BY <1>1, <1>2, <2>1 DEF ToSet
<1>. QED BY <1>3, <1>4, <1>5

LEMMA CountsEmpty == Counts(<< >>) = EmptyBag
<1>1. ToSet(<< >>) = {}
  BY DEF ToSet
<1>. QED BY <1>1 DEF Counts, EmptyBag, SetToBag

\* The bag of the samples follows what is appended ...
LEMMA CountsAdd ==
  ASSUME NEW S, NEW s \in Seq(S), NEW v \in S
  PROVE  BagAdd(Counts(s), v) = Counts(Append(s, v))
<1>1. ToSet(Append(s, v)) = ToSet(s) \cup {v}
  BY ValuesAppend
<1>2. \A x : Cardinality(Places(Append(s, v), x)) =
           IF x = v THEN Cardinality(Places(s, x)) + 1 ELSE Cardinality(Places(s, x))
  BY PlacesAppend
<1>3. Cardinality(Places(s, v)) = 0 <=> v \notin ToSet(s)
  BY PlacesFinite
<1>. DEFINE C(x) == Cardinality(Places(s, x))
            D(x) == Cardinality(Places(Append(s, v), x))
<1>4. /\ Counts(s) = [x \in ToSet(s) |-> C(x)]
      /\ Counts(Append(s, v)) = [x \in ToSet(s) \cup {v} |-> D(x)]
  BY <1>1 DEF Counts
<1>5. (C(v) = 0 <=> v \notin ToSet(s)) /\ \A x : D(x) = IF x = v THEN C(x) + 1 ELSE C(x)
  BY <1>2, <1>3
<1>. HIDE DEF C, D
<1>6. CASE v \in ToSet(s)
  <2>1. BagAdd(Counts(s), v) = [x \in ToSet(s) |-> IF x = v THEN C(x) + 1 ELSE C(x)]
    BY <1>4, <1>6 DEF BagAdd
  <2>2. ToSet(s) \cup {v} = ToSet(s)
    BY <1>6
  <2>. QED BY <1>4, <1>5, <2>1, <2>2
<1>7. CASE v \notin ToSet(s)
  <2>1. BagAdd(Counts(s), v) = [x \in ToSet(s) \cup {v} |-> IF x = v THEN 1 ELSE C(x)]
    BY <1>4, <1>7 DEF BagAdd
  <2>. QED BY <1>4, <1>5, <1>7, <2>1
<1>. QED BY <1>6, <1>7

\* ... and what leaves at the front.
LEMMA CountsRemove ==
  ASSUME NEW S, NEW s \in Seq(S), s # << >>
  PROVE  BagRemove(Counts(s), Head(s)) = Counts(Tail(s))
<1>. DEFINE h == Head(s)
            C(x) == Cardinality(Places(s, x))
            D(x) == Cardinality(Places(Tail(s), x))
<1>1. ToSet(s) = ToSet(Tail(s)) \cup {h}
  BY ValuesTail
<1>2. \A x : C(x) = IF x = h THEN D(x) + 1 ELSE D(x)
  BY PlacesTail
<1>3. D(h) \in Nat /\ (D(h) = 0 <=> h \notin ToSet(Tail(s)))
  <2>1. Tail(s) \in Seq(S)
    BY HeadTailProperties
  <2>. QED BY <2>1, PlacesFinite
<1>4. Counts(s) = [x \in ToSet(s) |-> C(x)] /\ Counts(Tail(s)) = [x \in ToSet(Tail(s)) |-> D(x)]
  BY DEF Counts
<1>. HIDE DEF C, D, h
<1>5. C(h) = D(h) + 1
  BY <1>2
<1>6. CASE h \in ToSet(Tail(s))
  <2>1. C(h) # 1 /\ h \in ToSet(s) /\ ToSet(s) = ToSet(Tail(s)) /\ C(h) - 1 = D(h)
    BY <1>1, <1>3, <1>5, <1>6
  <2>2. BagRemove(Counts(s), h) = [x \in ToSet(s) |-> IF x = h THEN C(x) - 1 ELSE C(x)]
    BY <1>4, <2>1 DEF BagRemove
  <2>3. \A x \in ToSet(s) : (IF x = h THEN C(x) - 1 ELSE C(x)) = D(x)
    BY <1>2, <2>1
  <2>. QED BY <1>4, <2>1, <2>2, <2>3 DEF h
<1>7. CASE h \notin ToSet(Tail(s))
  <2>1. C(h) = 1 /\ h \in ToSet(s) /\ ToSet(s) \ {h} = ToSet(Tail(s))
    BY <1>1, <1>3, <1>5, <1>7
  <2>2. BagRemove(Counts(s), h) = [x \in ToSet(s) \ {h} |-> C(x)]
    BY <1>4, <2>1 DEF BagRemove
  <2>3. \A x \in ToSet(Tail(s)) : C(x) = D(x)
    BY <1>2, <1>7
  <2>. QED BY <1>4, <2>1, <2>2, <2>3 DEF h
<1>. QED BY <1>6, <1>7

\* The least and the largest sample exist, and nothing else is least or largest.
LEMMA MinIs ==
  ASSUME NEW T \in SUBSET Nat, T # {}
  PROVE  Min(T) \in T /\ \A y \in T : Min(T) <= y
<1>1. \E x \in T : \A y \in T : x <= y
  BY LeastNat
<1>. QED BY <1>1 DEF Min

LEMMA MinOnly ==
  ASSUME NEW T \in SUBSET Nat, NEW m \in T, \A y \in T : m <= y
  PROVE  Min(T) = m
<1>1. PICK x : x = Min(T)
  OBVIOUS
<1>2. x \in T /\ x <= m /\ m <= x
  BY <1>1, MinIs
<1>3. x \in Nat /\ m \in Nat
  BY <1>2
<1>4. x = m
  BY <1>2, <1>3
<1>. QED BY <1>1, <1>4

\* Samples have a largest one.
LEMMA Largest ==
  ASSUME NEW s \in Seq(Nat), s # << >>
  PROVE  \E x \in ToSet(s) : \A y \in ToSet(s) : x >= y
<1>1. Len(s) \in Nat /\ Len(s) >= 1 /\ DOMAIN s = 1 .. Len(s) /\ \A i \in 1 .. Len(s) : s[i] \in Nat
  BY LenProperties, EmptySeq
<1>. DEFINE T == {n \in 0 .. Len(s) : n = 0 \/ \E k \in 1 .. n : \A i \in 1 .. n : s[k] >= s[i]}
<1>2. 0 \in T
  BY <1>1
<1>3. ASSUME NEW n \in 1 .. Len(s), n - 1 \in T PROVE n \in T
  <2>1. CASE n = 1
    BY <1>1, <2>1
  <2>2. CASE n # 1
    <3>1. PICK k \in 1 .. n - 1 : \A i \in 1 .. n - 1 : s[k] >= s[i]
      BY <1>1, <1>3, <2>2
    <3>2. CASE s[k] >= s[n]
      <4>1. k \in 1 .. n /\ \A i \in 1 .. n : s[k] >= s[i]
        BY <1>1, <3>1, <3>2
      <4>. QED BY <4>1
    <3>3. CASE ~(s[k] >= s[n])
      <4>1. \A i \in 1 .. n : s[n] >= s[i]
        BY <1>1, <3>1, <3>3
      <4>2. n \in 1 .. n
        BY <1>1
      <4>. QED BY <4>1, <4>2
    <3>. QED BY <3>2, <3>3
  <2>. QED BY <2>1, <2>2
<1>4. \A n \in 0 .. Len(s) : n \in T
  <2>. HIDE DEF T
  <2>. QED BY <1>1, <1>2, <1>3, UpTo
<1>5. PICK k \in 1 .. Len(s) : \A i \in 1 .. Len(s) : s[k] >= s[i]
  <2>1. Len(s) \in 0 .. Len(s) /\ Len(s) # 0
    BY <1>1
  <2>2. Len(s) \in T
    <3>. HIDE DEF T
    <3>. QED BY <1>4, <2>1
  <2>. QED BY <2>1, <2>2
<1>. QED BY <1>1, <1>5 DEF ToSet

LEMMA MaxOnly ==
  ASSUME NEW T \in SUBSET Nat, NEW m \in T, \A y \in T : m >= y
  PROVE  Max(T) = m
<1>1. PICK x : x = Max(T)
  OBVIOUS
<1>2. x \in T /\ x >= m /\ m >= x
  BY <1>1 DEF Max
<1>3. x \in Nat /\ m \in Nat
  BY <1>2
<1>4. x = m
  BY <1>2, <1>3
<1>. QED BY <1>1, <1>4

LEMMA MaxIs ==
  ASSUME NEW s \in Seq(Nat), s # << >>
  PROVE  Max(ToSet(s)) \in ToSet(s) /\ \A y \in ToSet(s) : Max(ToSet(s)) >= y
<1>1. \E x \in ToSet(s) : \A y \in ToSet(s) : x >= y
  BY Largest
<1>. QED BY <1>1 DEF Max

LEMMA ValuesType ==
  ASSUME NEW S, NEW s \in Seq(S)
  PROVE  ToSet(s) \subseteq S /\ (ToSet(s) = {} <=> s = << >>)
<1>1. Len(s) \in Nat /\ DOMAIN s = 1 .. Len(s) /\ \A i \in 1 .. Len(s) : s[i] \in S
  BY LenProperties
<1>2. s # << >> => 1 \in DOMAIN s
  BY <1>1, EmptySeq
<1>3. s = << >> => ToSet(s) = {}
  BY <1>1 DEF ToSet
<1>. QED BY <1>1, <1>2, <1>3 DEF ToSet

-----------------------------------------------------------------------------
(* The trackers of a window that holds s.                                  *)

AvgOf(s) == [sum |-> Sum(s), count |-> Len(s)]

MinOf(s) == [frequency |-> Counts(s), extreme |-> IF s = << >> THEN << >> ELSE <<Min(ToSet(s))>>]
MaxOf(s) == [frequency |-> Counts(s), extreme |-> IF s = << >> THEN << >> ELSE <<Max(ToSet(s))>>]

\* The average, told of a sample that comes or goes.
LEMMA AvgAdd ==
  ASSUME NEW s \in Seq(Nat), NEW v \in Nat
  PROVE  AvgOnAdd(AvgOf(s), v) = AvgOf(Append(s, v))
<1>1. s \in Seq(Int) /\ v \in Int
  <2>1. Nat \subseteq Int
    OBVIOUS
  <2>. QED BY <2>1, SeqMonotonic
<1>2. Sum(Append(s, v)) = Sum(s) + v
  BY <1>1, SumAppend
<1>3. Len(Append(s, v)) = Len(s) + 1
  BY AppendProperties
<1>. QED BY <1>2, <1>3 DEF AvgOnAdd, AvgOf

LEMMA AvgRemove ==
  ASSUME NEW s \in Seq(Nat), s # << >>
  PROVE  AvgOnRemove(AvgOf(s), Head(s)) = AvgOf(Tail(s))
<1>1. s \in Seq(Int)
  <2>1. Nat \subseteq Int
    OBVIOUS
  <2>. QED BY <2>1, SeqMonotonic
<1>2. Sum(Tail(s)) = Sum(s) - Head(s)
  BY <1>1, SumTail
<1>3. Len(Tail(s)) = Len(s) - 1
  BY HeadTailProperties
<1>. QED BY <1>2, <1>3 DEF AvgOnRemove, AvgOf

LEMMA AddedCounts ==
  ASSUME NEW s \in Seq(Nat), NEW v \in Nat
  PROVE  /\ BagAdd(IF s = << >> THEN EmptyBag ELSE Counts(s), v) = Counts(Append(s, v))
         /\ Append(s, v) # << >> /\ ToSet(Append(s, v)) = ToSet(s) \cup {v}
         /\ ToSet(s) \subseteq Nat /\ (ToSet(s) = {} <=> s = << >>)
<1>1. (IF s = << >> THEN EmptyBag ELSE Counts(s)) = Counts(s)
  BY CountsEmpty
<1>2. BagAdd(Counts(s), v) = Counts(Append(s, v))
  BY CountsAdd
<1>3. Append(s, v) # << >>
  BY AppendProperties
<1>. QED BY <1>1, <1>2, <1>3, ValuesAppend, ValuesType

\* The smallest sample, told of one that comes ...
LEMMA MinAdd ==
  ASSUME NEW s \in Seq(Nat), NEW v \in Nat
  PROVE  MinOnAdd(MinOf(s), v) = MinOf(Append(s, v))
<1>. DEFINE t == Append(s, v)
            F == BagAdd(IF s = << >> THEN EmptyBag ELSE Counts(s), v)
            T == ToSet(s)
            m == Min(T)
            E == IF s = << >> \/ v < m THEN <<v>> ELSE <<m>>
<1>1. MinOnAdd(MinOf(s), v) = [frequency |-> F, extreme |-> E]
  BY DEF MinOnAdd, ExtremeOnAdd, MinOf, Less
<1>2. /\ F = Counts(t) /\ t # << >> /\ ToSet(t) = T \cup {v} /\ T \subseteq Nat
      /\ T = {} <=> s = << >>
  BY AddedCounts
<1>3. s # << >> => m \in T /\ m \in Nat /\ \A y \in T : m <= y
  BY <1>2, MinIs
<1>. HIDE DEF t, F, T, m
<1>4. E = <<Min(T \cup {v})>>
  <2>1. CASE s = << >>
    <3>1. Min(T \cup {v}) = v
      BY <1>2, <2>1, MinOnly
    <3>. QED BY <2>1, <3>1
  <2>2. CASE s # << >> /\ v < m
    <3>1. \A y \in T \cup {v} : v <= y
      BY <1>2, <1>3, <2>2
    <3>2. Min(T \cup {v}) = v
      BY <1>2, <3>1, MinOnly
    <3>. QED BY <2>2, <3>2
  <2>3. CASE s # << >> /\ ~(v < m)
    <3>1. m \in T \cup {v} /\ \A y \in T \cup {v} : m <= y
      BY <1>2, <1>3, <2>3
    <3>2. Min(T \cup {v}) = m
      BY <1>2, <3>1, MinOnly
    <3>. QED BY <2>3, <3>2
  <2>. QED BY <2>1, <2>2, <2>3
<1>5. MinOf(t) = [frequency |-> F, extreme |-> E]
  BY <1>2, <1>4 DEF MinOf
<1>. QED BY <1>1, <1>5 DEF t

\* ... and the largest.
LEMMA MaxAdd ==
  ASSUME NEW s \in Seq(Nat), NEW v \in Nat
  PROVE  MaxOnAdd(MaxOf(s), v) = MaxOf(Append(s, v))
<1>. DEFINE t == Append(s, v)
            F == BagAdd(IF s = << >> THEN EmptyBag ELSE Counts(s), v)
            T == ToSet(s)
            m == Max(T)
            E == IF s = << >> \/ v > m THEN <<v>> ELSE <<m>>
<1>1. MaxOnAdd(MaxOf(s), v) = [frequency |-> F, extreme |-> E]
  BY DEF MaxOnAdd, ExtremeOnAdd, MaxOf, More
<1>2. /\ F = Counts(t) /\ t # << >> /\ ToSet(t) = T \cup {v} /\ T \subseteq Nat
      /\ T = {} <=> s = << >>
  BY AddedCounts
<1>3. s # << >> => m \in T /\ m \in Nat /\ \A y \in T : m >= y
  BY <1>2, MaxIs
<1>. HIDE DEF t, F, T, m
<1>4. E = <<Max(T \cup {v})>>
  <2>1. CASE s = << >>
    <3>1. Max(T \cup {v}) = v
      BY <1>2, <2>1, MaxOnly
    <3>. QED BY <2>1, <3>1
  <2>2. CASE s # << >> /\ v > m
    <3>1. \A y \in T \cup {v} : v >= y
      BY <1>2, <1>3, <2>2
    <3>2. Max(T \cup {v}) = v
      BY <1>2, <3>1, MaxOnly
    <3>. QED BY <2>2, <3>2
  <2>3. CASE s # << >> /\ ~(v > m)
    <3>1. m \in T \cup {v} /\ \A y \in T \cup {v} : m >= y
      BY <1>2, <1>3, <2>3
    <3>2. Max(T \cup {v}) = m
      BY <1>2, <3>1, MaxOnly
    <3>. QED BY <2>3, <3>2
  <2>. QED BY <2>1, <2>2, <2>3
<1>5. MaxOf(t) = [frequency |-> F, extreme |-> E]
  BY <1>2, <1>4 DEF MaxOf
<1>. QED BY <1>1, <1>5 DEF t

LEMMA RemovedCounts ==
  ASSUME NEW s \in Seq(Nat), s # << >>
  PROVE  /\ BagIn(Head(s), Counts(s)) /\ BagRemove(Counts(s), Head(s)) = Counts(Tail(s))
         /\ Tail(s) \in Seq(Nat) /\ BagToSet(Counts(Tail(s))) = ToSet(Tail(s))
         /\ Counts(Tail(s)) = EmptyBag <=> Tail(s) = << >>
         /\ ToSet(s) = ToSet(Tail(s)) \cup {Head(s)} /\ ToSet(s) \subseteq Nat
         /\ ToSet(Tail(s)) = {} <=> Tail(s) = << >>
<1>1. BagRemove(Counts(s), Head(s)) = Counts(Tail(s))
  BY CountsRemove
<1>2. ToSet(s) = ToSet(Tail(s)) \cup {Head(s)}
  BY ValuesTail
<1>3. Tail(s) \in Seq(Nat)
  BY HeadTailProperties
<1>4. \A x \in {s, Tail(s)} : BagToSet(Counts(x)) = ToSet(x)
  BY DEF BagToSet, Counts
<1>5. (ToSet(Tail(s)) = {} <=> Tail(s) = << >>) /\ ToSet(s) \subseteq Nat
  BY <1>3, ValuesType
<1>6. Counts(Tail(s)) = EmptyBag <=> Tail(s) = << >>
  <2>1. BagToSet(EmptyBag) = {}
    BY DEF BagToSet, EmptyBag, SetToBag
  <2>. QED BY <1>4, <1>5, <2>1, CountsEmpty
<1>7. BagIn(Head(s), Counts(s))
  BY <1>2, <1>4 DEF BagIn
<1>. QED BY <1>1, <1>2, <1>3, <1>4, <1>5, <1>6, <1>7

\* The smallest sample when the oldest one leaves, which may have been the smallest ...
LEMMA MinRemove ==
  ASSUME NEW s \in Seq(Nat), s # << >>
  PROVE  MinOnRemove(MinOf(s), Head(s)) = MinOf(Tail(s))
<1>. DEFINE h == Head(s)
            t == Tail(s)
            T == ToSet(t)
            best == CHOOSE x \in T : \A y \in T : ~(y < x)
            E == CASE <<Min(ToSet(s))>> # <<h>> -> <<Min(ToSet(s))>>
                   [] Counts(t) = EmptyBag -> << >>
                   [] OTHER -> <<best>>
<1>1. /\ BagIn(h, Counts(s)) /\ BagRemove(Counts(s), h) = Counts(t)
      /\ t \in Seq(Nat) /\ BagToSet(Counts(t)) = T
      /\ Counts(t) = EmptyBag <=> t = << >>
      /\ ToSet(s) = T \cup {h} /\ ToSet(s) \subseteq Nat
      /\ T = {} <=> t = << >>
  BY RemovedCounts
<1>2. MinOnRemove(MinOf(s), h) = [frequency |-> Counts(t), extreme |-> E]
  <2>. HIDE DEF h, t, T
  <2>. QED BY <1>1 DEF MinOnRemove, ExtremeOnRemove, MinOf, Less
<1>. HIDE DEF h, t, T
<1>3. Min(T \cup {h}) \in T \cup {h} /\ \A y \in T \cup {h} : Min(T \cup {h}) <= y
  BY <1>1, MinIs
<1>4. E = IF t = << >> THEN << >> ELSE <<Min(T)>>
  <2>1. CASE Min(T \cup {h}) # h
    <3>1. t # << >> /\ Min(T) = Min(T \cup {h})
      BY <1>1, <1>3, <2>1, MinOnly
    <3>2. <<Min(ToSet(s))>> # <<h>> /\ Min(ToSet(s)) = Min(T)
      BY <1>1, <2>1, <3>1
    <3>3. Counts(t) # EmptyBag
      BY <1>1, <3>1
    <3>. HIDE DEF best
    <3>4. E = <<Min(ToSet(s))>>
      BY <3>2, <3>3
    <3>. QED BY <3>1, <3>2, <3>4
  <2>2. CASE Min(T \cup {h}) = h /\ t = << >>
    BY <1>1, <2>2
  <2>3. CASE Min(T \cup {h}) = h /\ t # << >>
    <3>1. Min(T) \in T /\ \A y \in T : Min(T) <= y
      BY <1>1, <2>3, MinIs
    <3>2. \A x, y \in T : x \in Nat /\ y \in Nat
      BY <1>1
    <3>3. best \in T /\ \A y \in T : ~(y < best)
      <4>1. \A y \in T : ~(y < Min(T))
        BY <3>1, <3>2
      <4>. QED BY <3>1, <4>1
    <3>4. best = Min(T)
      <4>. HIDE DEF best
      <4>1. \A y \in T : best <= y
        BY <3>2, <3>3
      <4>. QED BY <1>1, <3>3, <4>1, MinOnly
    <3>5. Min(ToSet(s)) = h /\ Counts(t) # EmptyBag
      BY <1>1, <2>3
    <3>. HIDE DEF best
    <3>6. E = <<best>>
      BY <3>5
    <3>. QED BY <2>3, <3>4, <3>6
  <2>. QED BY <2>1, <2>2, <2>3
<1>5. MinOf(t) = [frequency |-> Counts(t), extreme |-> E]
  BY <1>4 DEF MinOf, T
<1>. QED BY <1>2, <1>5 DEF h, t

\* ... and the largest.
LEMMA MaxRemove ==
  ASSUME NEW s \in Seq(Nat), s # << >>
  PROVE  MaxOnRemove(MaxOf(s), Head(s)) = MaxOf(Tail(s))
<1>. DEFINE h == Head(s)
            t == Tail(s)
            T == ToSet(t)
            best == CHOOSE x \in T : \A y \in T : ~(y > x)
            E == CASE <<Max(ToSet(s))>> # <<h>> -> <<Max(ToSet(s))>>
                   [] Counts(t) = EmptyBag -> << >>
                   [] OTHER -> <<best>>
<1>1. /\ BagIn(h, Counts(s)) /\ BagRemove(Counts(s), h) = Counts(t)
      /\ t \in Seq(Nat) /\ BagToSet(Counts(t)) = T
      /\ Counts(t) = EmptyBag <=> t = << >>
      /\ ToSet(s) = T \cup {h} /\ ToSet(s) \subseteq Nat
      /\ T = {} <=> t = << >>
  BY RemovedCounts
<1>2. MaxOnRemove(MaxOf(s), h) = [frequency |-> Counts(t), extreme |-> E]
  <2>. HIDE DEF h, t, T
  <2>. QED BY <1>1 DEF MaxOnRemove, ExtremeOnRemove, MaxOf, More
<1>a. t # << >> => Max(T) \in T /\ \A y \in T : Max(T) >= y
  BY <1>1, MaxIs
<1>3. Max(T \cup {h}) \in T \cup {h} /\ \A y \in T \cup {h} : Max(T \cup {h}) >= y
  <2>1. Max(ToSet(s)) \in ToSet(s) /\ \A y \in ToSet(s) : Max(ToSet(s)) >= y
    BY MaxIs
  <2>. HIDE DEF h, t, T
  <2>. QED BY <1>1, <2>1
<1>. HIDE DEF h, t, T
<1>4. E = IF t = << >> THEN << >> ELSE <<Max(T)>>
  <2>1. CASE Max(T \cup {h}) # h
    <3>1. t # << >> /\ Max(T) = Max(T \cup {h})
      BY <1>1, <1>3, <2>1, MaxOnly
    <3>2. <<Max(ToSet(s))>> # <<h>> /\ Max(ToSet(s)) = Max(T)
      BY <1>1, <2>1, <3>1
    <3>3. Counts(t) # EmptyBag
      BY <1>1, <3>1
    <3>. HIDE DEF best
    <3>4. E = <<Max(ToSet(s))>>
      BY <3>2, <3>3
    <3>. QED BY <3>1, <3>2, <3>4
  <2>2. CASE Max(T \cup {h}) = h /\ t = << >>
    BY <1>1, <2>2
  <2>3. CASE Max(T \cup {h}) = h /\ t # << >>
    <3>1. Max(T) \in T /\ \A y \in T : Max(T) >= y
      BY <1>a, <2>3
    <3>2. \A x, y \in T : x \in Nat /\ y \in Nat
      BY <1>1
    <3>3. best \in T /\ \A y \in T : ~(y > best)
      <4>1. \A y \in T : ~(y > Max(T))
        BY <3>1, <3>2
      <4>. QED BY <3>1, <4>1
    <3>4. best = Max(T)
      <4>. HIDE DEF best
      <4>1. \A y \in T : best >= y
        BY <3>2, <3>3
      <4>. QED BY <1>1, <3>3, <4>1, MaxOnly
    <3>5. Max(ToSet(s)) = h /\ Counts(t) # EmptyBag
      BY <1>1, <2>3
    <3>. HIDE DEF best
    <3>6. E = <<best>>
      BY <3>5
    <3>. QED BY <2>3, <3>4, <3>6
  <2>. QED BY <2>1, <2>2, <2>3
<1>5. MaxOf(t) = [frequency |-> Counts(t), extreme |-> E]
  BY <1>4 DEF MaxOf, T
<1>. QED BY <1>2, <1>5 DEF h, t

WindowOf(s) == [data |-> s, avg |-> AvgOf(s), min |-> MinOf(s), max |-> MaxOf(s)]

\* The samples of a window once v was added to s.
Shifted(s, v) == IF Len(s) + 1 <= WindowSize THEN Append(s, v) ELSE Tail(Append(s, v))

LEMMA NewWindowIs == NewWindow = WindowOf(<< >>)
<1>1. Len(<< >>) = 0 /\ Sum(<< >>) = 0 /\ Counts(<< >>) = EmptyBag
  BY SumEmpty, CountsEmpty
<1>. QED BY <1>1 DEF NewWindow, WindowOf, AvgOf, MinOf, MaxOf, NoAvg, NoExtreme

LEMMA Grown ==
  ASSUME NEW s \in Seq(Nat), NEW v \in Nat
  PROVE  /\ [data |-> Append(s, v), avg |-> AvgOnAdd(AvgOf(s), v), min |-> MinOnAdd(MinOf(s), v),
             max |-> MaxOnAdd(MaxOf(s), v)] = WindowOf(Append(s, v))
         /\ Len(Append(s, v)) = Len(s) + 1 /\ Append(s, v) \in Seq(Nat) /\ Append(s, v) # << >>
<1>1. Len(Append(s, v)) = Len(s) + 1 /\ Append(s, v) \in Seq(Nat) /\ Append(s, v) # << >>
  BY AppendProperties
<1>. QED BY <1>1, AvgAdd, MinAdd, MaxAdd DEF WindowOf

LEMMA Shrunk ==
  ASSUME NEW s \in Seq(Nat), s # << >>
  PROVE  [data |-> Tail(s), avg |-> AvgOnRemove(AvgOf(s), Head(s)),
          min |-> MinOnRemove(MinOf(s), Head(s)), max |-> MaxOnRemove(MaxOf(s), Head(s))]
         = WindowOf(Tail(s))
BY AvgRemove, MinRemove, MaxRemove DEF WindowOf

\* One field after the other.
LEMMA Fields ==
  ASSUME NEW d, NEW a, NEW m, NEW x, NEW e, NEW f, NEW g, NEW w,
         w = [data |-> d, avg |-> a, min |-> m, max |-> x]
  PROVE  [w EXCEPT !.avg = e, !.min = f, !.max = g] = [data |-> d, avg |-> e, min |-> f, max |-> g]
<1>1. PICK w1 : w1 = [w EXCEPT !.avg = e]
  OBVIOUS
<1>2. w1 = [data |-> d, avg |-> e, min |-> m, max |-> x]
  BY <1>1
<1>3. PICK w2 : w2 = [w1 EXCEPT !.min = f]
  OBVIOUS
<1>4. w2 = [data |-> d, avg |-> e, min |-> f, max |-> x]
  BY <1>2, <1>3
<1>5. PICK w3 : w3 = [w2 EXCEPT !.max = g]
  OBVIOUS
<1>6. w3 = [data |-> d, avg |-> e, min |-> f, max |-> g]
  BY <1>4, <1>5
<1>7. [[[w EXCEPT !.avg = e] EXCEPT !.min = f] EXCEPT !.max = g] =
      [w EXCEPT !.avg = e, !.min = f, !.max = g]
  OBVIOUS
<1>8. w3 = [[[w EXCEPT !.avg = e] EXCEPT !.min = f] EXCEPT !.max = g]
  BY <1>1, <1>3, <1>5
<1>. QED BY <1>6, <1>7, <1>8

\* Each tracker is told of a sample that comes or goes.
LEMMA Told ==
  ASSUME NEW d, NEW a, NEW m, NEW x, NEW v, NEW w, w = [data |-> d, avg |-> a, min |-> m, max |-> x]
  PROVE  /\ UpdateTrackersOnAdd(w, v) =
              [data |-> d, avg |-> AvgOnAdd(a, v), min |-> MinOnAdd(m, v), max |-> MaxOnAdd(x, v)]
         /\ UpdateTrackersOnRemove(w, v) =
              [data |-> d, avg |-> AvgOnRemove(a, v), min |-> MinOnRemove(m, v),
               max |-> MaxOnRemove(x, v)]
         /\ PooledUpdate("add", w, v) = UpdateTrackersOnAdd(w, v)
         /\ PooledUpdate("remove", w, v) = UpdateTrackersOnRemove(w, v)
<1>1. w.data = d /\ w.avg = a /\ w.min = m /\ w.max = x
  OBVIOUS
<1>4. UpdateTrackersOnAdd(w, v) =
        [w EXCEPT !.avg = AvgOnAdd(a, v), !.min = MinOnAdd(m, v), !.max = MaxOnAdd(x, v)]
  BY <1>1 DEF UpdateTrackersOnAdd
<1>5. UpdateTrackersOnRemove(w, v) =
        [w EXCEPT !.avg = AvgOnRemove(a, v), !.min = MinOnRemove(m, v), !.max = MaxOnRemove(x, v)]
  BY <1>1 DEF UpdateTrackersOnRemove
<1>6. /\ PooledUpdate("add", w, v) = UpdateTrackersOnAdd(w, v)
      /\ PooledUpdate("remove", w, v) = UpdateTrackersOnRemove(w, v)
  BY DEF PooledUpdate, UpdateTrackersOnAdd, UpdateTrackersOnRemove, AvgTracker, MinTracker,
         MaxTracker
<1>. QED BY <1>4, <1>5, <1>6, Fields

\* A window of the newest samples stays one when a sample is added, in the storage ...
LEMMA AddDataIs ==
  ASSUME NEW s \in Seq(Nat), NEW v \in Nat
  PROVE  AddData(WindowOf(s), v) = WindowOf(Shifted(s, v))
<1>. DEFINE t == Append(s, v)
            w == [WindowOf(s) EXCEPT !.data = t]
            r == Tail(t)
            h == Head(t)
            u == [WindowOf(t) EXCEPT !.data = r]
<1>1. Len(t) = Len(s) + 1 /\ t \in Seq(Nat) /\ t # << >>
  BY Grown
<1>2. \A x : WindowOf(x).data = x
  BY DEF WindowOf
<1>3. UpdateTrackersOnAdd(w, v) = WindowOf(t)
  <2>1. w = [data |-> t, avg |-> AvgOf(s), min |-> MinOf(s), max |-> MaxOf(s)]
    <3>. HIDE DEF t
    <3>. QED BY DEF WindowOf
  <2>2. UpdateTrackersOnAdd(w, v) = [data |-> t, avg |-> AvgOnAdd(AvgOf(s), v),
                    min |-> MinOnAdd(MinOf(s), v), max |-> MaxOnAdd(MaxOf(s), v)]
    <3>. HIDE DEF w, t
    <3>. QED BY <2>1, Told
  <2>. QED BY <2>2, Grown
<1>. HIDE DEF t
<1>4. UpdateTrackersOnRemove(u, h) = WindowOf(r)
  <2>1. u = [data |-> r, avg |-> AvgOf(t), min |-> MinOf(t), max |-> MaxOf(t)]
    <3>. HIDE DEF r
    <3>. QED BY DEF WindowOf
  <2>2. UpdateTrackersOnRemove(u, h) = [data |-> r, avg |-> AvgOnRemove(AvgOf(t), h),
                    min |-> MinOnRemove(MinOf(t), h), max |-> MaxOnRemove(MaxOf(t), h)]
    <3>. HIDE DEF u, r, h
    <3>. QED BY <2>1, Told
  <2>. QED BY <1>1, <2>2, Shrunk
<1>5. [WindowOf(s) EXCEPT !.data = Append(@, v)] = w /\ [WindowOf(t) EXCEPT !.data = Tail(@)] = u
  BY <1>2 DEF t
<1>6. AddData(WindowOf(s), v) = IF Len(t) <= WindowSize THEN WindowOf(t)
                             ELSE UpdateTrackersOnRemove(u, h)
  <2>. HIDE DEF w, u
  <2>1. \A g : g = UpdateTrackersOnAdd(w, v) =>
                AddData(WindowOf(s), v) =
                  IF Len(g.data) <= WindowSize THEN g
                  ELSE UpdateTrackersOnRemove([g EXCEPT !.data = Tail(@)], Head(g.data))
    BY <1>5 DEF AddData
  <2>. QED BY <1>2, <1>3, <1>5, <2>1
<1>. QED BY <1>1, <1>4, <1>6 DEF Shifted, t

\* ... and in the pooled storage.
LEMMA PooledAddDataIs ==
  ASSUME NEW s \in Seq(Nat), NEW v \in Nat
  PROVE  PooledAddData(WindowOf(s), v) = WindowOf(Shifted(s, v))
<1>. DEFINE t == Append(s, v)
            w == [WindowOf(s) EXCEPT !.data = t]
            r == Tail(t)
            h == Head(t)
            u == [WindowOf(t) EXCEPT !.data = r]
<1>1. Len(t) = Len(s) + 1 /\ t \in Seq(Nat) /\ t # << >>
  BY Grown
<1>2. \A x : WindowOf(x).data = x
  BY DEF WindowOf
<1>3. PooledUpdate("add", w, v) = WindowOf(t)
  <2>1. w = [data |-> t, avg |-> AvgOf(s), min |-> MinOf(s), max |-> MaxOf(s)]
    <3>. HIDE DEF t
    <3>. QED BY DEF WindowOf
  <2>2. PooledUpdate("add", w, v) = [data |-> t, avg |-> AvgOnAdd(AvgOf(s), v),
                    min |-> MinOnAdd(MinOf(s), v), max |-> MaxOnAdd(MaxOf(s), v)]
    <3>. HIDE DEF w, t
    <3>. QED BY <2>1, Told
  <2>. QED BY <2>2, Grown
<1>. HIDE DEF t
<1>4. PooledUpdate("remove", u, h) = WindowOf(r)
  <2>1. u = [data |-> r, avg |-> AvgOf(t), min |-> MinOf(t), max |-> MaxOf(t)]
    <3>. HIDE DEF r
    <3>. QED BY DEF WindowOf
  <2>2. PooledUpdate("remove", u, h) = [data |-> r, avg |-> AvgOnRemove(AvgOf(t), h),
                    min |-> MinOnRemove(MinOf(t), h), max |-> MaxOnRemove(MaxOf(t), h)]
    <3>. HIDE DEF u, r, h
    <3>. QED BY <2>1, Told
  <2>. QED BY <1>1, <2>2, Shrunk
<1>5. [WindowOf(s) EXCEPT !.data = Append(@, v)] = w /\ [WindowOf(t) EXCEPT !.data = Tail(@)] = u
  BY <1>2 DEF t
<1>6. PooledAddData(WindowOf(s), v) = IF Len(t) <= WindowSize THEN WindowOf(t)
                             ELSE PooledUpdate("remove", u, h)
  <2>. HIDE DEF w, u
  <2>1. \A g : g = PooledUpdate("add", w, v) =>
                PooledAddData(WindowOf(s), v) =
                  IF Len(g.data) <= WindowSize THEN g
                  ELSE PooledUpdate("remove", [g EXCEPT !.data = Tail(@)], Head(g.data))
    BY <1>5 DEF PooledAddData
  <2>. QED BY <1>2, <1>3, <1>5, <2>1
<1>. QED BY <1>1, <1>4, <1>6 DEF Shifted, t

-----------------------------------------------------------------------------
(* The newest samples.                                                     *)

LEMMA NewestType ==
  ASSUME NEW V, NEW s \in Seq(V), NEW n \in Nat
  PROVE  /\ Newest(n, s) \in Seq(V)
         /\ Len(Newest(n, s)) = IF Len(s) > n THEN n ELSE Len(s)
         /\ \A i \in 1 .. Len(Newest(n, s)) :
              Newest(n, s)[i] = s[i + (IF Len(s) > n THEN Len(s) - n ELSE 0)]
<1>. DEFINE k == IF Len(s) > n THEN Len(s) - n ELSE 0
<1>1. Len(s) \in Nat /\ k \in 0 .. Len(s)
  BY LenProperties
<1>2. \A i \in 1 + k .. Len(s) : s[i] \in V
  BY <1>1
<1>3. /\ SubSeq(s, 1 + k, Len(s)) \in Seq(V)
      /\ Len(SubSeq(s, 1 + k, Len(s))) = IF 1 + k <= Len(s) THEN Len(s) - (1 + k) + 1 ELSE 0
      /\ \A i \in 1 .. Len(s) - (1 + k) + 1 : SubSeq(s, 1 + k, Len(s))[i] = s[(1 + k) + i - 1]
  <2>. HIDE DEF k
  <2>. QED BY <1>1, <1>2, SubSeqProperties
<1>4. \A i \in 1 .. Len(s) - k : (1 + k) + i - 1 = i + k /\ Len(s) - (1 + k) + 1 = Len(s) - k
  BY <1>1
<1>5. Newest(n, s) = SubSeq(s, 1 + k, Len(s))
  BY DEF Newest
<1>6. Len(Newest(n, s)) = Len(s) - k
  <2>. HIDE DEF k
  <2>. QED BY <1>1, <1>3, <1>5
<1>8. Len(s) - k = IF Len(s) > n THEN n ELSE Len(s)
  BY <1>1
<1>7. \A i \in 1 .. Len(s) - k : Newest(n, s)[i] = s[i + k]
  <2>. HIDE DEF k
  <2>. QED BY <1>3, <1>4, <1>5
<1>. QED BY <1>3, <1>5, <1>6, <1>7, <1>8

\* The newest after one more: the oldest of them leaves when they are too many.
LEMMA NewestAppend ==
  ASSUME NEW V, NEW s \in Seq(V), NEW v \in V
  PROVE  Shifted(Newest(WindowSize, s), v) = Newest(WindowSize, Append(s, v))
<1>. DEFINE t == Append(s, v)
            x == Newest(WindowSize, s)
            y == Newest(WindowSize, t)
            z == Append(x, v)
<1>1. /\ t \in Seq(V) /\ Len(t) = Len(s) + 1 /\ Len(s) \in Nat
      /\ \A i \in 1 .. Len(s) : t[i] = s[i]
      /\ t[Len(s) + 1] = v
  BY AppendProperties, LenProperties
<1>2. WindowSize \in Nat \ {0}
  BY ConfigAssumption
<1>3. /\ x \in Seq(V) /\ Len(x) = IF Len(s) > WindowSize THEN WindowSize ELSE Len(s)
      /\ \A i \in 1 .. Len(x) :
           x[i] = s[i + (IF Len(s) > WindowSize THEN Len(s) - WindowSize ELSE 0)]
  BY <1>2, NewestType
<1>4. /\ y \in Seq(V) /\ Len(y) = IF Len(t) > WindowSize THEN WindowSize ELSE Len(t)
      /\ \A i \in 1 .. Len(y) :
           y[i] = t[i + (IF Len(t) > WindowSize THEN Len(t) - WindowSize ELSE 0)]
  <2>. HIDE DEF t
  <2>. QED BY <1>1, <1>2, NewestType
<1>5. /\ z \in Seq(V) /\ Len(z) = Len(x) + 1 /\ Len(x) \in Nat
      /\ \A i \in 1 .. Len(x) : z[i] = x[i]
      /\ z[Len(x) + 1] = v
  <2>. HIDE DEF x
  <2>. QED BY <1>3, AppendProperties, LenProperties
<1>6. /\ Tail(z) \in Seq(V) /\ Len(Tail(z)) = Len(x) /\ \A i \in 1 .. Len(x) : Tail(z)[i] = z[i + 1]
  <2>. HIDE DEF x, z
  <2>1. z # << >>
    BY <1>5
  <2>. QED BY <1>5, <2>1, HeadTailProperties
<1>. HIDE DEF t, x, y, z
<1>7. CASE Len(x) + 1 <= WindowSize
  <2>1. Len(s) < WindowSize /\ Len(x) = Len(s) /\ Len(y) = Len(z)
    BY <1>1, <1>2, <1>3, <1>4, <1>5, <1>7
  <2>2. \A i \in 1 .. Len(z) : z[i] = y[i]
    <3>. SUFFICES ASSUME NEW i \in 1 .. Len(z) PROVE z[i] = y[i]
      OBVIOUS
    <3>1. y[i] = t[i]
      BY <1>1, <1>2, <1>4, <2>1
    <3>2. i \in 1 .. Len(x) => x[i] = s[i]
      BY <1>1, <1>2, <1>3, <2>1
    <3>. QED BY <1>1, <1>5, <2>1, <3>1, <3>2
  <2>3. z = y
    BY <1>4, <1>5, <2>1, <2>2, SeqEqual
  <2>. QED BY <1>7, <2>3 DEF Shifted, x, y, z, t
<1>8. CASE ~(Len(x) + 1 <= WindowSize)
  <2>1. Len(s) >= WindowSize /\ Len(x) = WindowSize /\ Len(y) = WindowSize
    BY <1>1, <1>2, <1>3, <1>4, <1>5, <1>8
  <2>2. \A i \in 1 .. WindowSize : Tail(z)[i] = y[i]
    <3>. SUFFICES ASSUME NEW i \in 1 .. WindowSize PROVE Tail(z)[i] = y[i]
      OBVIOUS
    <3>1. y[i] = t[i + (Len(s) + 1 - WindowSize)]
      <4>1. Len(t) = Len(s) + 1 /\ Len(t) > WindowSize /\ i \in 1 .. Len(y)
        BY <1>1, <1>2, <2>1
      <4>. QED BY <1>4, <4>1
    <3>2. Tail(z)[i] = z[i + 1]
      BY <1>6, <2>1
    <3>3. i + 1 \in 1 .. Len(x) => x[i + 1] = s[i + 1 + (Len(s) - WindowSize)]
      BY <1>1, <1>2, <1>3, <2>1
    <3>4. i + 1 + (Len(s) - WindowSize) = i + (Len(s) + 1 - WindowSize)
      BY <1>1, <1>2
    <3>5. CASE i + 1 \in 1 .. Len(x)
      <4>1. i + (Len(s) + 1 - WindowSize) \in 1 .. Len(s)
        BY <1>1, <1>2, <2>1, <3>5
      <4>. QED BY <1>1, <1>5, <3>1, <3>2, <3>3, <3>4, <3>5, <4>1
    <3>6. CASE i + 1 = Len(x) + 1
      <4>1. i + (Len(s) + 1 - WindowSize) = Len(s) + 1
        BY <1>1, <1>2, <2>1, <3>6
      <4>. QED BY <1>1, <1>5, <3>1, <3>2, <3>6, <4>1
    <3>7. i + 1 \in 1 .. Len(x) \/ i + 1 = Len(x) + 1
      BY <1>2, <2>1
    <3>. QED BY <3>5, <3>6, <3>7
  <2>3. Tail(z) = y
    BY <1>4, <1>6, <2>1, <2>2, SeqEqual
  <2>. QED BY <1>8, <2>3 DEF Shifted, x, y, z, t
<1>. QED BY <1>7, <1>8

LEMMA NewestOne ==
  ASSUME NEW V, NEW s \in Seq(V), NEW v \in V
  PROVE  Newest(1, Append(s, v)) = <<v>>
<1>. DEFINE t == Append(s, v)
            y == Newest(1, t)
<1>1. /\ t \in Seq(V) /\ Len(t) = Len(s) + 1 /\ Len(s) \in Nat
      /\ t[Len(s) + 1] = v
  BY AppendProperties, LenProperties
<1>2. /\ y \in Seq(V) /\ Len(y) = IF Len(t) > 1 THEN 1 ELSE Len(t)
      /\ \A i \in 1 .. Len(y) : y[i] = t[i + (IF Len(t) > 1 THEN Len(t) - 1 ELSE 0)]
  <2>1. 1 \in Nat
    OBVIOUS
  <2>. HIDE DEF t
  <2>. QED BY <1>1, <2>1, NewestType
<1>. HIDE DEF t, y
<1>3. Len(y) = 1 /\ y[1] = v
  BY <1>1, <1>2
<1>4. y = <<v>>
  BY <1>2, <1>3
<1>. QED BY <1>4 DEF t, y

\* What the storages answer about the window of s.
LEMMA AnswersDescribe ==
  ASSUME NEW s \in Seq(Nat \ {0}), NEW v \in Nat
  PROVE  LET r == Readings(WindowOf(s), v)
             d == r.deviations
         IN  /\ r.data = s
             /\ s = << >> => r.avg = << >> /\ r.min = << >> /\ r.max = << >> /\ d.above = << >>
             /\ s # << >> =>
                  /\ r.avg = <<Sum(s), Len(s)>>
                  /\ r.min = <<Min(ToSet(s))>> /\ r.max = <<Max(ToSet(s))>>
                  /\ d.above = <<Exceeds(d.ratioAbs, RatioThreshold)>>
                  /\ d.deviation[1] * Sum(s) = d.ratio[1] * Sum(s)
                  /\ Absolute(d.percent[1]) = 100 * d.ratioAbs[1]
<1>. DEFINE w == WindowOf(s)
            n == Len(s)
            k == Sum(s)
            D == v * n - k
            d == DeviationTracker(w.avg, v, RatioThreshold)
            r == Readings(w, v)
<1>1. k \in Nat /\ k >= n /\ n \in Nat /\ (s = << >> <=> n = 0)
  BY SumPositive, LenProperties, EmptySeq
<1>2. /\ w.data = s /\ w.avg = [sum |-> k, count |-> n]
      /\ w.min.extreme = (IF s = << >> THEN << >> ELSE <<Min(ToSet(s))>>)
      /\ w.max.extreme = (IF s = << >> THEN << >> ELSE <<Max(ToSet(s))>>)
  BY DEF WindowOf, AvgOf, MinOf, MaxOf
<1>3. /\ w.avg.sum = k /\ w.avg.count = n
  BY <1>2
<1>4. (HasAvg(w.avg) <=> s # << >>) /\ (HasRatio(w.avg) <=> s # << >>) /\ Distance(w.avg, v) = D
  <2>. HIDE DEF w, n, k
  <2>. QED BY <1>1, <1>3 DEF HasAvg, HasRatio, Distance
<1>5. /\ r.data = w.data /\ r.min = w.min.extreme /\ r.max = w.max.extreme
      /\ r.avg = (IF HasAvg(w.avg) THEN <<w.avg.sum, w.avg.count>> ELSE << >>)
      /\ r.deviations = d
  BY DEF Readings
<1>6. D \in Int /\ (Absolute(k) = k)
  <2>. HIDE DEF n, k
  <2>. QED BY <1>1 DEF Absolute
<1>. HIDE DEF D, n, k, w
<1>7. /\ d.deviation = GetDeviation(w.avg, v) /\ d.ratio = GetDeviationRatio(w.avg, v)
      /\ d.percent = GetDeviationPercent(w.avg, v) /\ d.ratioAbs = GetDeviationRatioAbs(w.avg, v)
      /\ d.above = IsDeviationRatioAboveThreshold(w.avg, v, RatioThreshold)
  BY DEF DeviationTracker
<1>. HIDE DEF d, r
<1>8. CASE s = << >>
  BY <1>2, <1>4, <1>5, <1>7, <1>8 DEF IsDeviationRatioAboveThreshold, w, d, r
<1>9. CASE s # << >>
  <2>1. /\ d.deviation = <<D, n>> /\ d.ratio = <<D, k>> /\ d.percent = <<100 * D, k>>
        /\ d.ratioAbs = <<Absolute(D), k>>
        /\ d.above = <<Exceeds(<<Absolute(D), k>>, RatioThreshold)>>
    BY <1>3, <1>4, <1>6, <1>7, <1>9
       DEF GetDeviation, GetDeviationRatio, GetDeviationPercent, GetDeviationRatioAbs,
           IsDeviationRatioAboveThreshold
  <2>2. /\ d.deviation[1] = D /\ d.ratio[1] = D
        /\ d.percent[1] = 100 * D /\ d.ratioAbs[1] = Absolute(D)
    BY <2>1
  <2>3. Absolute(100 * D) = 100 * Absolute(D)
    BY <1>6 DEF Absolute
  <2>4. r.avg = <<k, n>> /\ r.min = <<Min(ToSet(s))>> /\ r.max = <<Max(ToSet(s))>> /\ r.data = s
    BY <1>2, <1>3, <1>4, <1>5, <1>9
  <2>5. d.above = <<Exceeds(d.ratioAbs, RatioThreshold)>>
    BY <2>1
  <2>. QED BY <1>5, <1>9, <2>2, <2>3, <2>4, <2>5 DEF k, n, r, w
<1>. QED BY <1>8, <1>9

-----------------------------------------------------------------------------
(* The values of the jobs of one kind.                                     *)

Matches(job, op, a) == job.op = op /\ job.asset = a

\* F[i] are the values of the first i jobs.
IsValues(F, jobs, op, a, V) ==
  /\ F \in [0 .. Len(jobs) -> Seq(V)] /\ F[0] = << >>
  /\ \A i \in 1 .. Len(jobs) :
       F[i] = IF Matches(jobs[i], op, a) THEN Append(F[i - 1], jobs[i].value) ELSE F[i - 1]

\* The recursion that defines ValuesOf.
LEMMA ValuesDef ==
  ASSUME NEW J, NEW jobs \in Seq(J), NEW op, NEW a, NEW V,
         \A i \in 1 .. Len(jobs) : Matches(jobs[i], op, a) => jobs[i].value \in V
  PROVE  \E F : IsValues(F, jobs, op, a, V) /\ ValuesOf(jobs, op, a) = F[Len(jobs)]
<1>1. Len(jobs) \in Nat
  BY LenProperties
<1>. DEFINE M(i) == Matches(jobs[i], op, a)
            step == [p \in (1 .. Len(jobs)) \X Seq(V) |->
                       IF M(p[1]) THEN Append(p[2], jobs[p[1]].value) ELSE p[2]]
            Is(F) == F = [n \in 0 .. Len(jobs) |->
                            IF n = 0 THEN << >>
                            ELSE IF M(n) THEN Append(F[n - 1], jobs[n].value) ELSE F[n - 1]]
<1>2. step \in [(1 .. Len(jobs)) \X Seq(V) -> Seq(V)]
  <2>. HIDE DEF M
  <2>1. \A p \in (1 .. Len(jobs)) \X Seq(V) :
          (IF M(p[1]) THEN Append(p[2], jobs[p[1]].value) ELSE p[2]) \in Seq(V)
    <3>. TAKE p \in (1 .. Len(jobs)) \X Seq(V)
    <3>1. p[1] \in 1 .. Len(jobs) /\ p[2] \in Seq(V)
      OBVIOUS
    <3>2. M(p[1]) => jobs[p[1]].value \in V
      BY <3>1 DEF M
    <3>3. M(p[1]) => Append(p[2], jobs[p[1]].value) \in Seq(V)
      BY <3>1, <3>2, AppendProperties
    <3>. QED BY <3>1, <3>3
  <2>. QED BY <2>1
<1>3. PICK F : Recurs(F, Len(jobs), Seq(V), << >>, step)
  <2>1. << >> \in Seq(V)
    BY EmptySeq
  <2>. HIDE DEF step
  <2>. QED BY <1>1, <1>2, <2>1, Recursion, Zenon
<1>4. Is(F)
  <2>. HIDE DEF M
  <2>1. ASSUME NEW i \in 1 .. Len(jobs)
        PROVE  F[i] = IF M(i) THEN Append(F[i - 1], jobs[i].value) ELSE F[i - 1]
    <3>1. i - 1 \in 0 .. Len(jobs)
      BY <1>1
    <3>2. F[i - 1] \in Seq(V)
      BY <3>1, <1>3 DEF Recurs
    <3>3. <<i, F[i - 1]>> \in (1 .. Len(jobs)) \X Seq(V)
      BY <3>2
    <3>4. F[i] = step[<<i, F[i - 1]>>]
      BY <1>3 DEF Recurs
    <3>. QED BY <3>3, <3>4
  <2>2. \A n \in 0 .. Len(jobs) :
          F[n] = IF n = 0 THEN << >>
                 ELSE IF M(n) THEN Append(F[n - 1], jobs[n].value) ELSE F[n - 1]
    <3>. TAKE n \in 0 .. Len(jobs)
    <3>1. n = 0 \/ n \in 1 .. Len(jobs)
      BY <1>1
    <3>2. F[0] = << >>
      BY <1>3 DEF Recurs
    <3>. QED BY <3>1, <3>2, <2>1
  <2>. QED BY <1>3, <2>2 DEF Recurs
<1>. DEFINE G == CHOOSE G : Is(G)
<1>5. Is(G)
  BY <1>4
<1>6. ValuesOf(jobs, op, a) = G[Len(jobs)]
  BY DEF ValuesOf, Matches
<1>. HIDE DEF G
<1>7. G = [n \in 0 .. Len(jobs) |->
             IF n = 0 THEN << >>
             ELSE IF M(n) THEN Append(G[n - 1], jobs[n].value) ELSE G[n - 1]]
  BY <1>5
<1>. HIDE DEF M
<1>8. /\ DOMAIN G = 0 .. Len(jobs) /\ G[0] = << >>
      /\ \A i \in 1 .. Len(jobs) :
           G[i] = IF M(i) THEN Append(G[i - 1], jobs[i].value) ELSE G[i - 1]
  <2>1. \A n \in 0 .. Len(jobs) :
          G[n] = IF n = 0 THEN << >>
                 ELSE IF M(n) THEN Append(G[n - 1], jobs[n].value) ELSE G[n - 1]
    BY <1>7
  <2>2. DOMAIN G = 0 .. Len(jobs)
    BY <1>7
  <2>3. 0 \in 0 .. Len(jobs) /\ \A i \in 1 .. Len(jobs) : i \in 0 .. Len(jobs) /\ i # 0
    BY <1>1
  <2>4. G[0] = << >>
    BY <2>1, <2>3
  <2>5. ASSUME NEW i \in 1 .. Len(jobs)
        PROVE  G[i] = IF M(i) THEN Append(G[i - 1], jobs[i].value) ELSE G[i - 1]
    BY <2>1, <2>3
  <2>. QED BY <2>2, <2>4, <2>5
<1>9. G \in [0 .. Len(jobs) -> Seq(V)]
  <2>. DEFINE T == {n \in 0 .. Len(jobs) : G[n] \in Seq(V)}
  <2>1. 0 \in T
    <3>1. << >> \in Seq(V) /\ 0 \in 0 .. Len(jobs)
      BY <1>1, EmptySeq
    <3>. QED BY <1>8, <3>1
  <2>2. \A i \in 1 .. Len(jobs) : i - 1 \in T => i \in T
    <3>. SUFFICES ASSUME NEW i \in 1 .. Len(jobs), G[i - 1] \in Seq(V) PROVE G[i] \in Seq(V)
      BY <1>1
    <3>1. M(i) => jobs[i].value \in V
      BY DEF M
    <3>2. M(i) => Append(G[i - 1], jobs[i].value) \in Seq(V)
      BY <3>1, AppendProperties
    <3>. QED BY <1>8, <3>2
  <2>3. \A i \in 0 .. Len(jobs) : i \in T
    <3>. HIDE DEF T
    <3>. QED BY <1>1, <2>1, <2>2, UpTo
  <2>4. G = [n \in 0 .. Len(jobs) |-> G[n]]
    BY <1>7
  <2>. QED BY <2>3, <2>4
<1>. QED BY <1>6, <1>8, <1>9 DEF IsValues, M

LEMMA ValuesNone ==
  ASSUME NEW op, NEW a
  PROVE  ValuesOf(<< >>, op, a) = << >>
<1>1. << >> \in Seq(Nat) /\ Len(<< >>) = 0
  BY EmptySeq
<1>. DEFINE e == << >>
<1>2. \A i \in 1 .. Len(e) : Matches(e[i], op, a) => e[i].value \in Nat
  BY <1>1
<1>3. PICK F : IsValues(F, e, op, a, Nat) /\ ValuesOf(e, op, a) = F[Len(e)]
  <2>1. e \in Seq(Nat)
    BY <1>1
  <2>. HIDE DEF e
  <2>. QED BY <1>2, <2>1, ValuesDef
<1>. QED BY <1>1, <1>3 DEF IsValues

\* A job's value goes to the history of its kind and asset and to no other.
LEMMA ValuesMore ==
  ASSUME NEW J, NEW jobs \in Seq(J), NEW job \in J, NEW op, NEW a, NEW V,
         \A i \in 1 .. Len(jobs) : Matches(jobs[i], op, a) => jobs[i].value \in V,
         Matches(job, op, a) => job.value \in V
  PROVE  /\ ValuesOf(jobs, op, a) \in Seq(V)
         /\ ValuesOf(Append(jobs, job), op, a) =
              IF Matches(job, op, a) THEN Append(ValuesOf(jobs, op, a), job.value)
              ELSE ValuesOf(jobs, op, a)
<1>. DEFINE t == Append(jobs, job)
            M(j) == Matches(j, op, a)
            D(j, x) == IF M(j) THEN Append(x, j.value) ELSE x
<1>1. /\ t \in Seq(J) /\ Len(t) = Len(jobs) + 1 /\ Len(jobs) \in Nat
      /\ \A i \in 1 .. Len(jobs) : t[i] = jobs[i]
      /\ t[Len(jobs) + 1] = job
  BY AppendProperties, LenProperties
<1>2. \A i \in 1 .. Len(t) : Matches(t[i], op, a) => t[i].value \in V
  <2>. HIDE DEF t
  <2>. TAKE i \in 1 .. Len(t)
  <2>1. i \in 1 .. Len(jobs) \/ i = Len(jobs) + 1
    BY <1>1
  <2>. QED BY <1>1, <2>1
<1>. HIDE DEF t
<1>3. PICK F : IsValues(F, jobs, op, a, V) /\ ValuesOf(jobs, op, a) = F[Len(jobs)]
  BY ValuesDef
<1>4. PICK G : IsValues(G, t, op, a, V) /\ ValuesOf(t, op, a) = G[Len(t)]
  BY <1>1, <1>2, ValuesDef
<1>5. /\ F \in [0 .. Len(jobs) -> Seq(V)] /\ F[0] = << >>
      /\ \A i \in 1 .. Len(jobs) : F[i] = D(jobs[i], F[i - 1])
  BY <1>3 DEF IsValues
<1>6. G[0] = << >> /\ \A i \in 1 .. Len(t) : G[i] = D(t[i], G[i - 1])
  BY <1>4 DEF IsValues
<1>. HIDE DEF D
<1>. DEFINE T == {i \in 0 .. Len(jobs) : F[i] = G[i]}
<1>7. 0 \in T
  BY <1>1, <1>5, <1>6
<1>8. \A i \in 1 .. Len(jobs) : i - 1 \in T => i \in T
  <2>. SUFFICES ASSUME NEW i \in 1 .. Len(jobs), F[i - 1] = G[i - 1] PROVE F[i] = G[i]
    BY <1>1
  <2>1. i \in 1 .. Len(t)
    BY <1>1
  <2>. QED BY <1>1, <1>5, <1>6, <2>1
<1>9. \A i \in 0 .. Len(jobs) : i \in T
  <2>. HIDE DEF T
  <2>. QED BY <1>1, <1>7, <1>8, UpTo
<1>10. F[Len(jobs)] = G[Len(jobs)]
  BY <1>1, <1>9
<1>11. G[Len(t)] = D(job, G[Len(jobs)])
  <2>1. Len(t) \in 1 .. Len(t) /\ Len(t) - 1 = Len(jobs) /\ t[Len(t)] = job
    BY <1>1
  <2>. QED BY <1>6, <2>1
<1>12. ValuesOf(t, op, a) = D(job, ValuesOf(jobs, op, a))
  BY <1>3, <1>4, <1>10, <1>11
<1>13. ValuesOf(jobs, op, a) \in Seq(V)
  <2>1. Len(jobs) \in 0 .. Len(jobs)
    BY <1>1
  <2>. QED BY <1>3, <1>5, <2>1
<1>. QED BY <1>12, <1>13 DEF t, D

-----------------------------------------------------------------------------
(* What windows and prices are once some jobs have been run.               *)

Jobs == [op : {"sample", "bid", "ask", "wait"}, asset : Assets, value : Nat]

\* Samples and quotes are prices; the number of a Wait is none.
Priced(jobs) == \A i \in 1 .. Len(jobs) : jobs[i].op # "wait" => jobs[i].value \in Prices

Windows(jobs) == [a \in Assets |-> WindowOf(Newest(WindowSize, ValuesOf(jobs, "sample", a)))]

Latest(jobs, op) == [a \in Assets |-> Newest(1, ValuesOf(jobs, op, a))]

LEMMA NewestNone ==
  ASSUME NEW n \in Nat
  PROVE  Newest(n, << >>) = << >>
<1>. DEFINE e == << >>
<1>1. e \in Seq(Nat) /\ Len(e) = 0
  BY EmptySeq
<1>. HIDE DEF e
<1>2. Newest(n, e) \in Seq(Nat) /\ Len(Newest(n, e)) = IF Len(e) > n THEN n ELSE Len(e)
  BY <1>1, NewestType
<1>3. Len(Newest(n, e)) = 0
  BY <1>1, <1>2
<1>4. Newest(n, e) = << >>
  BY <1>2, <1>3, EmptySeq
<1>. QED BY <1>4 DEF e

LEMMA WindowsNone ==
  ASSUME NEW op
  PROVE  /\ Windows(<< >>) = [a \in Assets |-> NewWindow]
         /\ Latest(<< >>, op) = [a \in Assets |-> << >>]
<1>1. 1 \in Nat /\ WindowSize \in Nat
  BY ConfigAssumption
<1>2. \A n \in Nat : Newest(n, << >>) = << >>
  BY NewestNone
<1>3. \A a, o : ValuesOf(<< >>, o, a) = << >>
  BY ValuesNone
<1>. QED BY <1>1, <1>2, <1>3, NewWindowIs DEF Windows, Latest

LEMMA PricesAreNumbers ==
  ASSUME NEW s \in Seq(Prices)
  PROVE  s \in Seq(Nat) /\ s \in Seq(Nat \ {0})
<1>1. Prices \subseteq Nat /\ Prices \subseteq Nat \ {0}
  BY ConfigAssumption
<1>. QED BY <1>1, SeqMonotonic

\* A job more changes the window or price it is about.
LEMMA WindowsMore ==
  ASSUME NEW jobs \in Seq(Jobs), Priced(jobs), NEW job \in Jobs,
         job.op # "wait" => job.value \in Prices
  PROVE  /\ job.op # "sample" => Windows(Append(jobs, job)) = Windows(jobs)
         /\ job.op = "sample" =>
              /\ Windows(Append(jobs, job)) =
                   [Windows(jobs) EXCEPT ![job.asset] = AddData(@, job.value)]
              /\ Windows(Append(jobs, job)) =
                   [Windows(jobs) EXCEPT ![job.asset] = PooledAddData(@, job.value)]
         /\ \A op \in {"bid", "ask"} :
              /\ job.op # op => Latest(Append(jobs, job), op) = Latest(jobs, op)
              /\ job.op = op =>
                   Latest(Append(jobs, job), op) =
                     [Latest(jobs, op) EXCEPT ![job.asset] = <<job.value>>]
<1>. DEFINE t == Append(jobs, job)
            H(op, a) == ValuesOf(jobs, op, a)
            K(op, a) == ValuesOf(t, op, a)
<1>1. ASSUME NEW op \in {"sample", "bid", "ask"}, NEW a
      PROVE  /\ H(op, a) \in Seq(Prices)
             /\ job.op = op /\ job.asset = a => K(op, a) = Append(H(op, a), job.value)
             /\ ~(job.op = op /\ job.asset = a) => K(op, a) = H(op, a)
  <2>1. \A i \in 1 .. Len(jobs) : Matches(jobs[i], op, a) => jobs[i].value \in Prices
    BY DEF Priced, Matches
  <2>2. Matches(job, op, a) => job.value \in Prices
    BY DEF Matches
  <2>3. /\ H(op, a) \in Seq(Prices)
        /\ K(op, a) = IF Matches(job, op, a) THEN Append(H(op, a), job.value) ELSE H(op, a)
    BY <2>1, <2>2, ValuesMore
  <2>. HIDE DEF H, K
  <2>. QED BY <2>3 DEF Matches
<1>2. /\ Windows(t) = [a \in Assets |-> WindowOf(Newest(WindowSize, K("sample", a)))]
      /\ Windows(jobs) = [a \in Assets |-> WindowOf(Newest(WindowSize, H("sample", a)))]
      /\ \A op : Latest(t, op) = [a \in Assets |-> Newest(1, K(op, a))]
      /\ \A op : Latest(jobs, op) = [a \in Assets |-> Newest(1, H(op, a))]
  BY DEF Windows, Latest
<1>3. job.asset \in Assets /\ WindowSize \in Nat
  BY ConfigAssumption DEF Jobs
<1>. HIDE DEF H, K, t
<1>4. ASSUME job.op # "sample" PROVE Windows(t) = Windows(jobs)
  <2>1. \A a : K("sample", a) = H("sample", a)
    BY <1>1, <1>4
  <2>. QED BY <1>2, <2>1
<1>5. ASSUME NEW op \in {"bid", "ask"}, job.op # op PROVE Latest(t, op) = Latest(jobs, op)
  <2>1. \A a : K(op, a) = H(op, a)
    BY <1>1, <1>5
  <2>. QED BY <1>2, <2>1
<1>6. ASSUME NEW op \in {"bid", "ask"}, job.op = op
      PROVE  Latest(t, op) = [Latest(jobs, op) EXCEPT ![job.asset] = <<job.value>>]
  <2>1. \A a : a # job.asset => K(op, a) = H(op, a)
    BY <1>1, <1>6
  <2>2. Newest(1, K(op, job.asset)) = <<job.value>>
    <3>1. H(op, job.asset) \in Seq(Prices) /\ K(op, job.asset) = Append(H(op, job.asset), job.value)
      BY <1>1, <1>6
    <3>2. job.value \in Prices
      BY <1>6
    <3>. QED BY <3>1, <3>2, NewestOne
  <2>3. [Latest(jobs, op) EXCEPT ![job.asset] = <<job.value>>] =
          [a \in Assets |-> IF a = job.asset THEN <<job.value>> ELSE Newest(1, H(op, a))]
    BY <1>2
  <2>4. \A a \in Assets : Newest(1, K(op, a)) =
                            IF a = job.asset THEN <<job.value>> ELSE Newest(1, H(op, a))
    BY <2>1, <2>2
  <2>. QED BY <1>2, <2>3, <2>4
<1>7. ASSUME job.op = "sample"
      PROVE  /\ Windows(t) = [Windows(jobs) EXCEPT ![job.asset] = AddData(@, job.value)]
             /\ Windows(t) = [Windows(jobs) EXCEPT ![job.asset] = PooledAddData(@, job.value)]
  <2>. DEFINE h == H("sample", job.asset)
              s == Newest(WindowSize, h)
              W(a) == WindowOf(Newest(WindowSize, H("sample", a)))
  <2>1. \A a : a # job.asset => K("sample", a) = H("sample", a)
    BY <1>1, <1>7
  <2>2. h \in Seq(Prices) /\ K("sample", job.asset) = Append(h, job.value) /\ job.value \in Prices
    BY <1>1, <1>7
  <2>3. Shifted(s, job.value) = Newest(WindowSize, K("sample", job.asset))
    BY <2>2, NewestAppend
  <2>4. s \in Seq(Nat) /\ job.value \in Nat
    <3>1. s \in Seq(Prices)
      BY <1>3, <2>2, NewestType
    <3>. QED BY <2>2, <3>1, PricesAreNumbers, ConfigAssumption
  <2>. HIDE DEF s
  <2>5. /\ AddData(WindowOf(s), job.value) = WindowOf(Newest(WindowSize, K("sample", job.asset)))
        /\ PooledAddData(WindowOf(s), job.value) =
             WindowOf(Newest(WindowSize, K("sample", job.asset)))
    BY <2>3, <2>4, AddDataIs, PooledAddDataIs
  <2>6. W(job.asset) = WindowOf(s) /\ Windows(jobs) = [a \in Assets |-> W(a)]
    BY <1>2 DEF s
  <2>7. /\ [Windows(jobs) EXCEPT ![job.asset] = AddData(@, job.value)] =
             [a \in Assets |-> IF a = job.asset THEN AddData(W(job.asset), job.value) ELSE W(a)]
        /\ [Windows(jobs) EXCEPT ![job.asset] = PooledAddData(@, job.value)] =
             [a \in Assets |->
                IF a = job.asset THEN PooledAddData(W(job.asset), job.value) ELSE W(a)]
    <3>. HIDE DEF W
    <3>. QED BY <1>3, <2>6
  <2>8. \A a \in Assets : WindowOf(Newest(WindowSize, K("sample", a))) =
           IF a = job.asset THEN WindowOf(Newest(WindowSize, K("sample", job.asset))) ELSE W(a)
    BY <2>1
  <2>. HIDE DEF W
  <2>. QED BY <1>2, <2>5, <2>6, <2>7, <2>8
<1>. QED BY <1>4, <1>5, <1>6, <1>7 DEF t

-----------------------------------------------------------------------------
(* The inductive invariant.                                                *)

\* How many jobs have been run.
Run == Len(posted) - Len(strand)

Types ==
  /\ kind \in {"engine", "observable"}
  /\ strand \in Seq(Jobs) /\ Len(strand) <= MaxQueued
  /\ posted \in Seq(Jobs) /\ Priced(posted)
  /\ returned \subseteq Nat

\* The strand holds what was posted and not yet run, in the order in which it was posted.
StrandIsRest ==
  /\ Len(strand) <= Len(posted)
  /\ \A i \in 1 .. Len(strand) : strand[i] = posted[Run + i]

\* A job of Wait carries the number of the jobs posted before it.
WaitsCount == \A i \in 1 .. Len(posted) : posted[i].op = "wait" => posted[i].value = i - 1

ReturnedAreRun == \A n \in returned : n <= Run

\* Windows with their trackers and prices are those of the jobs that were run.
WindowsKept ==
  /\ storage = Windows(Executed)
  /\ bid_price_ = Latest(Executed, "bid") /\ ask_price_ = Latest(Executed, "ask")

Inv == Types /\ StrandIsRest /\ WaitsCount /\ ReturnedAreRun /\ WindowsKept

LEMMA ExecutedType ==
  ASSUME Inv
  PROVE  /\ Executed \in Seq(Jobs) /\ Len(Executed) = Run /\ Run \in 0 .. Len(posted)
         /\ \A i \in 1 .. Run : Executed[i] = posted[i]
         /\ Priced(Executed)
<1>. USE DEF Inv
<1>1. Len(posted) \in Nat /\ Len(strand) \in Nat /\ Run \in 0 .. Len(posted)
  BY LenProperties DEF Types, StrandIsRest, Run
<1>2. \A i \in 1 .. Run : posted[i] \in Jobs
  BY <1>1 DEF Types
<1>3. Executed = SubSeq(posted, 1, Run)
  BY DEF Executed, Run
<1>4. /\ SubSeq(posted, 1, Run) \in Seq(Jobs) /\ Len(SubSeq(posted, 1, Run)) = Run
      /\ \A i \in 1 .. Run - 1 + 1 : SubSeq(posted, 1, Run)[i] = posted[1 + i - 1]
  BY <1>1, <1>2, SubSeqProperties
<1>5. \A i \in 1 .. Run : 1 + i - 1 = i /\ i \in 1 .. Run - 1 + 1 /\ i \in 1 .. Len(posted)
  BY <1>1
<1>6. \A i \in 1 .. Run : Executed[i] = posted[i]
  BY <1>3, <1>4, <1>5
<1>7. Priced(Executed)
  BY <1>3, <1>4, <1>5, <1>6 DEF Types, Priced
<1>. QED BY <1>1, <1>3, <1>4, <1>6, <1>7

\* The window of an asset, in the invariant's words.
LEMMA WindowIs ==
  ASSUME Inv, NEW a \in Assets
  PROVE  /\ storage[a] = WindowOf(Newest(WindowSize, History("sample", a)))
         /\ bid_price_[a] = Newest(1, History("bid", a))
         /\ ask_price_[a] = Newest(1, History("ask", a))
         /\ \A op \in {"sample", "bid", "ask"} : History(op, a) \in Seq(Prices)
<1>1. /\ storage[a] = WindowOf(Newest(WindowSize, History("sample", a)))
      /\ bid_price_[a] = Newest(1, History("bid", a))
      /\ ask_price_[a] = Newest(1, History("ask", a))
  BY DEF Inv, WindowsKept, Windows, Latest, History
<1>2. ASSUME NEW op \in {"sample", "bid", "ask"} PROVE History(op, a) \in Seq(Prices)
  <2>1. Executed \in Seq(Jobs) /\ Priced(Executed)
    BY ExecutedType
  <2>2. PICK x : x = Executed
    OBVIOUS
  <2>3. \A i \in 1 .. Len(x) : Matches(x[i], op, a) => x[i].value \in Prices
    BY <2>1, <2>2 DEF Priced, Matches
  <2>4. PICK F : IsValues(F, x, op, a, Prices) /\ ValuesOf(x, op, a) = F[Len(x)]
    BY <2>1, <2>2, <2>3, ValuesDef
  <2>5. Len(x) \in 0 .. Len(x)
    BY <2>1, <2>2, LenProperties
  <2>. QED BY <2>2, <2>4, <2>5 DEF IsValues, History
<1>. QED BY <1>1, <1>2

LEMMA DataIs ==
  ASSUME NEW x, NEW w, w = WindowOf(x)
  PROVE  w.data = x
BY DEF WindowOf

LEMMA WaitersInv == Inv => WaitersSeeTheirSamples
<1>. SUFFICES ASSUME Inv, NEW n \in returned PROVE n <= Len(Executed)
  BY DEF WaitersSeeTheirSamples
<1>. QED
  BY ExecutedType DEF Inv, ReturnedAreRun

LEMMA RecentInv == Inv => WindowIsRecentHistory
<1>. SUFFICES ASSUME Inv, NEW a \in Assets
              PROVE  /\ storage[a].data = Newest(WindowSize, History("sample", a))
                     /\ bid_price_[a] = Newest(1, History("bid", a))
                     /\ ask_price_[a] = Newest(1, History("ask", a))
  BY DEF WindowIsRecentHistory
<1>. QED BY WindowIs, DataIs

LEMMA NewestFits ==
  ASSUME NEW n \in Nat, NEW s \in Seq(Prices)
  PROVE  Newest(n, s) \in BoundedSeq(Prices, n)
<1>1. PICK x : x = Newest(n, s)
  OBVIOUS
<1>2. x \in Seq(Prices) /\ Len(x) = IF Len(s) > n THEN n ELSE Len(s)
  BY <1>1, NewestType
<1>3. Len(s) \in Nat
  BY LenProperties
<1>4. Len(x) \in 0 .. n
  BY <1>2, <1>3
<1>5. x \in [1 .. Len(x) -> Prices]
  BY <1>2, LenProperties
<1>. QED BY <1>1, <1>4, <1>5 DEF BoundedSeq, SeqOf

\* The last jobs of all, turned round, are the first of all turned round.
LEMMA RestIsSuffix ==
  ASSUME NEW S, NEW s \in Seq(S), NEW t \in Seq(S), Len(s) <= Len(t),
         \A i \in 1 .. Len(s) : s[i] = t[(Len(t) - Len(s)) + i]
  PROVE  IsSuffix(s, t)
<1>. DEFINE u == Reverse(s)
            w == Reverse(t)
            m == Len(s)
            n == Len(t)
<1>1. /\ m \in Nat /\ n \in Nat /\ m <= n
      /\ \A i \in 1 .. m : s[i] \in S
      /\ \A i \in 1 .. n : t[i] \in S
  BY LenProperties
<1>2. \A i \in 1 .. m : s[i] = t[(n - m) + i]
  OBVIOUS
<1>3. u = [i \in 1 .. m |-> s[(m - i) + 1]] /\ w = [i \in 1 .. n |-> t[(n - i) + 1]]
  BY DEF Reverse
<1>. HIDE DEF u, w, m, n
<1>4. /\ \A i \in 1 .. m : (m - i) + 1 \in 1 .. m
      /\ \A i \in 1 .. n : (n - i) + 1 \in 1 .. n
  BY <1>1
<1>5. u \in [1 .. m -> S] /\ w \in [1 .. n -> S]
  BY <1>1, <1>3, <1>4
<1>6. u \in Seq(S) /\ w \in Seq(S)
  BY <1>1, <1>5, SeqDef
<1>7. Len(u) = m /\ Len(w) = n
  BY <1>1, <1>5, <1>6, LenProperties
<1>8. ASSUME NEW i \in 1 .. m PROVE u[i] = w[i]
  <2>1. (m - i) + 1 \in 1 .. m /\ (n - m) + ((m - i) + 1) = (n - i) + 1 /\ i \in 1 .. n
    BY <1>1
  <2>. QED BY <1>2, <1>3, <2>1
<1>9. \A i \in 1 .. m : u[i] \in S /\ w[i] \in S
  BY <1>1, <1>5
<1>10. /\ SubSeq(u, 1, m) \in Seq(S) /\ Len(SubSeq(u, 1, m)) = m
       /\ \A i \in 1 .. m - 1 + 1 : SubSeq(u, 1, m)[i] = u[1 + i - 1]
  BY <1>1, <1>9, SubSeqProperties
<1>11. /\ SubSeq(w, 1, m) \in Seq(S) /\ Len(SubSeq(w, 1, m)) = m
       /\ \A i \in 1 .. m - 1 + 1 : SubSeq(w, 1, m)[i] = w[1 + i - 1]
  BY <1>1, <1>9, SubSeqProperties
<1>12. \A i \in 1 .. m : SubSeq(u, 1, m)[i] = SubSeq(w, 1, m)[i]
  <2>. TAKE i \in 1 .. m
  <2>1. i \in 1 .. m - 1 + 1 /\ 1 + i - 1 = i
    BY <1>1
  <2>. QED BY <1>8, <1>10, <1>11, <2>1
<1>13. SubSeq(u, 1, m) = SubSeq(w, 1, m)
  BY <1>10, <1>11, <1>12, SeqEqual
<1>. QED BY <1>1, <1>7, <1>13 DEF IsSuffix, IsPrefix, u, w

\* The invariant gives the properties.
LEMMA TypeInv == Inv => TypeOK
<1>. SUFFICES ASSUME Inv PROVE TypeOK
  OBVIOUS
<1>. USE DEF Inv
<1>1. 1 \in Nat /\ WindowSize \in Nat
  BY ConfigAssumption
<1>2. ASSUME NEW a \in Assets
      PROVE  /\ storage[a].data \in BoundedSeq(Prices, WindowSize)
             /\ bid_price_[a] \in BoundedSeq(Prices, 1) /\ ask_price_[a] \in BoundedSeq(Prices, 1)
  <2>1. storage[a].data = Newest(WindowSize, History("sample", a))
    BY WindowIs, DataIs
  <2>. QED BY <1>1, <2>1, WindowIs, NewestFits
<1>3. /\ bid_price_ \in [Assets -> BoundedSeq(Prices, 1)]
      /\ ask_price_ \in [Assets -> BoundedSeq(Prices, 1)]
  <2>1. /\ bid_price_ = [a \in Assets |-> bid_price_[a]]
        /\ ask_price_ = [a \in Assets |-> ask_price_[a]]
    BY DEF WindowsKept, Latest
  <2>. QED BY <1>2, <2>1
<1>4. IsSuffix(strand, posted)
  BY RestIsSuffix DEF Types, StrandIsRest, Run
<1>5. ASSUME NEW j \in ToSet(posted)
      PROVE  j.op \in {"sample", "bid", "ask", "wait"} /\ j.asset \in Assets
  <2>1. j \in Jobs
    BY ValuesType DEF Types
  <2>. QED BY <2>1 DEF Jobs
<1>6. returned \subseteq 0 .. Len(posted)
  <2>1. Run \in 0 .. Len(posted)
    BY ExecutedType
  <2>. QED BY <2>1 DEF Types, ReturnedAreRun
<1>. QED BY <1>2, <1>3, <1>4, <1>5, <1>6 DEF TypeOK, Types

LEMMA ReadingsInv == Inv => ReadingsDescribeWindow
<1>. SUFFICES ASSUME Inv, NEW a \in Assets, NEW v \in Prices
              PROVE  LET r == (IF kind = "engine" THEN CombinedReadings(storage[a], v)
                                ELSE PooledReadings(storage[a], v))
                         x == r.data
                         d == r.deviations
                     IN  IF x = << >>
                         THEN r.avg = << >> /\ r.min = << >> /\ r.max = << >> /\ d.above = << >>
                         ELSE /\ r.avg = <<Sum(x), Len(x)>>
                              /\ r.min = <<Min(ToSet(x))>> /\ r.max = <<Max(ToSet(x))>>
                              /\ d.above = <<Exceeds(d.ratioAbs, RatioThreshold)>>
                              /\ d.deviation[1] * Sum(x) = d.ratio[1] * Sum(x)
                              /\ Absolute(d.percent[1]) = 100 * d.ratioAbs[1]
  BY DEF ReadingsDescribeWindow
<1>1. PICK s : s = Newest(WindowSize, History("sample", a))
  OBVIOUS
<1>2. storage[a] = WindowOf(s)
  BY <1>1, WindowIs
<1>3. s \in Seq(Nat \ {0}) /\ v \in Nat
  <2>1. History("sample", a) \in Seq(Prices) /\ WindowSize \in Nat
    BY WindowIs, ConfigAssumption
  <2>2. s \in Seq(Prices)
    BY <1>1, <2>1, NewestType
  <2>. QED BY <2>2, PricesAreNumbers, ConfigAssumption
<1>4. PICK r : r = Readings(WindowOf(s), v)
  OBVIOUS
<1>5. PICK d : d = r.deviations
  OBVIOUS
<1>6. /\ r.data = s
      /\ s = << >> => r.avg = << >> /\ r.min = << >> /\ r.max = << >> /\ d.above = << >>
      /\ s # << >> =>
           /\ r.avg = <<Sum(s), Len(s)>>
           /\ r.min = <<Min(ToSet(s))>> /\ r.max = <<Max(ToSet(s))>>
           /\ d.above = <<Exceeds(d.ratioAbs, RatioThreshold)>>
           /\ d.deviation[1] * Sum(s) = d.ratio[1] * Sum(s)
           /\ Absolute(d.percent[1]) = 100 * d.ratioAbs[1]
  BY <1>3, <1>4, <1>5, AnswersDescribe
<1>7. (IF kind = "engine" THEN CombinedReadings(storage[a], v)
       ELSE PooledReadings(storage[a], v)) = r
  BY <1>2, <1>4 DEF CombinedReadings, PooledReadings
<1>. QED BY <1>5, <1>6, <1>7

-----------------------------------------------------------------------------
(* Posting and running.                                                    *)

\* Posting a job leaves the jobs that were run alone ...
LEMMA SameStart ==
  ASSUME NEW S, NEW s, NEW t, NEW n \in Nat, \A i \in 1 .. n : s[i] \in S /\ t[i] = s[i]
  PROVE  SubSeq(t, 1, n) = SubSeq(s, 1, n)
<1>1. \A i \in 1 .. n : s[i] \in S /\ t[i] \in S
  OBVIOUS
<1>2. /\ SubSeq(s, 1, n) \in Seq(S) /\ Len(SubSeq(s, 1, n)) = n
      /\ \A i \in 1 .. n - 1 + 1 : SubSeq(s, 1, n)[i] = s[1 + i - 1]
  BY <1>1, SubSeqProperties
<1>3. /\ SubSeq(t, 1, n) \in Seq(S) /\ Len(SubSeq(t, 1, n)) = n
      /\ \A i \in 1 .. n - 1 + 1 : SubSeq(t, 1, n)[i] = t[1 + i - 1]
  BY <1>1, SubSeqProperties
<1>4. \A i \in 1 .. n : SubSeq(s, 1, n)[i] = SubSeq(t, 1, n)[i]
  <2>. TAKE i \in 1 .. n
  <2>1. i \in 1 .. n - 1 + 1 /\ 1 + i - 1 = i
    OBVIOUS
  <2>. QED
    BY <1>2, <1>3, <2>1
<1>. QED
  BY <1>2, <1>3, <1>4, SeqEqual

\* ... and running the oldest one adds it to them.
LEMMA OneLonger ==
  ASSUME NEW S, NEW s, NEW n \in Nat, \A i \in 1 .. n + 1 : s[i] \in S
  PROVE  SubSeq(s, 1, n + 1) = Append(SubSeq(s, 1, n), s[n + 1])
<1>. DEFINE u == SubSeq(s, 1, n)
            w == SubSeq(s, 1, n + 1)
<1>1. /\ u \in Seq(S) /\ Len(u) = n
      /\ \A i \in 1 .. n - 1 + 1 : u[i] = s[1 + i - 1]
  BY SubSeqProperties
<1>2. /\ w \in Seq(S) /\ Len(w) = n + 1
      /\ \A i \in 1 .. (n + 1) - 1 + 1 : w[i] = s[1 + i - 1]
  BY SubSeqProperties
<1>. HIDE DEF u, w
<1>3. s[n + 1] \in S
  OBVIOUS
<1>4. /\ Append(u, s[n + 1]) \in Seq(S) /\ Len(Append(u, s[n + 1])) = n + 1
      /\ \A i \in 1 .. n : Append(u, s[n + 1])[i] = u[i]
      /\ Append(u, s[n + 1])[n + 1] = s[n + 1]
  BY <1>1, <1>3, AppendProperties
<1>5. ASSUME NEW i \in 1 .. n + 1 PROVE w[i] = Append(u, s[n + 1])[i]
  <2>1. i \in 1 .. (n + 1) - 1 + 1 /\ 1 + i - 1 = i
    OBVIOUS
  <2>2. i = n + 1 \/ (i \in 1 .. n /\ i \in 1 .. n - 1 + 1)
    OBVIOUS
  <2>. QED
    BY <1>1, <1>2, <1>4, <2>1, <2>2
<1>6. w = Append(u, s[n + 1])
  BY <1>2, <1>4, <1>5, SeqEqual
<1>. QED
  BY <1>6 DEF u, w

\* Windows and prices follow the job that is run.
WindowsFollow ==
  LET run == Append(Executed, Head(strand))
  IN  /\ storage' = Windows(run)
      /\ bid_price_' = Latest(run, "bid") /\ ask_price_' = Latest(run, "ask")

\* Callers post at the end, and a Wait with the count.
LEMMA PostKeeps ==
  ASSUME Inv, NEW job \in Jobs, Post(job), UNCHANGED returned,
         UNCHANGED <<kind, storage, bid_price_, ask_price_>>, Len(strand) < MaxQueued,
         job.op = "wait" => job.value = Len(posted), job.op # "wait" => job.value \in Prices
  PROVE  Inv'
<1>. USE DEF Inv
<1>1. /\ strand' = Append(strand, job) /\ posted' = Append(posted, job)
      /\ strand \in Seq(Jobs) /\ posted \in Seq(Jobs)
      /\ Len(strand) \in Nat /\ Len(posted) \in Nat /\ Len(strand) <= Len(posted)
  BY LenProperties DEF Post, Types, StrandIsRest
<1>2. /\ strand' \in Seq(Jobs) /\ posted' \in Seq(Jobs)
      /\ Len(strand') = Len(strand) + 1 /\ Len(posted') = Len(posted) + 1
      /\ \A i \in 1 .. Len(strand) : strand'[i] = strand[i]
      /\ \A i \in 1 .. Len(posted) : posted'[i] = posted[i]
      /\ strand'[Len(strand) + 1] = job /\ posted'[Len(posted) + 1] = job
  BY <1>1, AppendProperties
<1>3. Run' = Run /\ Run \in 0 .. Len(posted) /\ Run + Len(strand) = Len(posted)
  BY <1>1, <1>2 DEF Run
<1>4. Types'
  <2>1. Priced(posted')
    <3>. SUFFICES ASSUME NEW i \in 1 .. Len(posted'), posted'[i].op # "wait"
                  PROVE  posted'[i].value \in Prices
      BY DEF Priced
    <3>1. i \in 1 .. Len(posted) \/ i = Len(posted) + 1
      BY <1>1, <1>2
    <3>. QED
      BY <1>2, <3>1 DEF Types, Priced
  <2>2. Len(strand') <= MaxQueued
    BY <1>1, <1>2, BoundsAssumption
  <2>. QED
    BY <1>2, <2>1, <2>2 DEF Types
<1>5. \A i \in 1 .. Len(strand') : strand'[i] = posted'[Run + i]
  <2>. SUFFICES ASSUME NEW i \in 1 .. Len(strand') PROVE strand'[i] = posted'[Run + i]
    OBVIOUS
  <2>1. CASE i \in 1 .. Len(strand)
    <3>1. strand[i] = posted[Run + i] /\ Run + i \in 1 .. Len(posted)
      BY <1>1, <1>3, <2>1 DEF StrandIsRest
    <3>. QED
      BY <1>2, <2>1, <3>1
  <2>2. CASE i = Len(strand) + 1
    <3>1. Run + Len(strand) = Len(posted) /\ Len(strand) \in Nat /\ Len(posted) \in Nat
      BY <1>1, <1>3
    <3>2. Run + i = Len(posted) + 1
      BY <1>3, <2>2, <3>1
    <3>. QED
      BY <1>2, <2>2, <3>2
  <2>3. i \in 1 .. Len(strand) \/ i = Len(strand) + 1
    BY <1>1, <1>2
  <2>. QED
    BY <2>1, <2>2, <2>3
<1>6. StrandIsRest'
  <2>1. Len(strand') <= Len(posted')
    BY <1>1, <1>2
  <2>2. \A i \in 1 .. Len(strand') : strand'[i] = posted'[Run' + i]
    BY <1>3, <1>5
  <2>. QED
    BY <2>1, <2>2 DEF StrandIsRest
<1>7. WaitsCount'
  <2>. SUFFICES ASSUME NEW i \in 1 .. Len(posted'), posted'[i].op = "wait"
                PROVE  posted'[i].value = i - 1
    BY DEF WaitsCount
  <2>1. CASE i \in 1 .. Len(posted)
    BY <1>2, <2>1 DEF WaitsCount
  <2>2. CASE i = Len(posted) + 1
    BY <1>1, <1>2, <2>2
  <2>. QED
    BY <1>1, <1>2, <2>1, <2>2
<1>8. ReturnedAreRun'
  BY <1>3 DEF ReturnedAreRun
<1>9. WindowsKept'
  <2>1. Executed' = Executed
    <3>1. \A i \in 1 .. Run : i \in 1 .. Len(posted) /\ i \in 1 .. Len(posted')
      BY <1>1, <1>2, <1>3
    <3>2. \A i \in 1 .. Run : posted[i] \in Jobs /\ posted'[i] = posted[i]
      BY <1>1, <1>2, <3>1
    <3>3. Run \in Nat
      BY <1>1, <1>3
    <3>4. SubSeq(posted', 1, Run) = SubSeq(posted, 1, Run)
      BY <3>2, <3>3, SameStart
    <3>5. Executed = SubSeq(posted, 1, Run) /\ Executed' = SubSeq(posted', 1, Run')
      BY DEF Executed, Run
    <3>. QED
      BY <1>3, <3>4, <3>5
  <2>. QED
    BY <2>1 DEF WindowsKept, Windows, Latest
<1>. QED
  BY <1>4, <1>6, <1>7, <1>8, <1>9

\* The strand runs the oldest job: the first that has not been run of all that were posted.
LEMMA RunKeeps ==
  ASSUME Inv, RunsNext, WindowsFollow,
         \/ UNCHANGED returned
         \/ Head(strand).op = "wait" /\ returned' = returned \cup {Head(strand).value}
  PROVE  Inv'
<1>. USE DEF Inv
<1>1. /\ strand # << >> /\ strand' = Tail(strand) /\ posted' = posted
      /\ strand \in Seq(Jobs) /\ posted \in Seq(Jobs)
      /\ Len(posted) \in Nat /\ Len(strand) <= Len(posted)
  BY LenProperties DEF RunsNext, Types, StrandIsRest
<1>2. /\ strand' \in Seq(Jobs) /\ Len(strand') = Len(strand) - 1
      /\ Len(strand) \in Nat /\ Len(strand) >= 1
      /\ \A i \in 1 .. Len(strand') : strand'[i] = strand[i + 1]
      /\ Head(strand) = strand[1] /\ Head(strand) \in Jobs
  BY <1>1, HeadTailProperties, EmptySeq, LenProperties
<1>3. Run' = Run + 1 /\ Run \in 0 .. Len(posted) - 1
  BY <1>1, <1>2 DEF Run
<1>4. Head(strand) = posted[Run + 1] /\ Run + 1 \in 1 .. Len(posted)
  BY <1>1, <1>2, <1>3 DEF StrandIsRest
<1>5. Types'
  <2>1. Head(strand).value \in Nat
    BY <1>2 DEF Jobs
  <2>2. Len(strand') <= MaxQueued /\ kind' = kind
    BY <1>2, BoundsAssumption DEF Types, RunsNext
  <2>. QED
    BY <1>1, <1>2, <2>1, <2>2 DEF Types
<1>6. StrandIsRest'
  <2>1. \A i \in 1 .. Len(strand') : strand'[i] = posted'[Run' + i]
    <3>. SUFFICES ASSUME NEW i \in 1 .. Len(strand') PROVE strand'[i] = posted[Run + 1 + i]
      BY <1>1, <1>3
    <3>1. i + 1 \in 1 .. Len(strand) /\ Run + (i + 1) = Run + 1 + i
      BY <1>2, <1>3
    <3>2. strand[i + 1] = posted[Run + (i + 1)]
      BY <3>1 DEF StrandIsRest
    <3>. QED
      BY <1>2, <3>1, <3>2
  <2>. QED
    BY <1>1, <1>2, <2>1 DEF StrandIsRest
<1>7. WaitsCount'
  BY <1>1 DEF WaitsCount
<1>8. ReturnedAreRun'
  <2>. SUFFICES ASSUME NEW n \in returned' PROVE n <= Run + 1
    BY <1>3 DEF ReturnedAreRun
  <2>1. CASE n \in returned
    BY <1>3, <2>1 DEF ReturnedAreRun, Types
  <2>2. CASE Head(strand).op = "wait" /\ n = Head(strand).value
    <3>1. posted[Run + 1].op = "wait" /\ posted[Run + 1].value = n
      BY <1>4, <2>2
    <3>2. posted[Run + 1].value = (Run + 1) - 1
      BY <1>4, <3>1 DEF WaitsCount
    <3>. QED
      BY <1>3, <3>1, <3>2
  <2>. QED
    BY <2>1, <2>2
<1>9. WindowsKept'
  <2>1. Executed' = Append(Executed, Head(strand))
    <3>1. \A i \in 1 .. Run + 1 : posted[i] \in Jobs
      BY <1>1, <1>3
    <3>. QED
      BY <1>1, <1>3, <1>4, <3>1, OneLonger DEF Executed, Run
  <2>. QED
    BY <2>1 DEF WindowsFollow, WindowsKept
<1>. QED
  BY <1>5, <1>6, <1>7, <1>8, <1>9

-----------------------------------------------------------------------------
(* The steps.                                                              *)

LEMMA InitInv == Init => Inv
<1>. SUFFICES ASSUME Init PROVE Inv
  OBVIOUS
<1>1. strand = << >> /\ posted = << >> /\ returned = {} /\ kind \in {"engine", "observable"}
  BY DEF Init
<1>. DEFINE none == << >>
<1>2. none \in Seq(Jobs) /\ Len(none) = 0
  BY EmptySeq
<1>4. Types
  BY <1>1, <1>2, BoundsAssumption DEF Types, Priced
<1>5. WindowsKept
  <2>1. /\ storage = [a \in Assets |-> NewWindow]
        /\ bid_price_ = [a \in Assets |-> none] /\ ask_price_ = [a \in Assets |-> none]
    BY DEF Init, NewStorage, BuiltObservableStorage
  <2>2. Executed = none
    <3>1. Executed = SubSeq(none, 1, Len(none) - Len(none))
      BY <1>1 DEF Executed
    <3>2. Len(none) - Len(none) = 0
      BY <1>2
    <3>. HIDE DEF none
    <3>3. SubSeq(none, 1, 0) = << >>
      BY SubSeqEmpty
    <3>. QED
      BY <3>1, <3>2, <3>3 DEF none
  <2>3. /\ Windows(none) = [a \in Assets |-> NewWindow]
        /\ \A op : Latest(none, op) = [a \in Assets |-> none]
    BY WindowsNone
  <2>. HIDE DEF none
  <2>. QED
    BY <2>1, <2>2, <2>3 DEF WindowsKept
<1>3. StrandIsRest /\ WaitsCount /\ ReturnedAreRun
  BY <1>1 DEF StrandIsRest, WaitsCount, ReturnedAreRun
<1>. QED
  BY <1>3, <1>4, <1>5 DEF Inv

\* The steps of the callers, which post, and of the strand, which runs.
LEMMA CallersStep ==
  ASSUME Inv, Callers
  PROVE  Inv'
<1>1. ASSUME NEW a \in Assets, NEW v \in Prices, PostSample(a, v) PROVE Inv'
  <2>1. /\ Job("sample", a, v) \in Jobs /\ Job("sample", a, v).op # "wait"
        /\ Job("sample", a, v).value \in Prices
    BY ConfigAssumption DEF Job, Jobs
  <2>. QED
    BY <1>1, <2>1, PostKeeps DEF PostSample
<1>2. ASSUME NEW a \in Assets, NEW v \in Quotes, PostBidPrice(a, v) PROVE Inv'
  <2>1. /\ Job("bid", a, v) \in Jobs /\ Job("bid", a, v).op # "wait"
        /\ Job("bid", a, v).value \in Prices
    BY ConfigAssumption DEF Job, Jobs
  <2>. QED
    BY <1>2, <2>1, PostKeeps DEF PostBidPrice, PostPrice
<1>3. ASSUME NEW a \in Assets, NEW v \in Quotes, PostAskPrice(a, v) PROVE Inv'
  <2>1. /\ Job("ask", a, v) \in Jobs /\ Job("ask", a, v).op # "wait"
        /\ Job("ask", a, v).value \in Prices
    BY ConfigAssumption DEF Job, Jobs
  <2>. QED
    BY <1>3, <2>1, PostKeeps DEF PostAskPrice, PostPrice
<1>4. CASE Wait
  <2>1. Len(posted) \in Nat
    BY LenProperties DEF Inv, Types
  <2>2. /\ Job("wait", Allowed, Len(posted)) \in Jobs
        /\ Job("wait", Allowed, Len(posted)).value = Len(posted)
        /\ Job("wait", Allowed, Len(posted)).op = "wait"
    BY <2>1, LinksAssumption DEF Job, Jobs
  <2>. QED
    BY <1>4, <2>2, PostKeeps DEF Wait
<1>. QED
  BY <1>1, <1>2, <1>3, <1>4 DEF Callers

\* The oldest job, for the lemma on windows and prices.
LEMMA OldestJob ==
  ASSUME Inv, strand # << >>
  PROVE  /\ Head(strand) \in Jobs
         /\ Head(strand).op # "wait" => Head(strand).value \in Prices
<1>1. /\ Head(strand) = strand[1] /\ Head(strand) \in Jobs /\ 1 \in 1 .. Len(strand)
  BY HeadTailProperties, EmptySeq, LenProperties DEF Inv, Types
<1>2. strand[1] = posted[Run + 1] /\ Run + 1 \in 1 .. Len(posted)
  BY <1>1, LenProperties DEF Inv, Types, StrandIsRest, Run
<1>. QED
  BY <1>1, <1>2 DEF Inv, Types, Priced

LEMMA RunJobStep ==
  ASSUME Inv, RunJob
  PROVE  Inv'
<1>. DEFINE job == Head(strand)
            run == Append(Executed, job)
<1>1. strand # << >> /\ RunsNext
  BY DEF RunJob, RunSample, RunBidPrice, RunAskPrice, RunWait, RunsNext
<1>2. /\ Executed \in Seq(Jobs) /\ Priced(Executed)
      /\ job \in Jobs /\ (job.op # "wait" => job.value \in Prices)
  BY <1>1, ExecutedType, OldestJob
<1>3. /\ storage = Windows(Executed)
      /\ bid_price_ = Latest(Executed, "bid") /\ ask_price_ = Latest(Executed, "ask")
  BY DEF Inv, WindowsKept
<1>4. /\ job.op # "sample" => Windows(run) = storage
      /\ job.op = "sample" =>
           /\ Windows(run) = [storage EXCEPT ![job.asset] = AddData(@, job.value)]
           /\ Windows(run) = [storage EXCEPT ![job.asset] = PooledAddData(@, job.value)]
      /\ job.op # "bid" => Latest(run, "bid") = bid_price_
      /\ job.op = "bid" => Latest(run, "bid") = [bid_price_ EXCEPT ![job.asset] = <<job.value>>]
      /\ job.op # "ask" => Latest(run, "ask") = ask_price_
      /\ job.op = "ask" => Latest(run, "ask") = [ask_price_ EXCEPT ![job.asset] = <<job.value>>]
  <2>. HIDE DEF job
  <2>. QED
    BY <1>2, <1>3, WindowsMore
<1>5. WindowsFollow <=> /\ storage' = Windows(run)
                        /\ bid_price_' = Latest(run, "bid") /\ ask_price_' = Latest(run, "ask")
  BY DEF WindowsFollow
<1>6. CASE RunSample
  <2>1. /\ job.op = "sample" /\ storage' = Added(job.asset, job.value)
        /\ UNCHANGED <<bid_price_, ask_price_, returned>>
    BY <1>6 DEF RunSample
  <2>2. Added(job.asset, job.value) = Windows(run)
    <3>. HIDE DEF job, run
    <3>. QED
      BY <1>4, <2>1 DEF Added
  <2>3. WindowsFollow
    <3>. HIDE DEF job, run
    <3>. QED
      BY <1>4, <1>5, <2>1, <2>2
  <2>. QED
    BY <1>1, <2>1, <2>3, RunKeeps
<1>7. CASE RunBidPrice
  <2>1. /\ job.op = "bid" /\ bid_price_' = [bid_price_ EXCEPT ![job.asset] = <<job.value>>]
        /\ UNCHANGED <<storage, ask_price_, returned>>
    BY <1>7 DEF RunBidPrice
  <2>2. WindowsFollow
    <3>. HIDE DEF job, run
    <3>. QED
      BY <1>4, <1>5, <2>1
  <2>. QED
    BY <1>1, <2>1, <2>2, RunKeeps
<1>8. CASE RunAskPrice
  <2>1. /\ job.op = "ask" /\ ask_price_' = [ask_price_ EXCEPT ![job.asset] = <<job.value>>]
        /\ UNCHANGED <<storage, bid_price_, returned>>
    BY <1>8 DEF RunAskPrice
  <2>2. WindowsFollow
    <3>. HIDE DEF job, run
    <3>. QED
      BY <1>4, <1>5, <2>1
  <2>. QED
    BY <1>1, <2>1, <2>2, RunKeeps
<1>9. CASE RunWait
  <2>1. /\ job.op = "wait" /\ returned' = returned \cup {job.value}
        /\ UNCHANGED <<storage, bid_price_, ask_price_>>
    BY <1>9 DEF RunWait
  <2>2. WindowsFollow
    <3>. HIDE DEF job, run
    <3>. QED
      BY <1>4, <1>5, <2>1
  <2>. QED
    BY <1>1, <2>1, <2>2, RunKeeps
<1>. QED
  BY <1>6, <1>7, <1>8, <1>9 DEF RunJob

LEMMA NextInv == Inv /\ [Next]_vars => Inv'
<1>. SUFFICES ASSUME Inv, [Next]_vars PROVE Inv'
  OBVIOUS
<1>1. CASE UNCHANGED vars
  <2>1. Executed' = Executed /\ Run' = Run
    BY <1>1 DEF vars, Executed, Run
  <2>. QED
    BY <1>1, <2>1 DEF vars, Inv, Types, StrandIsRest, WaitsCount, ReturnedAreRun, WindowsKept
<1>. QED
  BY <1>1, CallersStep, RunJobStep DEF Next

-----------------------------------------------------------------------------
(* The theorems about the strand and the trackers.                         *)

\* The strand runs jobs in the order of posting, so that whoever returns from Wait finds
\* that everything posted before has been run (strategy_engine.h:41).
THEOREM WaitersSafe == Spec => []WaitersSeeTheirSamples
<1>. QED
  BY InitInv, NextInv, WaitersInv, PTL DEF Spec

\* No job overtakes another: windows hold the latest samples in the order of posting,
\* prices are the latest set, and the strand holds what was posted last
\* (strategy_engine.h:20, sliding_window_storage.h:37 and 455).
THEOREM StrandSafe == Spec => []StrandInOrder
<1>1. Inv => StrandInOrder
  BY TypeInv, RecentInv, WaitersInv DEF StrandInOrder
<1>. QED
  BY <1>1, InitInv, NextInv, PTL DEF Spec

\* The trackers, told of one sample at a time, answer what the samples of the window say:
\* sum and count, smallest and largest, and the deviations from the mean (avg_tracker.h,
\* min_tracker.h, max_tracker.h, deviation_tracker.h).
THEOREM TrackersRight == Spec => []ReadingsDescribeWindow
<1>. QED
  BY InitInv, NextInv, ReadingsInv, PTL DEF Spec

-----------------------------------------------------------------------------
(* The queues of the strategy.                                             *)

\* A queue of no asset or one stays that short or becomes the action's answer.
LEMMA FlattenNone ==
  ASSUME NEW q, Len(q) = 0
  PROVE  FlattenSeq(q) = q
BY DEF FlattenSeq

LEMMA FlattenOne ==
  ASSUME NEW x
  PROVE  FlattenSeq([j \in 1 .. 1 |-> x]) = x
<1>. DEFINE q == [j \in 1 .. 1 |-> x]
            Is(F) == F = [i \in 1 .. Len(q) |-> IF i = 1 THEN q[i] ELSE F[i - 1] \o q[i]]
            G == CHOOSE F : Is(F)
<1>1. Len(q) = 1 /\ q[1] = x
  <2>1. q \in Seq({x})
    <3>1. q \in [1 .. 1 -> {x}]
      OBVIOUS
    <3>2. 1 \in Nat
      OBVIOUS
    <3>. HIDE DEF q
    <3>. QED BY <3>1, <3>2, SeqDef
  <2>2. DOMAIN q = 1 .. 1
    OBVIOUS
  <2>3. Len(q) \in Nat /\ DOMAIN q = 1 .. Len(q)
    BY <2>1, LenProperties
  <2>4. Len(q) = 1
    <3>. HIDE DEF q
    <3>. QED BY <2>2, <2>3
  <2>. QED BY <2>4
<1>. HIDE DEF q
<1>2. \E F : Is(F)
  <2>1. Is([i \in 1 .. 1 |-> x])
    BY <1>1
  <2>. QED BY <2>1
<1>3. Is(G)
  BY <1>2
<1>4. FlattenSeq(q) = G[Len(q)]
  BY <1>1 DEF FlattenSeq
<1>. HIDE DEF G
<1>5. G[1] = x
  <2>1. G = [i \in 1 .. 1 |-> IF i = 1 THEN q[i] ELSE G[i - 1] \o q[i]]
    BY <1>1, <1>3
  <2>. QED BY <1>1, <2>1
<1>6. FlattenSeq(q) = x
  BY <1>1, <1>4, <1>5
<1>. QED BY <1>6 DEF q

\* The queue after each action.
AfterAllowed(s, q, v)     == FlattenSeq([j \in DOMAIN q |-> AllowedAction(s, q[j], v)])
AfterDeviation(s, q, v)   == FlattenSeq([j \in DOMAIN q |-> DeviationAction(s, q[j], v)])
AfterInformation(s, q, v) == FlattenSeq([j \in DOMAIN q |-> InformationAction(s, q[j], v)])

\* An action is called for the only asset of a queue, and for none when it is empty.
LEMMA QueueOfOne ==
  ASSUME NEW s, NEW v, NEW a, NEW q, q = <<a>>
  PROVE  /\ AfterAllowed(s, q, v) = AllowedAction(s, a, v)
         /\ AfterDeviation(s, q, v) = DeviationAction(s, a, v)
         /\ AfterInformation(s, q, v) = InformationAction(s, a, v)
<1>1. DOMAIN q = 1 .. 1 /\ q[1] = a /\ \A j \in 1 .. 1 : j = 1
  OBVIOUS
<1>2. /\ [j \in DOMAIN q |-> AllowedAction(s, q[j], v)] = [j \in 1 .. 1 |-> AllowedAction(s, a, v)]
      /\ [j \in DOMAIN q |-> DeviationAction(s, q[j], v)] =
           [j \in 1 .. 1 |-> DeviationAction(s, a, v)]
      /\ [j \in DOMAIN q |-> InformationAction(s, q[j], v)] =
           [j \in 1 .. 1 |-> InformationAction(s, a, v)]
  BY <1>1
<1>3. AfterAllowed(s, q, v) = AllowedAction(s, a, v)
  BY <1>2, FlattenOne DEF AfterAllowed
<1>4. AfterDeviation(s, q, v) = DeviationAction(s, a, v)
  BY <1>2, FlattenOne DEF AfterDeviation
<1>5. AfterInformation(s, q, v) = InformationAction(s, a, v)
  BY <1>2, FlattenOne DEF AfterInformation
<1>. QED BY <1>3, <1>4, <1>5

LEMMA QueueOfNone ==
  ASSUME NEW s, NEW v, NEW q, q = << >>
  PROVE  AfterDeviation(s, q, v) = << >> /\ AfterInformation(s, q, v) = << >>
<1>1. DOMAIN q = {} /\ Len(q) = 0
  OBVIOUS
<1>2. /\ [j \in DOMAIN q |-> DeviationAction(s, q[j], v)] = q
      /\ [j \in DOMAIN q |-> InformationAction(s, q[j], v)] = q
  BY <1>1
<1>. QED BY <1>1, <1>2, FlattenNone DEF AfterDeviation, AfterInformation

\* The queues of both lists of actions, action by action.
LEMMA QueuesAre ==
  ASSUME NEW s, NEW a, NEW v
  PROVE  \E Q : /\ Q[0] = <<a>> /\ Q[1] = AfterAllowed(s, Q[0], v)
                /\ Q[2] = AfterDeviation(s, Q[1], v) /\ Q[3] = AfterInformation(s, Q[2], v)
                /\ AnalyzeToBuy(s, a, v) = Q[3] /\ AnalyzeToSell(s, a, v) = Q[3]
<1>. DEFINE A == <<"allowed", "deviation", "information", "order">>
            Apply(name, x) == CASE name = "allowed"     -> AllowedAction(s, x, v)
                                [] name = "deviation"   -> DeviationAction(s, x, v)
                                [] name = "information" -> InformationAction(s, x, v)
                                [] name = "order"       -> OrderAction(s, x, v)
            Step(i, q) == FlattenSeq([j \in DOMAIN q |-> Apply(A[i], q[j])])
            Is(F) == F = [i \in 0 .. Len(A) |-> IF i = 0 THEN <<a>> ELSE Step(i, F[i - 1])]
            G == CHOOSE F : Is(F)
<1>1. Len(A) = 4 /\ A[1] = "allowed" /\ A[2] = "deviation" /\ A[3] = "information"
  OBVIOUS
<1>2. AnalyzeToBuy(s, a, v) = G[3] /\ AnalyzeToSell(s, a, v) = G[3]
  <2>1. Analyze(A, s, a, v) = G
    BY DEF Analyze
  <2>2. actions_to_buy_ = A /\ actions_to_sell_ = A
    BY DEF actions_to_buy_, actions_to_sell_
  <2>. HIDE DEF A, G
  <2>. QED BY <2>1, <2>2 DEF AnalyzeToBuy, AnalyzeToSell
<1>3. /\ \A q : Step(1, q) = AfterAllowed(s, q, v)
      /\ \A q : Step(2, q) = AfterDeviation(s, q, v)
      /\ \A q : Step(3, q) = AfterInformation(s, q, v)
  <2>1. /\ \A x : Apply("allowed", x) = AllowedAction(s, x, v)
        /\ \A x : Apply("deviation", x) = DeviationAction(s, x, v)
        /\ \A x : Apply("information", x) = InformationAction(s, x, v)
    OBVIOUS
  <2>. HIDE DEF Apply, A
  <2>. QED BY <1>1, <2>1 DEF AfterAllowed, AfterDeviation, AfterInformation
<1>. HIDE DEF A, Step
<1>4. \E F : Is(F)
  <2>. DEFINE E0 == <<a>>
              E1 == Step(1, E0)
              E2 == Step(2, E1)
              E3 == Step(3, E2)
              E4 == Step(4, E3)
              F == [i \in 0 .. 4 |-> IF i = 0 THEN E0 ELSE IF i = 1 THEN E1 ELSE IF i = 2 THEN E2
                                     ELSE IF i = 3 THEN E3 ELSE E4]
  <2>1. F[0] = E0 /\ F[1] = E1 /\ F[2] = E2 /\ F[3] = E3 /\ F[4] = E4
    <3>. HIDE DEF E0, E1, E2, E3, E4
    <3>. QED OBVIOUS
  <2>2. F = [i \in 0 .. 4 |-> F[i]]
    OBVIOUS
  <2>. HIDE DEF F
  <2>3. \A i \in 0 .. 4 : i = 0 \/ i = 1 \/ i = 2 \/ i = 3 \/ i = 4
    OBVIOUS
  <2>4. \A i \in 0 .. 4 : F[i] = IF i = 0 THEN <<a>> ELSE Step(i, F[i - 1])
    <3>1. 1 - 1 = 0 /\ 2 - 1 = 1 /\ 3 - 1 = 2 /\ 4 - 1 = 3
      OBVIOUS
    <3>. HIDE DEF E0, E1, E2, E3, E4
    <3>2. E1 = Step(1, E0) /\ E2 = Step(2, E1) /\ E3 = Step(3, E2) /\ E4 = Step(4, E3) /\ E0 = <<a>>
      BY DEF E0, E1, E2, E3, E4
    <3>. QED BY <2>1, <2>3, <3>1, <3>2
  <2>5. Is(F)
    BY <1>1, <2>2, <2>4
  <2>. QED BY <2>5
<1>5. Is(G)
  BY <1>4
<1>. HIDE DEF G
<1>6. \A i \in 0 .. 4 : G[i] = IF i = 0 THEN <<a>> ELSE Step(i, G[i - 1])
  BY <1>1, <1>5
<1>7. G[0] = <<a>> /\ G[1] = Step(1, G[0]) /\ G[2] = Step(2, G[1]) /\ G[3] = Step(3, G[2])
  BY <1>6
<1>. QED BY <1>2, <1>3, <1>7

-----------------------------------------------------------------------------
(* Folds over sets, and sets as sequences.                                 *)

\* Two functions of sets that are passed on alike from sets with one element less.
LEMMA FoldsAgree ==
  ASSUME NEW S, IsFiniteSet(S), NEW F, NEW G, F[{}] = G[{}],
         \A T \in SUBSET S : T # {} =>
           \E x \in T : F[T \ {x}] = G[T \ {x}] => F[T] = G[T]
  PROVE  F[S] = G[S]
<1>. DEFINE Bad == {T \in SUBSET S : F[T] # G[T]}
            Sizes == {Cardinality(T) : T \in Bad}
<1>. SUFFICES ASSUME Bad # {} PROVE FALSE
  OBVIOUS
<1>1. \A T \in SUBSET S : IsFiniteSet(T) /\ Cardinality(T) \in Nat
  BY Part, Count
<1>2. Sizes \in SUBSET Nat /\ Sizes # {}
  BY <1>1
<1>3. PICK n \in Sizes : \A m \in Sizes : n <= m
  <2>. HIDE DEF Sizes
  <2>. QED BY <1>2, LeastNat
<1>4. PICK T \in Bad : Cardinality(T) = n
  OBVIOUS
<1>5. T # {}
  BY <1>4
<1>6. PICK x \in T : F[T \ {x}] = G[T \ {x}] => F[T] = G[T]
  BY <1>4, <1>5
<1>7. T \ {x} \in Bad
  BY <1>4, <1>6
<1>8. IsFiniteSet(T \ {x}) /\ Cardinality(T \ {x}) \in Nat
  BY <1>1, <1>7
<1>9. Cardinality(T) = Cardinality(T \ {x}) + 1
  <2>1. x \notin T \ {x} /\ (T \ {x}) \cup {x} = T
    BY <1>6
  <2>2. Cardinality((T \ {x}) \cup {x}) = Cardinality(T \ {x}) + 1
    BY <1>8, <2>1, OneMore
  <2>. QED BY <2>1, <2>2
<1>10. n <= Cardinality(T \ {x})
  BY <1>3, <1>7
<1>. QED BY <1>4, <1>8, <1>9, <1>10

\* A finite set as a sequence holds every element once.
LEMMA SetAsSeq ==
  ASSUME NEW S, IsFiniteSet(S)
  PROVE  ToBag(SetToSeq(S)) = SetToBag(S)
<1>. DEFINE n == Cardinality(S)
            Is(f) == f \in [1 .. n -> S] /\ \A a, b \in DOMAIN f : f[a] = f[b] => a = b
            g == CHOOSE f \in [1 .. n -> S] : \A a, b \in DOMAIN f : f[a] = f[b] => a = b
<1>1. n \in Nat /\ FS!Cardinality(S) = n /\ FS!IsFiniteSet(S)
  BY Count, SameFinite, SameCardinality
<1>2. SetToSeq(S) = g
  BY DEF SetToSeq, IsInjective
<1>. HIDE DEF n
<1>3. \E f : Is(f)
  <2>1. FS!ExistsBijection(1 .. n, S)
    BY <1>1, FS!FS_CardinalityType
  <2>2. PICK f : f \in FS!Bijection(1 .. n, S)
    BY <2>1 DEF FS!ExistsBijection
  <2>3. Is(f)
    BY <2>2 DEF FS!Bijection, FS!Injection, FS!IsInjective
  <2>. QED BY <2>3
<1>4. Is(g)
  BY <1>3
<1>. HIDE DEF g
<1>5. g \in Seq(S) /\ Len(g) = n /\ DOMAIN g = 1 .. n
  <2>1. g \in Seq(S)
    BY <1>1, <1>4, SeqDef
  <2>2. Len(g) \in Nat /\ DOMAIN g = 1 .. Len(g) /\ DOMAIN g = 1 .. n
    BY <1>4, <2>1, LenProperties
  <2>3. Len(g) = n
    <3>1. PICK k : k = Len(g)
      OBVIOUS
    <3>2. k \in Nat /\ 1 .. k = 1 .. n
      BY <2>2, <3>1
    <3>3. (k > n => k \in 1 .. k /\ k \notin 1 .. n) /\ (k < n => n \in 1 .. n /\ n \notin 1 .. k)
      BY <1>1, <3>2
    <3>4. k = n
      BY <1>1, <3>2, <3>3
    <3>. QED BY <3>1, <3>4
  <2>. QED BY <2>1, <2>2, <2>3
<1>6. FS!IsFiniteSet(1 .. n) /\ FS!Cardinality(1 .. n) = n
  BY <1>1, FS!FS_Interval
<1>7. g \in FS!Injection(1 .. n, S)
  BY <1>4 DEF FS!Injection, FS!IsInjective
<1>8. g \in FS!Surjection(1 .. n, S)
  BY <1>1, <1>6, <1>7, FS!FS_Injection
<1>9. \A x \in S : \E i \in 1 .. n : g[i] = x
  BY <1>8 DEF FS!Surjection
<1>10. {g[i] : i \in DOMAIN g} = S
  BY <1>4, <1>5, <1>9
<1>11. ASSUME NEW x \in S PROVE Cardinality({i \in DOMAIN g : g[i] = x}) = 1
  <2>1. PICK k \in DOMAIN g : g[k] = x
    BY <1>5, <1>9
  <2>2. {i \in DOMAIN g : g[i] = x} = {k}
    BY <1>4, <2>1
  <2>3. FS!Cardinality({k}) = 1
    BY FS!FS_Singleton
  <2>. QED BY <2>2, <2>3, SameCardinality
<1>12. ToBag(g) = [x \in {g[i] : i \in DOMAIN g} |-> Cardinality({i \in DOMAIN g : g[i] = x})]
  BY DEF ToBag, Range
<1>13. ToBag(g) = [x \in S |-> 1]
  BY <1>10, <1>11, <1>12
<1>. QED BY <1>2, <1>13 DEF SetToBag

-----------------------------------------------------------------------------
(* Linked markets.                                                         *)

Both(l) == {<<l[1], l[2]>>, <<l[2], l[1]>>}

\* The folded links are the pairs of every link, both ways, in whatever order they are given.
LEMMA PairsAre == pairs_ = UNION {Both(l) : l \in Links}
<1>. DEFINE first(s) == CHOOSE l \in s : TRUE
            Is(F) == F = [s \in SUBSET Links |->
                            IF s = {} THEN {} ELSE Connect(F[s \ {first(s)}], first(s))]
            G == CHOOSE F : Is(F)
            F == [s \in SUBSET Links |-> UNION {Both(l) : l \in s}]
<1>1. pairs_ = G[Links]
  BY DEF pairs_, FoldSet, MapThenFoldSet
<1>2. \A s \in SUBSET Links : s # {} => first(s) \in s
  OBVIOUS
<1>3. \A s \in SUBSET Links : F[s] = UNION {Both(l) : l \in s}
  OBVIOUS
<1>. HIDE DEF first
<1>4. Is(F)
  <2>1. ASSUME NEW s \in SUBSET Links
        PROVE  F[s] = IF s = {} THEN {} ELSE Connect(F[s \ {first(s)}], first(s))
    <3>1. CASE s = {}
      BY <1>3, <3>1
    <3>2. CASE s # {}
      <4>. DEFINE l == first(s)
                  r == s \ {l}
      <4>1. l \in s /\ r \in SUBSET Links
        BY <1>2, <3>2
      <4>. HIDE DEF l
      <4>2. UNION {Both(k) : k \in s} = Both(l) \cup UNION {Both(k) : k \in r}
        BY <4>1
      <4>3. F[s] = Both(l) \cup F[r]
        <5>. HIDE DEF F
        <5>. QED BY <1>3, <4>1, <4>2
      <4>4. Connect(F[r], l) = F[s]
        <5>. HIDE DEF F, r
        <5>. QED BY <4>3 DEF Connect, Both
      <4>. QED BY <3>2, <4>4 DEF l
    <3>. QED BY <3>1, <3>2
  <2>2. F = [s \in SUBSET Links |-> F[s]]
    OBVIOUS
  <2>. HIDE DEF F
  <2>. QED BY <2>1, <2>2
<1>5. Is(G)
  BY <1>4
<1>. HIDE DEF F, G
<1>6. F[Links] = G[Links]
  <2>1. IsFiniteSet(Links)
    BY LinksAssumption
  <2>2. \A s \in SUBSET Links :
          G[s] = IF s = {} THEN {} ELSE Connect(G[s \ {first(s)}], first(s))
    BY <1>5
  <2>3. \A s \in SUBSET Links :
          F[s] = IF s = {} THEN {} ELSE Connect(F[s \ {first(s)}], first(s))
    BY <1>4
  <2>4. F[{}] = G[{}]
    BY <2>2, <2>3
  <2>5. \A s \in SUBSET Links : s # {} => \E x \in s : F[s \ {x}] = G[s \ {x}] => F[s] = G[s]
    BY <1>2, <2>2, <2>3
  <2>. QED BY <2>1, <2>4, <2>5, FoldsAgree
<1>. QED BY <1>1, <1>3, <1>6

\* The linked assets, which are finitely many.
LEMMA LinkedIs ==
  ASSUME NEW a \in Assets
  PROVE  /\ GetPairs(a) = {b \in Assets : <<a, b>> \in Links \/ <<b, a>> \in Links}
         /\ IsFiniteSet(GetPairs(a))
<1>1. Links \subseteq Assets \X Assets /\ IsFiniteSet(Links)
  BY LinksAssumption
<1>2. ASSUME NEW b \in Assets PROVE <<a, b>> \in pairs_ <=> <<a, b>> \in Links \/ <<b, a>> \in Links
  <2>1. <<a, b>> \in pairs_ <=> \E l \in Links : <<a, b>> \in Both(l)
    BY PairsAre
  <2>2. \A l \in Links : <<a, b>> \in Both(l) <=> l = <<a, b>> \/ l = <<b, a>>
    <3>. TAKE l \in Links
    <3>1. PICK c \in Assets, d \in Assets : l = <<c, d>>
      BY <1>1
    <3>. QED BY <3>1 DEF Both
  <2>. QED BY <2>1, <2>2
<1>3. GetPairs(a) = {b \in Assets : <<a, b>> \in Links \/ <<b, a>> \in Links}
  BY <1>2 DEF GetPairs
<1>. DEFINE f1 == [l \in Links |-> l[1]]
            f2 == [l \in Links |-> l[2]]
            R1 == {l[1] : l \in Links}
            R2 == {l[2] : l \in Links}
<1>4. IsFiniteSet(R1) /\ IsFiniteSet(R2)
  <2>1. f1 \in FS!Surjection(Links, R1) /\ f2 \in FS!Surjection(Links, R2)
    BY DEF FS!Surjection
  <2>. HIDE DEF f1, f2, R1, R2
  <2>. QED BY <1>1, <2>1, SameFinite, FS!FS_Surjection
<1>5. GetPairs(a) \subseteq R1 \cup R2
  <2>. SUFFICES ASSUME NEW b \in Assets, <<a, b>> \in Links \/ <<b, a>> \in Links
                PROVE  b \in R1 \cup R2
    BY <1>3
  <2>1. <<a, b>>[2] = b /\ <<b, a>>[1] = b
    OBVIOUS
  <2>. QED BY <2>1
<1>6. IsFiniteSet(R1 \cup R2)
  <2>. HIDE DEF R1, R2
  <2>. QED BY <1>4, SameFinite, FS!FS_Union
<1>7. IsFiniteSet(GetPairs(a))
  <2>. HIDE DEF R1, R2
  <2>. QED BY <1>5, <1>6, Part
<1>. QED BY <1>3, <1>7

\* The storage holds the window of D[a] for every asset a.
Holds(s, D) ==
  /\ D \in [Assets -> Seq(Prices)] /\ \A a \in Assets : Len(D[a]) <= WindowSize
  /\ s = [a \in Assets |-> WindowOf(D[a])]

LowOf(x)  == IF x = << >> THEN << >> ELSE <<Min(ToSet(x))>>
HighOf(x) == IF x = << >> THEN << >> ELSE <<Max(ToSet(x))>>

\* What the trackers of a window know.
LEMMA WindowFields ==
  ASSUME NEW x \in Seq(Prices), NEW w, w = WindowOf(x)
  PROVE  /\ w.data = x /\ w.avg = [sum |-> Sum(x), count |-> Len(x)]
         /\ w.min.extreme = LowOf(x) /\ w.max.extreme = HighOf(x)
         /\ x \in Seq(Nat \ {0}) /\ Len(x) \in Nat /\ (x = << >> <=> Len(x) = 0)
<1>1. x \in Seq(Nat \ {0}) /\ Len(x) \in Nat /\ (x = << >> <=> Len(x) = 0)
  BY PricesAreNumbers, LenProperties, EmptySeq
<1>2. /\ w.data = x /\ w.avg = [sum |-> Sum(x), count |-> Len(x)]
      /\ w.min.extreme = LowOf(x) /\ w.max.extreme = HighOf(x)
  BY DEF WindowOf, AvgOf, MinOf, MaxOf, LowOf, HighOf
<1>. QED BY <1>1, <1>2

LEMMA HeldWindow ==
  ASSUME NEW s, NEW D, Holds(s, D), NEW a \in Assets
  PROVE  s[a] = WindowOf(D[a]) /\ D[a] \in Seq(Prices) /\ Len(D[a]) <= WindowSize
BY DEF Holds

\* The deviation action lets exactly the samples above the mean by the threshold through.
LEMMA DeviationIs ==
  ASSUME NEW s, NEW D, Holds(s, D), NEW a \in Assets, NEW v \in Prices
  PROVE  DeviationAction(s, a, v) = IF RatioAbove(D[a], v) THEN <<a>> ELSE << >>
<1>. DEFINE x == D[a]
            n == Len(x)
            k == Sum(x)
            d == v * n - k
            p == RatioThreshold[1]
            q == RatioThreshold[2]
            t == s[a].avg
<1>1. /\ t = [sum |-> k, count |-> n] /\ x \in Seq(Nat \ {0}) /\ n \in Nat
      /\ (x = << >> <=> n = 0)
  <2>1. s[a] = WindowOf(x) /\ x \in Seq(Prices)
    BY HeldWindow
  <2>. HIDE DEF x
  <2>. QED BY <2>1, WindowFields
<1>2. k \in Nat /\ k >= n
  <2>. HIDE DEF x
  <2>. QED BY <1>1, SumPositive
<1>3. p \in Nat /\ q \in Nat \ {0} /\ v \in Nat /\ RatioThreshold = <<p, q>>
  BY ConfigAssumption
<1>4. RatioAbove(x, v) <=> x # << >> /\ d * q > p * k
  BY DEF RatioAbove
<1>5. t.sum = k /\ t.count = n
  BY <1>1
<1>6. (HasRatio(t) <=> x # << >>) /\ Distance(t, v) = d
  <2>. HIDE DEF x, n, k, t
  <2>. QED BY <1>1, <1>2, <1>5 DEF HasRatio, HasAvg, Distance
<1>7. GetDeviationRatio(t, v) = IF x # << >> THEN <<d, k>> ELSE << >>
  <2>. HIDE DEF x, n, k, t, d
  <2>. QED BY <1>5, <1>6 DEF GetDeviationRatio
<1>8. ASSUME NEW e, NEW f
      PROVE  Exceeds(<<e, f>>, RatioThreshold) <=>
               IF f * q > 0 THEN e * q > p * f ELSE e * q < p * f
  BY DEF Exceeds
<1>9. DeviationAction(s, a, v) =
        IF Exceeds(IF GetDeviationRatio(t, v) = << >> THEN <<0, 1>> ELSE GetDeviationRatio(t, v),
                   RatioThreshold)
        THEN <<a>> ELSE << >>
  BY DEF DeviationAction
<1>10. d \in Int
  <2>. HIDE DEF n, k
  <2>. QED BY <1>1, <1>2, <1>3
<1>. HIDE DEF x, n, k, d, p, q, t
<1>11. CASE x = << >>
  <2>1. ~Exceeds(<<0, 1>>, RatioThreshold)
    <3>1. 1 * q > 0 /\ 0 * q = 0 /\ p * 1 = p /\ ~(0 > p)
      BY <1>3
    <3>. QED BY <1>8, <3>1
  <2>. QED BY <1>4, <1>7, <1>9, <1>11, <2>1 DEF x
<1>12. CASE x # << >>
  <2>1. k > 0
    BY <1>1, <1>2, <1>12
  <2>2. k * q > 0
    BY <1>2, <1>3, <2>1
  <2>3. Exceeds(<<d, k>>, RatioThreshold) <=> d * q > p * k
    BY <1>8, <2>2
  <2>4. <<d, k>> # << >>
    OBVIOUS
  <2>. QED BY <1>4, <1>7, <1>9, <1>12, <2>3, <2>4 DEF x
<1>. QED BY <1>11, <1>12

\* The information computed with the extremes of the trackers is that of the samples.
LEMMA InformationIs ==
  ASSUME NEW s, NEW D, Holds(s, D), NEW a \in Assets, NEW b \in Assets
  PROVE  ComputeMutualInformation(s, a, b) <=>
           /\ Len(D[a]) = WindowSize /\ Len(D[b]) = WindowSize
           /\ SamplesInformation(D[a], D[b], Bins, MiThreshold)
<1>. DEFINE x == D[a]
            y == D[b]
            w == s[a]
            u == s[b]
<1>1. WindowSize \in Nat \ {0}
  BY ConfigAssumption
<1>. DEFINE Reads(e, z) ==
              /\ e.data = z /\ Len(z) \in Nat /\ Len(z) <= WindowSize /\ (z = << >> <=> Len(z) = 0)
              /\ e.min.extreme = LowOf(z) /\ e.max.extreme = HighOf(z)
<1>2. /\ w = WindowOf(x) /\ x \in Seq(Prices) /\ Len(x) <= WindowSize
      /\ u = WindowOf(y) /\ y \in Seq(Prices) /\ Len(y) <= WindowSize
  BY HeldWindow
<1>3. Reads(w, x) /\ Reads(u, y)
  <2>. HIDE DEF x, y, w, u
  <2>1. Reads(w, x)
    BY <1>2, WindowFields
  <2>2. Reads(u, y)
    BY <1>2, WindowFields
  <2>. QED BY <2>1, <2>2
<1>4. ComputeMutualInformation(s, a, b) <=>
        /\ HasEnoughData(w) /\ HasEnoughData(u)
        /\ << >> \notin {w.min.extreme, w.max.extreme, u.min.extreme, u.max.extreme}
        /\ TrackedInformation(w.data, <<w.min.extreme[1], w.max.extreme[1]>>,
                              u.data, <<u.min.extreme[1], u.max.extreme[1]>>, Bins, MiThreshold)
  BY DEF ComputeMutualInformation
<1>. HIDE DEF x, y, w, u
<1>5. (HasEnoughData(w) <=> Len(x) = WindowSize) /\ (HasEnoughData(u) <=> Len(y) = WindowSize)
  BY <1>1, <1>3 DEF HasEnoughData
<1>6. ASSUME Len(x) = WindowSize, Len(y) = WindowSize
      PROVE  /\ << >> \notin {w.min.extreme, w.max.extreme, u.min.extreme, u.max.extreme}
             /\ <<w.min.extreme[1], w.max.extreme[1]>> = RangeOf(x)
             /\ <<u.min.extreme[1], u.max.extreme[1]>> = RangeOf(y)
  <2>1. x # << >> /\ y # << >>
    BY <1>1, <1>3, <1>6
  <2>2. /\ w.min.extreme = <<Min(ToSet(x))>> /\ w.max.extreme = <<Max(ToSet(x))>>
        /\ u.min.extreme = <<Min(ToSet(y))>> /\ u.max.extreme = <<Max(ToSet(y))>>
    BY <1>3, <2>1 DEF LowOf, HighOf
  <2>3. \A e : <<e>> # << >> /\ <<e>>[1] = e
    OBVIOUS
  <2>. QED BY <2>2, <2>3 DEF RangeOf
<1>7. ASSUME NEW r1, NEW r2, r1 = RangeOf(x), r2 = RangeOf(y)
      PROVE  TrackedInformation(x, r1, y, r2, Bins, MiThreshold) <=>
               SamplesInformation(x, y, Bins, MiThreshold)
  <2>1. /\ r1[1] = Min(ToSet(x)) /\ r1[2] = Max(ToSet(x))
        /\ r2[1] = Min(ToSet(y)) /\ r2[2] = Max(ToSet(y))
    BY <1>7 DEF RangeOf
  <2>2. /\ ComputeJointHistogram(x, y, Bins) = JointHistogramBetween(x, r1, y, r2, Bins)
        /\ ComputeHistogram(x, Bins) = HistogramBetween(x, r1[1], r1[2], Bins)
        /\ ComputeHistogram(y, Bins) = HistogramBetween(y, r2[1], r2[2], Bins)
    BY <1>7, <2>1 DEF ComputeJointHistogram, ComputeHistogram
  <2>. QED BY <2>2 DEF TrackedInformation, SamplesInformation
<1>8. ComputeMutualInformation(s, a, b) <=>
        /\ Len(x) = WindowSize /\ Len(y) = WindowSize
        /\ SamplesInformation(x, y, Bins, MiThreshold)
  BY <1>3, <1>4, <1>5, <1>6, <1>7
<1>. QED BY <1>8 DEF x, y

\* Whom b, in the windows D, tells enough about a.
Tells(D, a, b) ==
  /\ Len(D[a]) = WindowSize /\ Len(D[b]) = WindowSize
  /\ SamplesInformation(D[a], D[b], Bins, MiThreshold)

Linked(a) == {b \in Assets : <<a, b>> \in Links \/ <<b, a>> \in Links}

Orders(D, a, v) ==
  IF a = Allowed /\ RatioAbove(D[a], v)
  THEN SetToBag({b \in Linked(a) : Tells(D, a, b)}) ELSE EmptyBag

LEMMA NoBag == ToBag(<< >>) = EmptyBag
<1>1. {<< >>[i] : i \in DOMAIN << >>} = {}
  OBVIOUS
<1>. QED BY <1>1 DEF ToBag, Range, EmptyBag, SetToBag

\* Where the queues end.
LEMMA OrdersAre ==
  ASSUME NEW s, NEW D, Holds(s, D), NEW a \in Assets, NEW v \in Prices
  PROVE  /\ ToBag(AnalyzeToBuy(s, a, v)) = Orders(D, a, v)
         /\ ToBag(AnalyzeToSell(s, a, v)) = Orders(D, a, v)
<1>. DEFINE none == << >>
            S == {b \in Linked(a) : Tells(D, a, b)}
<1>1. PICK Q : /\ Q[0] = <<a>> /\ Q[1] = AfterAllowed(s, Q[0], v)
               /\ Q[2] = AfterDeviation(s, Q[1], v) /\ Q[3] = AfterInformation(s, Q[2], v)
               /\ AnalyzeToBuy(s, a, v) = Q[3] /\ AnalyzeToSell(s, a, v) = Q[3]
  BY QueuesAre
<1>6. Q[1] = IF a = Allowed THEN <<a>> ELSE none
  <2>1. Q[1] = AllowedAction(s, a, v)
    BY <1>1, QueueOfOne
  <2>. QED BY <2>1 DEF AllowedAction
<1>7. DeviationAction(s, a, v) = IF RatioAbove(D[a], v) THEN <<a>> ELSE none
  BY DeviationIs
<1>8. InformationAction(s, a, v) = IF GetPairs(a) # {} THEN SetToSeq(S) ELSE none
  <2>1. {b \in GetPairs(a) : ComputeMutualInformation(s, a, b)} = S
    <3>1. GetPairs(a) = Linked(a) /\ Linked(a) \subseteq Assets
      BY LinkedIs DEF Linked
    <3>2. \A b \in Assets : ComputeMutualInformation(s, a, b) <=> Tells(D, a, b)
      BY InformationIs DEF Tells
    <3>. QED BY <3>1, <3>2
  <2>. HIDE DEF S
  <2>. QED BY <2>1 DEF InformationAction, HasPair
<1>9. IsFiniteSet(S) /\ (GetPairs(a) = {} => S = {})
  <2>1. IsFiniteSet(GetPairs(a)) /\ S \subseteq GetPairs(a)
    BY LinkedIs DEF Linked
  <2>. HIDE DEF S
  <2>. QED BY <2>1, Part
<1>10. ToBag(none) = EmptyBag /\ SetToBag({}) = EmptyBag
  BY NoBag DEF EmptyBag, SetToBag
<1>11. ToBag(SetToSeq(S)) = SetToBag(S)
  <2>. HIDE DEF S
  <2>. QED BY <1>9, SetAsSeq
<1>12. Q[3] = IF a = Allowed /\ RatioAbove(D[a], v) THEN InformationAction(s, a, v) ELSE none
  <2>. HIDE DEF none
  <2>1. CASE a # Allowed
    <3>1. Q[1] = none
      BY <1>6, <2>1
    <3>2. Q[2] = none
      BY <1>1, <3>1, QueueOfNone DEF none
    <3>3. Q[3] = none
      BY <1>1, <3>2, QueueOfNone DEF none
    <3>. QED BY <2>1, <3>3
  <2>2. CASE a = Allowed
    <3>1. Q[1] = <<a>>
      BY <1>6, <2>2
    <3>2. Q[2] = DeviationAction(s, a, v)
      BY <1>1, <3>1, QueueOfOne
    <3>3. RatioAbove(D[a], v) => Q[3] = InformationAction(s, a, v)
      <4>. HAVE RatioAbove(D[a], v)
      <4>1. Q[2] = <<a>>
        BY <1>7, <3>2
      <4>. QED BY <1>1, <4>1, QueueOfOne
    <3>4. ~RatioAbove(D[a], v) => Q[3] = none
      <4>. HAVE ~RatioAbove(D[a], v)
      <4>1. Q[2] = none
        BY <1>7, <3>2
      <4>. QED BY <1>1, <4>1, QueueOfNone DEF none
    <3>. QED BY <2>2, <3>3, <3>4
  <2>. QED BY <2>1, <2>2
<1>13. Orders(D, a, v) = IF a = Allowed /\ RatioAbove(D[a], v) THEN SetToBag(S) ELSE EmptyBag
  BY DEF Orders
<1>. HIDE DEF S, none
<1>. QED BY <1>1, <1>8, <1>9, <1>10, <1>11, <1>12, <1>13

\* The latest samples of every asset.
Recent == [b \in Assets |-> Newest(WindowSize, History("sample", b))]

\* Under the invariant the storage is the windows of the latest samples.
LEMMA StorageHolds ==
  ASSUME Inv
  PROVE  Holds(storage, Recent)
<1>1. WindowSize \in Nat
  BY ConfigAssumption
<1>. DEFINE D == Recent
<1>2. ASSUME NEW b \in Assets
      PROVE  D[b] \in Seq(Prices) /\ Len(D[b]) <= WindowSize
  <2>1. PICK h : h = History("sample", b) /\ h \in Seq(Prices)
    BY WindowIs
  <2>2. D[b] = Newest(WindowSize, h)
    BY <2>1 DEF Recent
  <2>3. Len(h) \in Nat
    BY <2>1, LenProperties
  <2>. HIDE DEF D
  <2>. QED BY <1>1, <2>1, <2>2, <2>3, NewestType
<1>3. storage = [b \in Assets |-> WindowOf(D[b])]
  <2>1. storage = Windows(Executed)
    BY DEF Inv, WindowsKept
  <2>. QED BY <2>1 DEF Windows, History, Recent
<1>4. D = [b \in Assets |-> D[b]]
  BY DEF Recent
<1>5. Holds(storage, D)
  <2>. HIDE DEF D
  <2>. QED BY <1>2, <1>3, <1>4 DEF Holds
<1>. QED BY <1>5

\* A sample's record explains its orders, and nothing else touches the record.
LEMMA OrdersKept ==
  ASSUME Inv, OrdersExplained, [Next]_vars
  PROVE  OrdersExplained'
<1>1. CASE UNCHANGED last
  BY <1>1 DEF OrdersExplained
<1>2. CASE RunSample
  <2>. DEFINE a == Head(strand).asset
              v == Head(strand).value
              D == Recent
              before == [b \in Assets |-> storage[b].data]
  <2>1. Head(strand) \in Jobs /\ Head(strand).value \in Prices
    <3>1. strand # << >> /\ Head(strand).op # "wait"
      BY <1>2 DEF RunSample, RunsNext
    <3>. QED BY <3>1, OldestJob
  <2>2. a \in Assets /\ v \in Prices
    BY <2>1 DEF Jobs
  <2>3. Holds(storage, D)
    BY StorageHolds
  <2>. HIDE DEF D
  <2>4. before = D
    <3>1. \A b \in Assets : storage[b].data = D[b]
      <4>. TAKE b \in Assets
      <4>1. storage[b] = WindowOf(D[b])
        BY <2>3, HeldWindow
      <4>. QED BY <4>1, DataIs
    <3>2. D = [b \in Assets |-> D[b]]
      BY <2>3 DEF Holds
    <3>. QED BY <3>1, <3>2
  <2>5. last' = Analysed(a, v)
    BY <1>2 DEF RunSample
  <2>. HIDE DEF a, v
  <2>6. /\ last'.asset = a /\ last'.value = v /\ last'.before = D
        /\ ToBag(last'.buy) = Orders(D, a, v) /\ ToBag(last'.sell) = Orders(D, a, v)
    <3>1. /\ last'.asset = a /\ last'.value = v /\ last'.before = before
          /\ last'.buy = AnalyzeToBuy(storage, a, v) /\ last'.sell = AnalyzeToSell(storage, a, v)
      BY <2>5 DEF Analysed
    <3>. QED BY <2>2, <2>3, <2>4, <3>1, OrdersAre
  <2>7. OrdersExplained' <=>
          (last' # << >> =>
             /\ ToBag(last'.buy) = Orders(last'.before, last'.asset, last'.value)
             /\ ToBag(last'.sell) = ToBag(last'.buy))
    BY DEF OrdersExplained, Orders, Tells, Linked
  <2>. QED BY <2>6, <2>7
<1>3. UNCHANGED last \/ RunSample
  BY DEF Next, Callers, RunJob, RunBidPrice, RunAskPrice, RunWait, PostSample, PostBidPrice,
         PostAskPrice, PostPrice, Wait, vars
<1>. QED BY <1>1, <1>2, <1>3

\* An order is reached for exactly the markets linked to the allowed one that tell enough
\* of it, when the sample is above the mean of the window before it, for every list of
\* links, window size and threshold (strategy.h:30, c_strategy.h:34).
THEOREM OrdersRight == Spec => []OrdersExplained
<1>1. Init => OrdersExplained
  BY DEF Init, OrdersExplained
<1>2. Inv /\ OrdersExplained /\ [Next]_vars => OrdersExplained'
  BY OrdersKept
<1>. QED BY <1>1, <1>2, InitInv, NextInv, PTL DEF Spec

-----------------------------------------------------------------------------
(* Histograms.                                                             *)

\* The largest value falls into the bin after the last one.
LEMMA Quotient ==
  ASSUME NEW n \in Nat, NEW w \in Nat \ {0}, n <= w, NEW bins \in Nat
  PROVE  (n * bins) \div w \in 0 .. bins
<1>1. PICK m \in Int : m = n * bins
  OBVIOUS
<1>2. PICK q : q = m \div w
  OBVIOUS
<1>3. q \in Int /\ w * q <= m /\ m < w * q + w
  BY <1>2, <1>1
<1>4. m >= 0 /\ m <= w * bins
  BY <1>1
<1>5. q >= 0
  <2>1. CASE q <= -1
    <3>1. w * q + w <= 0
      BY <1>3, <2>1
    <3>. QED BY <1>3, <1>4, <3>1
  <2>. QED BY <1>3, <2>1
<1>6. q <= bins
  <2>1. CASE q >= bins + 1
    <3>1. w * q >= w * bins + w
      BY <1>3, <2>1
    <3>. QED BY <1>3, <1>4, <3>1
  <2>. QED BY <1>3, <2>1
<1>. QED BY <1>1, <1>2, <1>3, <1>5, <1>6

PlacesIn(keys, P) == {i \in DOMAIN keys : keys[i] \in P}

\* The sum of the counts of some keys is the number of places that hold one of them.
LEMMA CountsSum ==
  ASSUME NEW keys, IsFiniteSet(DOMAIN keys), NEW P, IsFiniteSet(P),
         NEW f, \A p \in P : f[p] = Cardinality(Places(keys, p))
  PROVE  SumFunctionOnSet(f, P) = Cardinality(PlacesIn(keys, P))
<1>. DEFINE first(s) == CHOOSE p \in s : TRUE
            Is(F) == F = [s \in SUBSET P |->
                            IF s = {} THEN 0 ELSE f[first(s)] + F[s \ {first(s)}]]
            G == CHOOSE F : Is(F)
            At(s) == {i \in DOMAIN keys : keys[i] \in s}
            F == [s \in SUBSET P |-> Cardinality(At(s))]
<1>1. SumFunctionOnSet(f, P) = G[P]
  BY DEF SumFunctionOnSet, FoldFunctionOnSet, MapThenFoldSet
<1>2. \A s \in SUBSET P : s # {} => first(s) \in s
  OBVIOUS
<1>3. \A s \in SUBSET P : F[s] = Cardinality(At(s))
  OBVIOUS
<1>. HIDE DEF first
<1>4. Is(F)
  <2>1. ASSUME NEW s \in SUBSET P
        PROVE  F[s] = IF s = {} THEN 0 ELSE f[first(s)] + F[s \ {first(s)}]
    <3>1. CASE s = {}
      <4>1. At({}) = {}
        OBVIOUS
      <4>2. IsFiniteSet({}) => Cardinality({}) = 0
        BY Count
      <4>3. IsFiniteSet({})
        BY Part
      <4>. HIDE DEF F, At
      <4>. QED BY <1>3, <3>1, <4>1, <4>2, <4>3
    <3>2. CASE s # {}
      <4>. DEFINE p == first(s)
                  r == s \ {p}
                  C == {i \in DOMAIN keys : keys[i] = p}
      <4>1. p \in s /\ r \in SUBSET P /\ p \in P
        BY <1>2, <3>2
      <4>. HIDE DEF p
      <4>2. At(s) = C \cup At(r) /\ C \cap At(r) = {}
        BY <4>1
      <4>3. C \in SUBSET DOMAIN keys /\ At(r) \in SUBSET DOMAIN keys
        OBVIOUS
      <4>. HIDE DEF C, At, F, r
      <4>4. /\ IsFiniteSet(C) /\ IsFiniteSet(At(r))
            /\ Cardinality(C) \in Nat /\ Cardinality(At(r)) \in Nat
        BY <4>3, Part, Count
      <4>5. Cardinality(At(s)) = Cardinality(C) + Cardinality(At(r))
        <5>1. FS!Cardinality(C \cup At(r)) =
                FS!Cardinality(C) + FS!Cardinality(At(r)) - FS!Cardinality(C \cap At(r))
          BY <4>4, SameFinite, FS!FS_Union
        <5>2. FS!Cardinality(C \cap At(r)) = 0
          BY <4>2, FS!FS_EmptySet
        <5>3. FS!Cardinality(C) = Cardinality(C) /\ FS!Cardinality(At(r)) = Cardinality(At(r))
          BY SameCardinality
        <5>4. FS!Cardinality(C \cup At(r)) = Cardinality(C) + Cardinality(At(r))
          BY <4>4, <5>1, <5>2, <5>3
        <5>. QED BY <4>2, <5>4, SameCardinality
      <4>6. f[p] = Cardinality(C)
        BY <4>1 DEF C, Places
      <4>7. F[s] = f[p] + F[r]
        BY <1>3, <4>1, <4>5, <4>6
      <4>. QED BY <3>2, <4>7 DEF p, r
    <3>. QED BY <3>1, <3>2
  <2>2. F = [s \in SUBSET P |-> F[s]]
    OBVIOUS
  <2>. HIDE DEF F
  <2>. QED BY <2>1, <2>2
<1>5. Is(G)
  BY <1>4
<1>. HIDE DEF F, G, At
<1>6. F[P] = G[P]
  <2>2. \A s \in SUBSET P : G[s] = IF s = {} THEN 0 ELSE f[first(s)] + G[s \ {first(s)}]
    BY <1>5
  <2>3. \A s \in SUBSET P : F[s] = IF s = {} THEN 0 ELSE f[first(s)] + F[s \ {first(s)}]
    BY <1>4
  <2>4. F[{}] = G[{}]
    BY <2>2, <2>3
  <2>5. \A s \in SUBSET P : s # {} => \E x \in s : F[s \ {x}] = G[s \ {x}] => F[s] = G[s]
    BY <1>2, <2>2, <2>3
  <2>. QED BY <2>4, <2>5, FoldsAgree
<1>. QED BY <1>1, <1>3, <1>6 DEF At, PlacesIn

\* The bins of the samples of x, with the range of x.
BinsOf(x) == [i \in DOMAIN x |-> Bin(x[i], Min(ToSet(x)), Max(ToSet(x)), Bins)]

BinsOfBoth(x, y) == [i \in DOMAIN x |-> <<BinsOf(x)[i], BinsOf(y)[i]>>]

\* The calculators count bins, with the window's own range or with the same one given.
LEMMA CalculatorIs ==
  ASSUME NEW x, NEW y, DOMAIN x = DOMAIN y
  PROVE  /\ ComputeHistogram(x, Bins) = Counted(BinsOf(x))
         /\ ComputeJointHistogram(x, y, Bins) = Counted(BinsOfBoth(x, y))
         /\ \A r, q : r = RangeOf(x) /\ q = RangeOf(y) =>
              /\ HistogramCalculator(x, r, Bins) = Counted(BinsOf(x))
              /\ JointHistogramCalculator(x, r, y, q, Bins) = Counted(BinsOfBoth(x, y))
         /\ HistogramCalculator(x, << >>, Bins) = Counted(BinsOf(x))
         /\ JointHistogramCalculator(x, << >>, y, << >>, Bins) = Counted(BinsOfBoth(x, y))
<1>1. RangeOf(x) # << >> /\ RangeOf(x)[1] = Min(ToSet(x)) /\ RangeOf(x)[2] = Max(ToSet(x))
  BY DEF RangeOf
<1>2. RangeOf(y)[1] = Min(ToSet(y)) /\ RangeOf(y)[2] = Max(ToSet(y))
  BY DEF RangeOf
<1>3. HistogramBetween(x, Min(ToSet(x)), Max(ToSet(x)), Bins) = Counted(BinsOf(x))
  BY DEF HistogramBetween, BinsOf
<1>4. JointHistogramBetween(x, RangeOf(x), y, RangeOf(y), Bins) = Counted(BinsOfBoth(x, y))
  <2>1. [i \in DOMAIN x |-> <<Bin(x[i], Min(ToSet(x)), Max(ToSet(x)), Bins),
                             Bin(y[i], Min(ToSet(y)), Max(ToSet(y)), Bins)>>] = BinsOfBoth(x, y)
    BY DEF BinsOfBoth, BinsOf
  <2>. QED BY <1>1, <1>2, <2>1 DEF JointHistogramBetween
<1>. QED
  BY <1>1, <1>3, <1>4 DEF ComputeHistogram, ComputeJointHistogram, HistogramCalculator,
                          JointHistogramCalculator

\* Every bin is in range, unless the window has no width.
LEMMA BinsAre ==
  ASSUME NEW x \in Seq(Prices), x # << >>
  PROVE  ToSet(BinsOf(x)) \subseteq 0 .. Bins \/ ToSet(BinsOf(x)) = {NoWidth}
<1>. DEFINE low  == Min(ToSet(x))
            high == Max(ToSet(x))
            keys == BinsOf(x)
<1>1. Bins \in Nat /\ x \in Seq(Nat)
  BY ConfigAssumption, PricesAreNumbers
<1>2. /\ ToSet(x) \in SUBSET Nat /\ ToSet(x) # {}
      /\ \A i \in DOMAIN x : x[i] \in ToSet(x)
      /\ \E i \in DOMAIN x : TRUE
  <2>1. DOMAIN x = 1 .. Len(x) /\ Len(x) \in Nat /\ Len(x) # 0 /\ \A i \in DOMAIN x : x[i] \in Nat
    BY <1>1, LenProperties, EmptySeq
  <2>2. 1 \in DOMAIN x
    BY <2>1
  <2>. QED BY <2>1, <2>2 DEF ToSet
<1>3. low \in ToSet(x) /\ (\A y \in ToSet(x) : low <= y)
  BY <1>2, MinIs
<1>4. high \in ToSet(x) /\ (\A y \in ToSet(x) : high >= y)
  BY <1>1, MaxIs
<1>5. ToSet(keys) = {keys[i] : i \in DOMAIN keys} /\ DOMAIN keys = DOMAIN x
      /\ \A i \in DOMAIN x : keys[i] = Bin(x[i], low, high, Bins)
  BY DEF ToSet, BinsOf
<1>. HIDE DEF low, high, keys
<1>6. CASE low = high
  <2>1. \A i \in DOMAIN x : keys[i] = NoWidth
    BY <1>5, <1>6 DEF Bin
  <2>2. ToSet(keys) = {NoWidth}
    BY <1>2, <1>5, <2>1
  <2>. QED BY <2>2 DEF keys
<1>7. CASE low # high
  <2>1. ASSUME NEW i \in DOMAIN x PROVE keys[i] \in 0 .. Bins
    <3>. DEFINE n == x[i] - low
                w == high - low
    <3>1. n \in Nat /\ w \in Nat \ {0} /\ n <= w
      BY <1>2, <1>3, <1>4, <1>7
    <3>2. keys[i] = (n * Bins) \div w
      BY <1>5, <1>7 DEF Bin
    <3>. HIDE DEF n, w
    <3>. QED BY <1>1, <3>1, <3>2, Quotient
  <2>2. ToSet(keys) \subseteq 0 .. Bins
    BY <1>5, <2>1
  <2>. QED BY <2>2 DEF keys
<1>. QED BY <1>6, <1>7

LEMMA CountedIs ==
  ASSUME NEW keys
  PROVE  /\ DOMAIN Counted(keys) = {keys[i] : i \in DOMAIN keys}
         /\ \A k \in DOMAIN Counted(keys) :
              Counted(keys)[k] = Cardinality(Places(keys, k))
BY DEF Counted, ToSet, Places

\* The pairs of a joint histogram with k in front.
Under(joint, k) == {p \in DOMAIN joint : p[1] = k}

\* A sequence of pairs that has a in front: its histogram sums up to that of a.
LEMMA MarginalSums ==
  ASSUME NEW n \in Nat, NEW a, NEW both, DOMAIN a = 1 .. n,
         both = [i \in 1 .. n |-> both[i]], \A i \in 1 .. n : both[i][1] = a[i]
  PROVE  /\ DOMAIN Counted(a) = {p[1] : p \in DOMAIN Counted(both)}
         /\ \A k \in DOMAIN Counted(a) :
              Counted(a)[k] = SumFunctionOnSet(Counted(both), Under(Counted(both), k))
<1>1. /\ DOMAIN both = 1 .. n
      /\ \A i \in 1 .. n : both[i][1] = a[i]
  OBVIOUS
<1>. DEFINE J == DOMAIN Counted(both)
<1>2. J = {both[i] : i \in 1 .. n} /\ DOMAIN Counted(a) = {a[i] : i \in 1 .. n}
  <2>1. J = {both[i] : i \in DOMAIN both}
    BY CountedIs
  <2>2. DOMAIN Counted(a) = {a[i] : i \in DOMAIN a}
    BY CountedIs
  <2>. HIDE DEF J
  <2>. QED BY <1>1, <2>1, <2>2
<1>3. DOMAIN Counted(a) = {p[1] : p \in J}
  <2>. HIDE DEF J
  <2>. DEFINE K == DOMAIN Counted(a)
              F == {p[1] : p \in J}
  <2>1. \A k \in K : \E p \in J : p[1] = k
    BY <1>1, <1>2
  <2>2. \A p \in J : p[1] \in K
    BY <1>1, <1>2
  <2>. HIDE DEF K
  <2>3. K \subseteq F
    BY <2>1
  <2>4. F \subseteq K
    BY <2>2
  <2>. HIDE DEF F
  <2>5. K = F
    BY <2>3, <2>4
  <2>. QED BY <2>5 DEF K, F
<1>4. IsFiniteSet(1 .. n)
  BY Interval
<1>5. IsFiniteSet(J)
  <2>1. both \in FS!Surjection(1 .. n, J)
    <3>. HIDE DEF J
    <3>1. both \in [1 .. n -> J]
      BY <1>1, <1>2
    <3>. QED BY <1>1, <1>2, <3>1 DEF FS!Surjection
  <2>. HIDE DEF J
  <2>. QED BY <1>4, <2>1, SameFinite, FS!FS_Surjection
<1>6. ASSUME NEW k \in DOMAIN Counted(a)
      PROVE  Counted(a)[k] = SumFunctionOnSet(Counted(both), Under(Counted(both), k))
  <2>. DEFINE P == Under(Counted(both), k)
              f == Counted(both)
  <2>1. P = {p \in J : p[1] = k}
    BY DEF Under
  <2>2. IsFiniteSet(P)
    <3>. HIDE DEF J, P
    <3>. QED BY <1>5, <2>1, Part
  <2>3. \A p \in P : f[p] = Cardinality(Places(both, p))
    <3>1. \A p \in J : f[p] = Cardinality(Places(both, p))
      BY CountedIs
    <3>. HIDE DEF J, P, f
    <3>. QED BY <2>1, <3>1
  <2>4. SumFunctionOnSet(f, P) = Cardinality(PlacesIn(both, P))
    <3>. HIDE DEF P, f, J
    <3>. QED BY <1>1, <1>4, <2>2, <2>3, CountsSum
  <2>5. PlacesIn(both, P) = Places(a, k)
    <3>. HIDE DEF J, P
    <3>1. \A i \in 1 .. n : both[i] \in P <=> a[i] = k
      BY <1>1, <1>2, <2>1
    <3>. QED BY <1>1, <3>1 DEF PlacesIn, Places
  <2>6. Counted(a)[k] = Cardinality(Places(a, k))
    BY CountedIs
  <2>. HIDE DEF P, f
  <2>7. Counted(a)[k] = SumFunctionOnSet(f, P)
    BY <2>4, <2>5, <2>6
  <2>. QED BY <2>7 DEF P, f
<1>. QED BY <1>3, <1>6

\* What HistogramsAgree says of a full window x and another, y.
Agreeing(x, xRange, y, yRange) ==
  LET hist  == HistogramCalculator(x, xRange, Bins)
      joint == JointHistogramCalculator(x, xRange, y, yRange, Bins)
  IN  /\ hist = HistogramCalculator(x, << >>, Bins)
      /\ joint = JointHistogramCalculator(x, << >>, y, << >>, Bins)
      /\ DOMAIN hist \subseteq 0 .. Bins \/ DOMAIN hist = {NoWidth}
      /\ \A k \in DOMAIN hist :
           hist[k] = SumFunctionOnSet(joint, {p \in DOMAIN joint : p[1] = k})
      /\ DOMAIN hist = {p[1] : p \in DOMAIN joint}

\* Two full windows.
LEMMA FullWindowsAgree ==
  ASSUME NEW x \in Seq(Prices), NEW y \in Seq(Prices), x # << >>, Len(x) = Len(y)
  PROVE  Agreeing(x, RangeOf(x), y, RangeOf(y))
<1>1. DOMAIN x = 1 .. Len(x) /\ DOMAIN y = 1 .. Len(x) /\ Len(x) \in Nat
  BY LenProperties
<1>. DEFINE a == BinsOf(x)
            b == BinsOf(y)
            both == BinsOfBoth(x, y)
            hist == HistogramCalculator(x, RangeOf(x), Bins)
            joint == JointHistogramCalculator(x, RangeOf(x), y, RangeOf(y), Bins)
<1>2. /\ hist = Counted(a) /\ joint = Counted(both)
      /\ HistogramCalculator(x, << >>, Bins) = Counted(a)
      /\ JointHistogramCalculator(x, << >>, y, << >>, Bins) = Counted(both)
  BY <1>1, CalculatorIs
<1>3. /\ DOMAIN a = 1 .. Len(x) /\ both = [i \in 1 .. Len(x) |-> both[i]]
      /\ \A i \in 1 .. Len(x) : both[i][1] = a[i]
  <2>1. DOMAIN a = DOMAIN x
    BY DEF BinsOf
  <2>2. both = [i \in DOMAIN x |-> <<a[i], b[i]>>]
    BY DEF BinsOfBoth
  <2>. HIDE DEF a, b, both
  <2>. QED BY <1>1, <2>1, <2>2
<1>4. DOMAIN Counted(a) \subseteq 0 .. Bins \/ DOMAIN Counted(a) = {NoWidth}
  BY BinsAre DEF Counted
<1>. HIDE DEF a, b, both
<1>5. /\ DOMAIN Counted(a) = {p[1] : p \in DOMAIN Counted(both)}
      /\ \A k \in DOMAIN Counted(a) :
           Counted(a)[k] = SumFunctionOnSet(Counted(both), Under(Counted(both), k))
  BY <1>1, <1>3, MarginalSums
<1>. QED BY <1>2, <1>4, <1>5 DEF Agreeing, Under

LEMMA HistogramsInv == Inv => HistogramsAgree
<1>. SUFFICES ASSUME Inv, NEW a \in Assets, NEW b \in Assets,
                     HasEnoughData(storage[a]), HasEnoughData(storage[b])
              PROVE  Agreeing(storage[a].data,
                              <<storage[a].min.extreme[1], storage[a].max.extreme[1]>>,
                              storage[b].data,
                              <<storage[b].min.extreme[1], storage[b].max.extreme[1]>>)
  BY DEF HistogramsAgree, Agreeing
<1>1. WindowSize \in Nat \ {0}
  BY ConfigAssumption
<1>2. PICK D : Holds(storage, D)
  BY StorageHolds
<1>3. ASSUME NEW c \in Assets, HasEnoughData(storage[c])
      PROVE  \E x \in Seq(Prices) :
               /\ x # << >> /\ Len(x) = WindowSize /\ storage[c].data = x
               /\ <<storage[c].min.extreme[1], storage[c].max.extreme[1]>> = RangeOf(x)
  <2>1. PICK x \in Seq(Prices) : storage[c] = WindowOf(x) /\ Len(x) <= WindowSize
    BY <1>2, HeldWindow
  <2>2. PICK w : w = storage[c]
    OBVIOUS
  <2>3. /\ w.data = x /\ w.min.extreme = LowOf(x) /\ w.max.extreme = HighOf(x)
        /\ Len(x) \in Nat /\ (x = << >> <=> Len(x) = 0)
    BY <2>1, <2>2, WindowFields
  <2>4. Len(x) = WindowSize /\ x # << >>
    BY <1>1, <1>3, <2>1, <2>2, <2>3 DEF HasEnoughData
  <2>5. w.min.extreme = <<Min(ToSet(x))>> /\ w.max.extreme = <<Max(ToSet(x))>>
    BY <2>3, <2>4 DEF LowOf, HighOf
  <2>6. <<w.min.extreme[1], w.max.extreme[1]>> = RangeOf(x)
    BY <2>5 DEF RangeOf
  <2>. QED BY <2>2, <2>3, <2>4, <2>6
<1>4. PICK x \in Seq(Prices) :
        /\ x # << >> /\ Len(x) = WindowSize /\ storage[a].data = x
        /\ <<storage[a].min.extreme[1], storage[a].max.extreme[1]>> = RangeOf(x)
  BY <1>3
<1>5. PICK y \in Seq(Prices) :
        /\ y # << >> /\ Len(y) = WindowSize /\ storage[b].data = y
        /\ <<storage[b].min.extreme[1], storage[b].max.extreme[1]>> = RangeOf(y)
  BY <1>3
<1>. QED BY <1>4, <1>5, FullWindowsAgree

\* The extremes the trackers know give the bins of the window's own range, every sample is
\* in a bin from 0 to the number of bins, and the joint histogram of two full windows sums
\* up to the histogram of each, for every window size and number of bins
\* (histogram_calculator.h:36, joint_histogram_calculator.h:63).
THEOREM HistogramsRight == Spec => []HistogramsAgree
<1>. QED BY InitInv, NextInv, HistogramsInv, PTL DEF Spec

=============================================================================
