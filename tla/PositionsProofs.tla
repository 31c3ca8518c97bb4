--------------------------- MODULE PositionsProofs ---------------------------
(***************************************************************************)
(* Theorems about Positions, for all prices, quantities, quotes and any    *)
(* number of executions: the variables keep their types, the average of a  *)
(* net position accounts for the money that was spent on it, and the       *)
(* unrealized profit is that of the position.                              *)
(*                                                                         *)
(* The model computes with fractions in lowest terms, so most of the       *)
(* lemmas are about these: equal quotients have equal lowest terms, and    *)
(* what +, * and / give.                                                   *)
(***************************************************************************)
EXTENDS Positions, TLAPS

FS == INSTANCE FiniteSetTheorems

-----------------------------------------------------------------------------
(* Divisors.                                                               *)

\* A set of natural numbers has a least element.
LEMMA LeastNat ==
  ASSUME NEW T \in SUBSET Nat, T # {}
  PROVE  \E x \in T : \A y \in T : x <= y
<1>. DEFINE R == FS!OpToRel(<, Nat)
<1>1. FS!IsWellFoundedOn(R, Nat)
  BY FS!NatLessThanWellFounded
<1>2. \A x, y \in Nat : <<y, x>> \in R <=> y < x
  <2>. TAKE x, y \in Nat
  <2>1. <<y, x>> \in Nat \X Nat
    OBVIOUS
  <2>. QED
    BY <2>1 DEF FS!OpToRel
<1>. HIDE DEF R
<1>3. PICK x \in T : \A y \in T : ~(<<y, x>> \in R)
  BY <1>1, FS!WFMin
<1>4. ASSUME NEW y \in T PROVE x <= y
  <2>1. ~(y < x) /\ x \in Nat /\ y \in Nat
    BY <1>2, <1>3
  <2>. QED
    BY <2>1
<1>. QED
  BY <1>4

\* Division with remainder.
LEMMA Division ==
  ASSUME NEW n \in Int, NEW j \in Nat \ {0}
  PROVE  /\ n \div j \in Int /\ n % j \in 0 .. j - 1
         /\ n = j * (n \div j) + (n % j)
<1>1. n \div j \in Int
  OBVIOUS
<1>2. n % j \in 0 .. j - 1
  OBVIOUS
<1>3. n = j * (n \div j) + (n % j)
  OBVIOUS
<1>. QED
  BY <1>1, <1>2, <1>3

\* A multiple leaves no remainder.
LEMMA Multiple ==
  ASSUME NEW m \in Int, NEW j \in Nat \ {0}
  PROVE  (j * m) % j = 0 /\ (j * m) \div j = m
<1>. DEFINE n == j * m
            q == n \div j
            r == n % j
<1>1. n \in Int
  OBVIOUS
<1>2. q \in Int /\ r \in 0 .. j - 1 /\ n = j * q + r
  <2>. HIDE DEF n
  <2>. QED
    BY <1>1, Division
<1>3. j * (m - q) = r
  <2>1. j * m = j * q + r
    BY <1>2
  <2>. HIDE DEF q, r
  <2>. QED
    BY <1>2, <2>1
<1>. HIDE DEF n, q, r
<1>4. m - q = 0
  <2>1. m - q \in Int
    BY <1>2
  <2>2. ASSUME m - q >= 1 PROVE FALSE
    <3>1. j * (m - q) >= j
      BY <1>2, <2>2
    <3>. QED
      BY <1>2, <1>3, <3>1
  <2>3. ASSUME m - q <= -1 PROVE FALSE
    <3>1. j * (m - q) <= -j
      BY <1>2, <2>3
    <3>. QED
      BY <1>2, <1>3, <3>1
  <2>. QED
    BY <2>1, <2>2, <2>3
<1>5. q = m /\ r = 0
  BY <1>2, <1>3, <1>4
<1>. QED
  BY <1>5 DEF n, q, r

\* Max is the largest of finitely many numbers.
LEMMA Largest ==
  ASSUME NEW d \in Nat, NEW T \in SUBSET (0 .. d), T # {}
  PROVE  Max(T) \in T /\ \A y \in T : Max(T) >= y
<1>. DEFINE U == {d - x : x \in T}
<1>1. U \in SUBSET Nat /\ U # {}
  <2>1. \A x \in T : d - x \in Nat
    OBVIOUS
  <2>2. \E x \in T : d - x \in U
    OBVIOUS
  <2>. QED
    BY <2>1, <2>2
<1>2. PICK u \in U : \A y \in U : u <= y
  <2>. HIDE DEF U
  <2>. QED
    BY <1>1, LeastNat
<1>3. PICK x \in T : u = d - x
  BY <1>2
<1>4. \A y \in T : x >= y
  <2>. TAKE y \in T
  <2>1. d - y \in U
    OBVIOUS
  <2>2. u <= d - y
    BY <1>2, <2>1
  <2>. QED
    BY <1>3, <2>2
<1>5. \E z \in T : \A y \in T : z >= y
  BY <1>4
<1>. QED
  BY <1>5 DEF Max

-----------------------------------------------------------------------------
(* Fractions.                                                              *)

Divisors(n, d) == {j \in 1 .. d : n % j = 0 /\ d % j = 0}

\* What lowest terms are: both divided by the greatest common divisor.
LEMMA LowestIs ==
  ASSUME NEW n \in Int, NEW d \in Nat \ {0}
  PROVE  \E k \in 1 .. d :
           /\ Lowest(n, d) \in Int \X (Nat \ {0})
           /\ n = k * Lowest(n, d)[1] /\ d = k * Lowest(n, d)[2]
           /\ \A j \in 1 .. d : n % j = 0 /\ d % j = 0 => j <= k
<1>. DEFINE T == Divisors(n, d)
            k == Max(T)
            a == n \div k
            b == d \div k
<1>1. T \in SUBSET (0 .. d) /\ T # {}
  <2>1. 1 \in T
    <3>1. n % 1 = 0 /\ d % 1 = 0
      OBVIOUS
    <3>. QED
      BY <3>1 DEF Divisors
  <2>. QED
    BY <2>1 DEF Divisors
<1>2. k \in T /\ \A j \in T : j <= k
  <2>. HIDE DEF T
  <2>1. Max(T) \in T /\ \A j \in T : Max(T) >= j
    BY <1>1, Largest
  <2>. QED
    BY <1>1, <2>1
<1>3. Lowest(n, d) = <<a, b>>
  BY DEF Lowest, Divisors
<1>. HIDE DEF k
<1>4. k \in 1 .. d /\ n % k = 0 /\ d % k = 0
  BY <1>2 DEF Divisors
<1>5. a \in Int /\ n = k * a
  <2>1. n \div k \in Int /\ n = k * (n \div k) + (n % k)
    BY <1>4, Division
  <2>. QED
    BY <1>4, <2>1
<1>6. b \in Int /\ d = k * b
  <2>1. d \div k \in Int /\ d = k * (d \div k) + (d % k)
    BY <1>4, Division
  <2>. QED
    BY <1>4, <2>1
<1>. HIDE DEF a, b
<1>7. b > 0
  <2>1. CASE b <= 0
    <3>1. k * b <= 0
      BY <1>4, <1>6, <2>1
    <3>. QED
      BY <1>6, <3>1
  <2>. QED
    BY <1>6, <2>1
<1>8. \A j \in 1 .. d : n % j = 0 /\ d % j = 0 => j <= k
  BY <1>2 DEF Divisors
<1>9. Lowest(n, d) \in Int \X (Nat \ {0}) /\ Lowest(n, d)[1] = a /\ Lowest(n, d)[2] = b
  BY <1>3, <1>5, <1>6, <1>7
<1>10. n = k * Lowest(n, d)[1] /\ d = k * Lowest(n, d)[2]
  BY <1>5, <1>6, <1>9
<1>. QED
  BY <1>4, <1>8, <1>9, <1>10

\* A representation of n/d with the least denominator divides all others.
LEMMA Least ==
  ASSUME NEW n \in Int, NEW d \in Nat \ {0}
  PROVE  \E a \in Int, b \in Nat \ {0}, q \in Nat \ {0} : n = q * a /\ d = q * b
           /\ \A m \in Int, e \in Nat \ {0} : n * e = m * d => b <= e
<1>. DEFINE Same(m, e) == n * e = m * d
            T == {e \in Nat \ {0} : \E m \in Int : Same(m, e)}
<1>1. d \in T
  OBVIOUS
<1>2. PICK b \in T : \A e \in T : b <= e
  <2>1. T \in SUBSET Nat /\ T # {}
    BY <1>1
  <2>. HIDE DEF T
  <2>. QED
    BY <2>1, LeastNat
<1>3. PICK a \in Int : n * b = a * d
  BY <1>2
<1>4. b \in Nat \ {0}
  BY <1>2
<1>. DEFINE q == d \div b
            r == d % b
<1>5. q \in Int /\ r \in 0 .. b - 1 /\ d = b * q + r
  BY <1>4, Division
<1>. HIDE DEF q, r
<1>6. r = 0
  <2>. SUFFICES ASSUME r # 0 PROVE FALSE
    OBVIOUS
  <2>1. r \in Nat \ {0} /\ r < b
    BY <1>4, <1>5
  <2>2. n * r = (n - q * a) * d
    <3>1. r = d - b * q
      BY <1>4, <1>5
    <3>2. n * r = n * d - (n * b) * q
      BY <1>4, <1>5, <3>1
    <3>3. n * r = n * d - (a * d) * q
      BY <1>3, <3>2
    <3>. QED
      BY <1>3, <1>5, <3>3
  <2>3. n - q * a \in Int
    BY <1>3, <1>5
  <2>4. r \in T
    BY <2>1, <2>2, <2>3
  <2>. QED
    BY <1>2, <1>4, <2>1, <2>4
<1>7. d = q * b /\ q \in Nat \ {0}
  <2>1. d = b * q
    BY <1>4, <1>5, <1>6
  <2>2. q > 0
    <3>1. CASE q <= 0
      <4>1. b * q <= 0
        BY <1>4, <1>5, <3>1
      <4>. QED
        BY <2>1, <4>1
    <3>. QED
      BY <1>5, <3>1
  <2>. QED
    BY <1>4, <1>5, <2>1, <2>2
<1>8. n = q * a
  <2>1. n * b = (q * a) * b
    BY <1>3, <1>4, <1>5, <1>7
  <2>2. (n - q * a) * b = 0
    BY <1>3, <1>4, <1>7, <2>1
  <2>3. n - q * a \in Int
    BY <1>3, <1>7
  <2>. QED
    BY <1>3, <1>4, <1>7, <2>2, <2>3
<1>9. \A m \in Int, e \in Nat \ {0} : n * e = m * d => b <= e
  BY <1>2
<1>. QED
  BY <1>3, <1>4, <1>7, <1>8, <1>9

\* Lowest terms have the least denominator.
LEMMA LowestIsLeast ==
  ASSUME NEW n \in Int, NEW d \in Nat \ {0}
  PROVE  /\ Lowest(n, d) \in Int \X (Nat \ {0})
         /\ n * Lowest(n, d)[2] = Lowest(n, d)[1] * d
         /\ \A m \in Int, e \in Nat \ {0} : n * e = m * d => Lowest(n, d)[2] <= e
<1>. DEFINE x == Lowest(n, d)[1]
            y == Lowest(n, d)[2]
<1>1. PICK k \in 1 .. d :
           /\ Lowest(n, d) \in Int \X (Nat \ {0}) /\ n = k * x /\ d = k * y
           /\ \A j \in 1 .. d : n % j = 0 /\ d % j = 0 => j <= k
  BY LowestIs
<1>2. PICK a \in Int, b \in Nat \ {0}, q \in Nat \ {0} : n = q * a /\ d = q * b
           /\ \A m \in Int, e \in Nat \ {0} : n * e = m * d => b <= e
  BY Least
<1>3. x \in Int /\ y \in Nat \ {0} /\ k \in Nat \ {0}
  BY <1>1
<1>. HIDE DEF x, y
<1>4. n * y = x * d
  BY <1>1, <1>3
<1>5. q <= k
  <2>1. n % q = 0 /\ d % q = 0
    BY <1>2, Multiple
  <2>2. q \in 1 .. d
    <3>1. q * b >= q
      BY <1>2
    <3>. QED
      BY <1>2, <3>1
  <2>. QED
    BY <1>1, <2>1, <2>2
<1>6. y <= b
  <2>. SUFFICES ASSUME y > b PROVE FALSE
    BY <1>2, <1>3
  <2>1. k * y >= k * (b + 1)
    BY <1>2, <1>3
  <2>2. k * (b + 1) > q * b
    <3>1. k * b >= q * b
      BY <1>2, <1>3, <1>5
    <3>2. k * (b + 1) = k * b + k
      BY <1>2, <1>3
    <3>. QED
      BY <1>2, <1>3, <3>1, <3>2
  <2>. QED
    BY <1>1, <1>2, <1>3, <2>1, <2>2
<1>7. \A m \in Int, e \in Nat \ {0} : n * e = m * d => y <= e
  BY <1>2, <1>3, <1>6
<1>. QED
  BY <1>1, <1>4, <1>7 DEF x, y

\* Equal fractions have the same lowest terms.
LEMMA LowestUnique ==
  ASSUME NEW n \in Int, NEW d \in Nat \ {0}, NEW m \in Int, NEW e \in Nat \ {0}, n * e = m * d
  PROVE  Lowest(n, d) = Lowest(m, e)
<1>1. PICK x \in Int, y \in Nat \ {0} :
        /\ Lowest(n, d) = <<x, y>> /\ n * y = x * d
        /\ \A i \in Int, f \in Nat \ {0} : n * f = i * d => y <= f
  <2>1. PICK p \in Int \X (Nat \ {0}) : p = Lowest(n, d)
    BY LowestIsLeast
  <2>2. p = <<p[1], p[2]>> /\ p[1] \in Int /\ p[2] \in Nat \ {0}
    OBVIOUS
  <2>3. n * Lowest(n, d)[2] = Lowest(n, d)[1] * d
    BY LowestIsLeast
  <2>4. \A i \in Int, f \in Nat \ {0} : n * f = i * d => Lowest(n, d)[2] <= f
    BY LowestIsLeast
  <2>. QED
    BY <2>1, <2>2, <2>3, <2>4
<1>2. PICK v \in Int, w \in Nat \ {0} :
        /\ Lowest(m, e) = <<v, w>> /\ m * w = v * e
        /\ \A i \in Int, f \in Nat \ {0} : m * f = i * e => w <= f
  <2>1. PICK p \in Int \X (Nat \ {0}) : p = Lowest(m, e)
    BY LowestIsLeast
  <2>2. p = <<p[1], p[2]>> /\ p[1] \in Int /\ p[2] \in Nat \ {0}
    OBVIOUS
  <2>3. m * Lowest(m, e)[2] = Lowest(m, e)[1] * e
    BY LowestIsLeast
  <2>4. \A i \in Int, f \in Nat \ {0} : m * f = i * e => Lowest(m, e)[2] <= f
    BY LowestIsLeast
  <2>. QED
    BY <2>1, <2>2, <2>3, <2>4
<1>3. n * w = v * d
  <2>1. (n * w) * e = (v * d) * e
    <3>1. (n * w) * e = (n * e) * w
      BY <1>2
    <3>2. (n * e) * w = (m * w) * d
      BY <1>2
    <3>3. (m * w) * d = (v * d) * e
      BY <1>2
    <3>. QED
      BY <3>1, <3>2, <3>3
  <2>2. (n * w - v * d) * e = 0 /\ n * w - v * d \in Int
    BY <1>2, <2>1
  <2>3. n * w - v * d = 0
    BY <2>2
  <2>. QED
    BY <1>2, <2>3
<1>4. m * y = x * e
  <2>1. (m * y) * d = (x * e) * d
    <3>1. (m * y) * d = (m * d) * y
      BY <1>1
    <3>2. (m * d) * y = (n * y) * e
      BY <1>1
    <3>3. (n * y) * e = (x * e) * d
      BY <1>1
    <3>. QED
      BY <3>1, <3>2, <3>3
  <2>2. (m * y - x * e) * d = 0 /\ m * y - x * e \in Int
    BY <1>1, <2>1
  <2>3. m * y - x * e = 0
    BY <2>2
  <2>. QED
    BY <1>1, <2>3
<1>5. y = w
  <2>1. y <= w
    BY <1>1, <1>2, <1>3
  <2>2. w <= y
    BY <1>1, <1>2, <1>4
  <2>. QED
    BY <2>1, <2>2
<1>6. x = v
  <2>1. x * d = v * d
    BY <1>1, <1>3, <1>5
  <2>2. (x - v) * d = 0 /\ x - v \in Int
    BY <1>1, <1>2, <2>1
  <2>. QED
    BY <1>1, <1>2, <2>2
<1>. QED
  BY <1>1, <1>2, <1>5, <1>6

\* Fractions but for the one that is no number.
Numbers == Int \X (Nat \ {0})

\* A number, and which one it is.
LEMMA RatioIs ==
  ASSUME NEW n \in Int, NEW d \in Int \ {0}
  PROVE  Ratio(n, d) \in Numbers /\ Ratio(n, d)[1] * d = n * Ratio(n, d)[2]
<1>1. CASE d > 0
  <2>1. Sign(d) = 1 /\ Abs(d) = d /\ 1 * n = n /\ d \in Nat \ {0}
    BY <1>1 DEF Sign, Abs
  <2>2. Ratio(n, d) = Lowest(n, d)
    BY <2>1 DEF Ratio
  <2>3. Lowest(n, d) \in Numbers /\ n * Lowest(n, d)[2] = Lowest(n, d)[1] * d
    BY <2>1, LowestIsLeast DEF Numbers
  <2>. QED
    BY <2>2, <2>3
<1>2. CASE d < 0
  <2>1. Sign(d) = -1 /\ Abs(d) = -d /\ (-1) * n = -n /\ -d \in Nat \ {0} /\ -n \in Int
    BY <1>2 DEF Sign, Abs
  <2>2. Ratio(n, d) = Lowest(-n, -d)
    BY <2>1 DEF Ratio
  <2>3. Lowest(-n, -d) \in Numbers /\ (-n) * Lowest(-n, -d)[2] = Lowest(-n, -d)[1] * (-d)
    BY <2>1, LowestIsLeast DEF Numbers
  <2>4. ASSUME NEW x \in Numbers, (-n) * x[2] = x[1] * (-d)
        PROVE  x[1] * d = n * x[2]
    <3>0. x[1] \in Int /\ x[2] \in Int
      BY DEF Numbers
    <3>1. PICK a \in Int, b \in Int : a = x[1] /\ b = x[2]
      BY <3>0
    <3>2. (-n) * b + n * b = 0 /\ a * (-d) + a * d = 0
      BY <3>1
    <3>3. a * d = n * b
      BY <2>4, <3>1, <3>2
    <3>. QED
      BY <3>1, <3>3
  <2>. QED
    BY <2>2, <2>3, <2>4
<1>. QED
  BY <1>1, <1>2

\* A division by zero gives no number.
LEMMA RatioUndefined == \A n : Ratio(n, 0) = <<0, 0>>
BY DEF Ratio

\* In any case the result is a fraction.
LEMMA RatioType ==
  ASSUME NEW n \in Int, NEW d \in Int
  PROVE  Ratio(n, d) \in Fractions
<1>1. d = 0 => Ratio(n, d) \in Fractions
  BY RatioUndefined DEF Fractions
<1>2. d # 0 => Ratio(n, d) \in Fractions
  BY RatioIs DEF Numbers, Fractions
<1>. QED
  BY <1>1, <1>2

\* Equal quotients are the same fraction.
LEMMA SameRatio ==
  ASSUME NEW n \in Int, NEW d \in Int \ {0}, NEW m \in Int, NEW e \in Int \ {0}, n * e = m * d
  PROVE  Ratio(n, d) = Ratio(m, e)
<1>1. ASSUME NEW i \in Int, NEW f \in Int \ {0}
      PROVE  /\ Sign(f) * i \in Int /\ Abs(f) \in Nat \ {0} /\ Sign(f) \in {1, -1}
             /\ Abs(f) = Sign(f) * f /\ Ratio(i, f) = Lowest(Sign(f) * i, Abs(f))
  <2>1. Sign(f) * i \in Int /\ Abs(f) \in Nat \ {0} /\ Sign(f) \in {1, -1} /\ Abs(f) = Sign(f) * f
    BY DEF Sign, Abs
  <2>2. Ratio(i, f) = Lowest(Sign(f) * i, Abs(f))
    BY DEF Ratio
  <2>. QED
    BY <2>1, <2>2
<1>2. PICK r, s : r = Sign(d) /\ s = Sign(e)
  OBVIOUS
<1>3. r \in {1, -1} /\ s \in {1, -1} /\ Abs(d) = r * d /\ Abs(e) = s * e
  BY <1>1, <1>2
<1>4. (r * n) * (s * e) = (s * m) * (r * d)
  BY <1>3
<1>5. r * n \in Int /\ r * d \in Nat \ {0} /\ s * m \in Int /\ s * e \in Nat \ {0}
  BY <1>1, <1>2, <1>3
<1>6. Lowest(r * n, r * d) = Lowest(s * m, s * e)
  BY <1>4, <1>5, LowestUnique
<1>7. Ratio(n, d) = Lowest(r * n, r * d) /\ Ratio(m, e) = Lowest(s * m, s * e)
  BY <1>1, <1>2, <1>3
<1>. QED
  BY <1>6, <1>7

\* A quotient without remainder is the whole number.
LEMMA RatioWhole ==
  ASSUME NEW n \in Int, NEW d \in Int \ {0}
  PROVE  Ratio(n * d, d) = Num(n)
<1>1. n * d \in Int /\ (n * d) * 1 = n * d
  OBVIOUS
<1>2. Ratio(n * d, d) = Ratio(n, 1)
  BY <1>1, SameRatio
<1>3. PICK k \in 1 .. 1 : /\ Lowest(n, 1) \in Int \X (Nat \ {0})
                          /\ n = k * Lowest(n, 1)[1] /\ 1 = k * Lowest(n, 1)[2]
  BY LowestIs
<1>4. Lowest(n, 1) = <<n, 1>>
  BY <1>3
<1>5. Ratio(n, 1) = Lowest(n, 1)
  BY DEF Ratio, Sign, Abs
<1>. QED
  BY <1>2, <1>4, <1>5 DEF Num

\* x stands for n/d.
Is(x, n, d) == x \in Numbers /\ n \in Int /\ d \in Int \ {0} /\ x[1] * d = n * x[2]

\* What the operations give, in terms of what their arguments stand for.
LEMMA NumIs == ASSUME NEW k \in Int PROVE Is(Num(k), k, 1)
BY DEF Is, Num, Numbers

LEMMA ValueIs == ASSUME NEW n \in Int, NEW d \in Int \ {0} PROVE Is(Ratio(n, d), n, d)
BY RatioIs DEF Is

LEMMA TimesIs ==
  ASSUME NEW x, NEW n, NEW d, Is(x, n, d), NEW k \in Int
  PROVE  Times(k, x) = Ratio(k * n, d)
<1>1. PICK a, b : a = x[1] /\ b = x[2]
  OBVIOUS
<1>2. a \in Int /\ b \in Int \ {0} /\ n \in Int /\ d \in Int \ {0} /\ a * d = n * b
  BY <1>1 DEF Is, Numbers
<1>3. k * a \in Int /\ k * n \in Int /\ (k * a) * d = (k * n) * b
  <2>1. (k * a) * d = k * (a * d) /\ (k * n) * b = k * (n * b)
    BY <1>2
  <2>. QED
    BY <1>2, <2>1
<1>4. Ratio(k * a, b) = Ratio(k * n, d)
  BY <1>2, <1>3, SameRatio
<1>. QED
  BY <1>1, <1>4 DEF Times

LEMMA OverIs ==
  ASSUME NEW x, NEW n, NEW d, Is(x, n, d), NEW k \in Int \ {0}
  PROVE  Over(x, k) = Ratio(n, d * k)
<1>1. PICK a, b : a = x[1] /\ b = x[2]
  OBVIOUS
<1>2. a \in Int /\ b \in Int \ {0} /\ n \in Int /\ d \in Int \ {0} /\ a * d = n * b
  BY <1>1 DEF Is, Numbers
<1>3. b * k \in Int \ {0} /\ d * k \in Int \ {0}
  BY <1>2
<1>4. a * (d * k) = n * (b * k)
  <2>1. a * (d * k) = (a * d) * k /\ n * (b * k) = (n * b) * k
    BY <1>2
  <2>. QED
    BY <1>2, <2>1
<1>5. Ratio(a, b * k) = Ratio(n, d * k)
  BY <1>2, <1>3, <1>4, SameRatio
<1>. QED
  BY <1>1, <1>5 DEF Over

LEMMA PlusIs ==
  ASSUME NEW x, NEW n, NEW d, Is(x, n, d), NEW y, NEW m, NEW e, Is(y, m, e)
  PROVE  Plus(x, y) = Ratio(n * e + m * d, d * e)
<1>1. PICK a, b : a = x[1] /\ b = x[2]
  OBVIOUS
<1>2. PICK p, q : p = y[1] /\ q = y[2]
  OBVIOUS
<1>3. a \in Int /\ b \in Int \ {0} /\ n \in Int /\ d \in Int \ {0} /\ a * d = n * b
  BY <1>1 DEF Is, Numbers
<1>4. p \in Int /\ q \in Int \ {0} /\ m \in Int /\ e \in Int \ {0} /\ p * e = m * q
  BY <1>2 DEF Is, Numbers
<1>5. /\ a * q + p * b \in Int /\ n * e + m * d \in Int
      /\ b * q \in Int \ {0} /\ d * e \in Int \ {0}
  BY <1>3, <1>4
<1>6. (a * q + p * b) * (d * e) = (n * e + m * d) * (b * q)
  <2>1. (a * q + p * b) * (d * e) = (a * d) * (q * e) + (p * e) * (b * d)
    BY <1>3, <1>4
  <2>2. (n * e + m * d) * (b * q) = (n * b) * (q * e) + (m * q) * (b * d)
    BY <1>3, <1>4
  <2>. QED
    BY <1>3, <1>4, <2>1, <2>2
<1>7. Ratio(a * q + p * b, b * q) = Ratio(n * e + m * d, d * e)
  BY <1>5, <1>6, SameRatio
<1>. QED
  BY <1>1, <1>2, <1>7 DEF Plus

\* Whatever is done with no number gives none.
LEMMA NotANumber ==
  ASSUME NEW x \in Fractions, x[2] = 0, NEW k \in Int
  PROVE  /\ Times(k, x) = <<0, 0>> /\ Over(x, k) = <<0, 0>>
         /\ \A y \in Fractions : Plus(x, y) = <<0, 0>> /\ Plus(y, x) = <<0, 0>>
<1>1. 0 * k = 0 /\ \A y \in Fractions : 0 * y[2] = 0 /\ y[2] * 0 = 0
  BY DEF Fractions
<1>2. \A y : Plus(x, y) = Ratio(x[1] * y[2] + y[1] * x[2], x[2] * y[2])
             /\ Plus(y, x) = Ratio(y[1] * x[2] + x[1] * y[2], y[2] * x[2])
  BY DEF Plus
<1>3. Times(k, x) = Ratio(k * x[1], 0) /\ Over(x, k) = Ratio(x[1], 0 * k)
  BY DEF Times, Over
<1>. QED
  BY <1>1, <1>2, <1>3, RatioUndefined

LEMMA OverNothing == \A x \in Fractions : Over(x, 0) = <<0, 0>>
<1>1. \A x \in Fractions : x[2] * 0 = 0
  BY DEF Fractions
<1>. QED
  BY <1>1, RatioUndefined DEF Over

\* The operations do not leave the fractions.
LEMMA Closed ==
  ASSUME NEW x \in Fractions, NEW y \in Fractions, NEW k \in Int
  PROVE  /\ Plus(x, y) \in Fractions /\ Times(k, x) \in Fractions /\ Over(x, k) \in Fractions
         /\ Num(k) \in Fractions
<1>1. x[1] \in Int /\ x[2] \in Int /\ y[1] \in Int /\ y[2] \in Int
  BY DEF Fractions
<1>2. Plus(x, y) \in Fractions
  <2>1. x[1] * y[2] + y[1] * x[2] \in Int /\ x[2] * y[2] \in Int
    BY <1>1
  <2>. QED
    BY <2>1, RatioType DEF Plus
<1>3. Times(k, x) \in Fractions
  <2>1. k * x[1] \in Int
    BY <1>1
  <2>. QED
    BY <1>1, <2>1, RatioType DEF Times
<1>4. Over(x, k) \in Fractions
  <2>1. x[2] * k \in Int
    BY <1>1
  <2>. QED
    BY <1>1, <2>1, RatioType DEF Over
<1>. QED
  BY <1>2, <1>3, <1>4 DEF Num, Fractions

-----------------------------------------------------------------------------
(* Sums over the entries, of which there are two at most.                  *)

First(s) == CHOOSE x \in s : TRUE

SumOfOne(S, v) == IF S = {} THEN Num(0) ELSE Plus(Num(0), v[First(S)])
SumOfTwo(S, v) == IF S = {} THEN Num(0) ELSE Plus(SumOfOne(S \ {First(S)}, v), v[First(S)])

\* F adds up v, the way a fold does.
Adds(F, S, v) ==
  \A s \in SUBSET S :
    F[s] = IF s = {} THEN Num(0) ELSE Plus(F[s \ {First(s)}], v[First(s)])

\* The element a fold takes next.
LEMMA FirstIn == ASSUME NEW s, s # {} PROVE First(s) \in s
BY DEF First

\* Of two elements nothing is left after the second.
LEMMA Rest ==
  ASSUME NEW a, NEW b, NEW s \in SUBSET {a, b}, s # {}
  PROVE  s \ {First(s)} = {} \/ (s \ {First(s)}) \ {First(s \ {First(s)})} = {}
<1>. DEFINE r == s \ {First(s)}
<1>1. First(s) \in {a, b}
  BY FirstIn
<1>. SUFFICES ASSUME r # {} PROVE r \ {First(r)} = {}
  OBVIOUS
<1>2. First(r) \in r
  BY FirstIn
<1>3. First(r) \in {a, b} /\ First(r) # First(s)
  BY <1>2
<1>. QED
  BY <1>1, <1>3

\* The sum of two goes the way a fold does.
LEMMA SumsAgree ==
  ASSUME NEW a, NEW b, NEW s \in SUBSET {a, b}, NEW v, s # {}
  PROVE  SumOfTwo(s, v) = Plus(SumOfTwo(s \ {First(s)}, v), v[First(s)])
<1>. DEFINE r == s \ {First(s)}
<1>1. r = {} \/ r \ {First(r)} = {}
  BY Rest
<1>. HIDE DEF r
<1>2. SumOfTwo(r, v) = SumOfOne(r, v)
  BY <1>1 DEF SumOfTwo, SumOfOne
<1>3. SumOfTwo(s, v) = Plus(SumOfOne(r, v), v[First(s)])
  BY DEF SumOfTwo, r
<1>. QED
  BY <1>2, <1>3 DEF r

\* Such a function exists, ...
LEMMA SumsExist ==
  ASSUME NEW a, NEW b, NEW S \in SUBSET {a, b}, NEW v
  PROVE  Adds([s \in SUBSET S |-> SumOfTwo(s, v)], S, v)
<1>. DEFINE H == [s \in SUBSET S |-> SumOfTwo(s, v)]
<1>1. \A s \in SUBSET S : H[s] = SumOfTwo(s, v)
  OBVIOUS
<1>2. ASSUME NEW s \in SUBSET S
      PROVE  H[s] = IF s = {} THEN Num(0) ELSE Plus(H[s \ {First(s)}], v[First(s)])
  <2>1. CASE s = {}
    BY <1>1, <2>1 DEF SumOfTwo
  <2>2. CASE s # {}
    <3>1. s \in SUBSET {a, b} /\ s \ {First(s)} \in SUBSET S
      OBVIOUS
    <3>2. SumOfTwo(s, v) = Plus(SumOfTwo(s \ {First(s)}, v), v[First(s)])
      BY <2>2, <3>1, SumsAgree
    <3>3. H[s] = SumOfTwo(s, v) /\ H[s \ {First(s)}] = SumOfTwo(s \ {First(s)}, v)
      BY <1>1, <3>1
    <3>. HIDE DEF H
    <3>. QED
      BY <2>2, <3>2, <3>3
  <2>. QED
    BY <2>1, <2>2
<1>. HIDE DEF H
<1>3. Adds(H, S, v)
  BY <1>2 DEF Adds
<1>. QED
  BY <1>3 DEF H

\* ... and gives the sum of two.
LEMMA SumIs ==
  ASSUME NEW a, NEW b, NEW S \in SUBSET {a, b}, NEW v, NEW G, Adds(G, S, v)
  PROVE  G[S] = SumOfTwo(S, v)
<1>1. \A s \in SUBSET S : G[s] = IF s = {} THEN Num(0)
                                 ELSE Plus(G[s \ {First(s)}], v[First(s)])
  BY DEF Adds
<1>2. G[{}] = Num(0)
  BY <1>1
<1>3. ASSUME NEW s \in SUBSET S, s # {}, s \ {First(s)} = {} PROVE G[s] = SumOfOne(s, v)
  <2>1. G[s] = Plus(G[s \ {First(s)}], v[First(s)])
    BY <1>1, <1>3
  <2>. QED
    BY <1>2, <1>3, <2>1 DEF SumOfOne
<1>4. ASSUME S # {} PROVE G[S] = SumOfTwo(S, v)
  <2>. DEFINE r == S \ {First(S)}
  <2>1. G[S] = Plus(G[r], v[First(S)]) /\ r \in SUBSET S
    BY <1>1, <1>4
  <2>2. r = {} \/ r \ {First(r)} = {}
    BY <1>4, Rest
  <2>3. SumOfTwo(S, v) = Plus(SumOfOne(r, v), v[First(S)])
    BY <1>4 DEF SumOfTwo
  <2>. HIDE DEF r
  <2>4. G[r] = SumOfOne(r, v)
    <3>1. r = {} => SumOfOne(r, v) = Num(0)
      BY DEF SumOfOne
    <3>. QED
      BY <1>2, <1>3, <2>1, <2>2, <3>1
  <2>. QED
    BY <2>1, <2>3, <2>4
<1>. QED
  BY <1>2, <1>4 DEF SumOfTwo

\* What is added up is a fraction.
LEMMA SumType ==
  ASSUME NEW S, NEW v, \A x \in S : v[x] \in Fractions
  PROVE  SumOfTwo(S, v) \in Fractions
<1>1. Num(0) \in Fractions
  BY DEF Num, Fractions
<1>2. ASSUME NEW s \in SUBSET S PROVE SumOfOne(s, v) \in Fractions
  <2>1. s # {} => v[First(s)] \in Fractions
    BY FirstIn
  <2>2. s # {} => Plus(Num(0), v[First(s)]) \in Fractions
    BY <1>1, <2>1, Closed
  <2>. QED
    BY <1>1, <2>2 DEF SumOfOne
<1>3. S # {} => SumOfOne(S \ {First(S)}, v) \in Fractions /\ v[First(S)] \in Fractions
  BY <1>2, FirstIn
<1>4. S # {} => Plus(SumOfOne(S \ {First(S)}, v), v[First(S)]) \in Fractions
  BY <1>3, Closed
<1>. QED
  BY <1>1, <1>4 DEF SumOfTwo

\* The entries of a net and of a hedged position.
Domains == {{"short", "long"}, {"net"}}

\* What the entries are worth.
Values(info, quote) == [e \in Known(info) |-> Value(info[e], quote)]
ClosingValues(info, quote) == [e \in Known(info) |-> ClosingValue(info[e], quote)]

\* What closing all known entries would bring, less what they cost.
ClosingTotal(info, quote) ==
  FoldSet(LAMBDA e, sum : Plus(sum, ClosingValue(info[e], quote)), Num(0), Known(info))

\* The two folds of the model.
LEMMA TotalIs ==
  ASSUME NEW info, DOMAIN info \in Domains, NEW quote, Known(info) # {}
  PROVE  Total(info, quote) = SumOfTwo(Known(info), Values(info, quote))
<1>. DEFINE S == Known(info)
            v == Values(info, quote)
            Goes(F) == F = [s \in SUBSET S |->
                              IF s = {} THEN Num(0)
                              ELSE Plus(F[s \ {First(s)}], Value(info[First(s)], quote))]
            G == CHOOSE F : Goes(F)
            H == [s \in SUBSET S |-> SumOfTwo(s, v)]
<1>1. Total(info, quote) = G[S]
  BY DEF Total, FoldSet, MapThenFoldSet, First
<1>2. PICK a, b : S \in SUBSET {a, b}
  <2>1. S \subseteq DOMAIN info
    BY DEF Known
  <2>. HIDE DEF S
  <2>2. PICK a, b : DOMAIN info \subseteq {a, b}
    BY DEF Domains
  <2>. QED
    BY <2>1, <2>2
<1>3. \A s \in SUBSET S : s # {} => v[First(s)] = Value(info[First(s)], quote)
  BY FirstIn DEF Values
<1>. HIDE DEF S, v
<1>4. Adds(H, S, v)
  BY <1>2, SumsExist
<1>5. H = [s \in SUBSET S |-> H[s]]
  OBVIOUS
<1>6. Goes(H)
  <2>. HIDE DEF H
  <2>. QED
    BY <1>3, <1>4, <1>5 DEF Adds
<1>7. Goes(G)
  BY <1>6
<1>. HIDE DEF G, H
<1>8. Adds(G, S, v)
  BY <1>3, <1>7 DEF Adds
<1>9. G[S] = SumOfTwo(S, v)
  BY <1>2, <1>8, SumIs
<1>. QED
  BY <1>1, <1>9 DEF S, v

LEMMA ClosingTotalIs ==
  ASSUME NEW info, DOMAIN info \in Domains, NEW quote
  PROVE  ClosingTotal(info, quote) = SumOfTwo(Known(info), ClosingValues(info, quote))
<1>. DEFINE S == Known(info)
            v == ClosingValues(info, quote)
            Goes(F) == F = [s \in SUBSET S |->
                              IF s = {} THEN Num(0)
                              ELSE Plus(F[s \ {First(s)}], ClosingValue(info[First(s)], quote))]
            G == CHOOSE F : Goes(F)
            H == [s \in SUBSET S |-> SumOfTwo(s, v)]
<1>1. ClosingTotal(info, quote) = G[S]
  BY DEF ClosingTotal, FoldSet, MapThenFoldSet, First
<1>2. PICK a, b : S \in SUBSET {a, b}
  <2>1. S \subseteq DOMAIN info
    BY DEF Known
  <2>. HIDE DEF S
  <2>2. PICK a, b : DOMAIN info \subseteq {a, b}
    BY DEF Domains
  <2>. QED
    BY <2>1, <2>2
<1>3. \A s \in SUBSET S : s # {} => v[First(s)] = ClosingValue(info[First(s)], quote)
  BY FirstIn DEF ClosingValues
<1>. HIDE DEF S, v
<1>4. Adds(H, S, v)
  BY <1>2, SumsExist
<1>5. H = [s \in SUBSET S |-> H[s]]
  OBVIOUS
<1>6. Goes(H)
  <2>. HIDE DEF H
  <2>. QED
    BY <1>3, <1>4, <1>5 DEF Adds
<1>7. Goes(G)
  BY <1>6
<1>. HIDE DEF G, H
<1>8. Adds(G, S, v)
  BY <1>3, <1>7 DEF Adds
<1>9. G[S] = SumOfTwo(S, v)
  BY <1>2, <1>8, SumIs
<1>. QED
  BY <1>1, <1>9 DEF S, v

\* The value of a side is what closing it brings less what it cost.
LEMMA ValueIsClosing ==
  ASSUME NEW q \in Int, NEW avg \in Fractions, NEW p \in Int
  PROVE  /\ Times(q, Plus(Num(p), Times(-1, avg))) = Plus(Num(q * p), Times(-q, avg))
         /\ Times(-q, Plus(avg, Num(-p))) = Plus(Num(q * p), Times(-q, avg))
<1>0. /\ -q \in Int /\ -p \in Int /\ q * p \in Int
      /\ Num(p) \in Fractions /\ Num(-p) \in Fractions /\ Num(q * p) \in Fractions
  BY DEF Num, Fractions
<1>1. CASE avg[2] = 0
  <2>. DEFINE nan == <<0, 0>>
  <2>1. nan \in Fractions /\ nan[2] = 0
    BY DEF Fractions
  <2>2. Times(-1, avg) = nan /\ Times(-q, avg) = nan /\ Plus(avg, Num(-p)) = nan
    BY <1>0, <1>1, NotANumber
  <2>. HIDE DEF nan
  <2>3. Plus(Num(p), nan) = nan /\ Plus(Num(q * p), nan) = nan
    BY <1>0, <2>1, NotANumber DEF nan
  <2>4. Times(q, nan) = nan /\ Times(-q, nan) = nan
    BY <1>0, <2>1, NotANumber DEF nan
  <2>. QED
    BY <2>2, <2>3, <2>4
<1>2. CASE avg[2] # 0
  <2>1. PICK a \in Int, b \in Int \ {0} : Is(avg, a, b)
    <3>1. avg[1] \in Int /\ avg[2] \in Int \ {0} /\ avg \in Numbers
      BY <1>2 DEF Fractions, Numbers
    <3>. QED
      BY <3>1 DEF Is
  <2>2. b * 1 = b /\ 1 * b = b /\ a * 1 = a /\ (-1) * a = -a
    OBVIOUS
  <2>3. PICK m : m = (-q) * a
    OBVIOUS
  <2>4. m \in Int /\ m = -(q * a) /\ m * 1 = m /\ (-a) * 1 = -a
    BY <2>3
  <2>5. Times(-1, avg) = Ratio(-a, b) /\ Times(-q, avg) = Ratio(m, b)
    BY <1>0, <2>1, <2>2, <2>3, TimesIs
  <2>6. Is(Ratio(-a, b), -a, b) /\ Is(Ratio(m, b), m, b)
    BY <2>4, ValueIs
  <2>7. Plus(Num(p), Ratio(-a, b)) = Ratio(p * b + (-a), b)
    <3>1. Plus(Num(p), Ratio(-a, b)) = Ratio(p * b + (-a) * 1, 1 * b)
      BY <2>6, NumIs, PlusIs
    <3>. QED
      BY <2>2, <2>4, <3>1
  <2>8. Plus(Num(q * p), Ratio(m, b)) = Ratio((q * p) * b + m, b)
    <3>1. Plus(Num(q * p), Ratio(m, b)) = Ratio((q * p) * b + m * 1, 1 * b)
      BY <1>0, <2>6, NumIs, PlusIs
    <3>. QED
      BY <2>2, <2>4, <3>1
  <2>9. Plus(avg, Num(-p)) = Ratio(a + (-p) * b, b)
    <3>1. Plus(avg, Num(-p)) = Ratio(a * 1 + (-p) * b, b * 1)
      BY <1>0, <2>1, NumIs, PlusIs
    <3>. QED
      BY <2>2, <3>1
  <2>10. PICK i, j : i = p * b + (-a) /\ j = a + (-p) * b
    OBVIOUS
  <2>11. i \in Int /\ j \in Int
    BY <2>10
  <2>12. Times(q, Ratio(i, b)) = Ratio(q * i, b) /\ Times(-q, Ratio(j, b)) = Ratio((-q) * j, b)
    BY <1>0, <2>11, ValueIs, TimesIs
  <2>13. q * i = (q * p) * b + m /\ (-q) * j = (q * p) * b + m
    BY <2>4, <2>10
  <2>. QED
    BY <2>5, <2>7, <2>8, <2>9, <2>10, <2>12, <2>13
<1>. QED
  BY <1>1, <1>2

\* The two branches of the code, for a long and a short quantity, are the same.
LEMMA ValueType ==
  ASSUME NEW side \in Side, NEW quote \in Nat \X Nat
  PROVE  /\ Value(side, quote) \in Fractions
         /\ Value(side, quote) = ClosingValue(side, quote)
<1>1. PICK q \in Int, avg \in Fractions, p \in Int, r \in Int :
        q = side.qty /\ avg = side.avg /\ p = quote[1] /\ r = quote[2]
  BY DEF Side
<1>2. Value(side, quote) = IF q > 0 THEN Times(q, Plus(Num(p), Times(-1, avg)))
                                    ELSE Times(-q, Plus(avg, Num(-r)))
  BY <1>1 DEF Value
<1>3. Value(side, quote) = Plus(Num(IF q > 0 THEN q * p ELSE q * r), Times(-q, avg))
  BY <1>2, ValueIsClosing
<1>4. (IF q > 0 THEN q * p ELSE q * r) \in Int /\ -q \in Int
  OBVIOUS
<1>5. Num(IF q > 0 THEN q * p ELSE q * r) \in Fractions /\ Times(-q, avg) \in Fractions
  BY <1>4, Closed
<1>6. Plus(Num(IF q > 0 THEN q * p ELSE q * r), Times(-q, avg)) \in Fractions
  BY <1>4, <1>5, Closed
<1>. QED
  BY <1>1, <1>3, <1>6 DEF ClosingValue, Worth

\* None is told from what a variable may hold.
LEMMA NothingIsNotASide ==
  /\ \A x \in Side : x # None
  /\ \A x \in Fractions : x # None
  /\ \A x \in Nat \X Nat : x # None
  /\ \A f : DOMAIN f # {} => f # None
<1>1. DOMAIN None = {}
  BY DEF None
<1>2. \A x \in Side : DOMAIN x = {"qty", "avg"}
  BY DEF Side
<1>3. \A x \in Fractions \cup (Nat \X Nat) : 1 \in DOMAIN x
  BY DEF Fractions
<1>. QED
  BY <1>1, <1>2, <1>3

\* What the unrealized storage knows.
Info(info) == DOMAIN info \in Domains /\ \A e \in DOMAIN info : info[e] \in Side \cup {None}

\* The profit of the entries is a fraction.
LEMMA TotalType ==
  ASSUME NEW info, Info(info), NEW quote \in Nat \X Nat, Known(info) # {}
  PROVE  Total(info, quote) \in Fractions
<1>1. \A e \in Known(info) : info[e] \in Side
  BY DEF Known, Info
<1>2. \A e \in Known(info) : Values(info, quote)[e] \in Fractions
  BY <1>1, ValueType DEF Values
<1>3. SumOfTwo(Known(info), Values(info, quote)) \in Fractions
  BY <1>2, SumType
<1>. QED
  BY <1>3, TotalIs DEF Info

\* What the storage computes is what closing brings.
LEMMA TotalIsClosing ==
  ASSUME NEW info, Info(info), NEW quote \in Nat \X Nat, Known(info) # {}
  PROVE  Total(info, quote) = ClosingTotal(info, quote)
<1>1. ASSUME NEW e \in Known(info) PROVE Value(info[e], quote) = ClosingValue(info[e], quote)
  <2>1. info[e] \in Side
    BY DEF Known, Info
  <2>. QED
    BY <2>1, ValueType
<1>2. Values(info, quote) = ClosingValues(info, quote)
  BY <1>1 DEF Values, ClosingValues
<1>3. DOMAIN info \in Domains
  BY DEF Info
<1>4. Total(info, quote) = SumOfTwo(Known(info), Values(info, quote))
  BY <1>3, TotalIs
<1>5. ClosingTotal(info, quote) = SumOfTwo(Known(info), ClosingValues(info, quote))
  BY <1>3, ClosingTotalIs
<1>. QED
  BY <1>2, <1>4, <1>5

\* Nothing times nothing.
LEMMA NothingTimes == Times(0, Num(0)) = Num(0) /\ Plus(Num(0), Num(0)) = Num(0)
<1>1. Ratio(0, 1) = Num(0)
  BY RatioWhole
<1>. QED
  BY <1>1, NumIs, TimesIs, PlusIs

\* The order of a sum does not matter, ...
LEMMA PlusCommutes == ASSUME NEW x \in Fractions, NEW y \in Fractions PROVE Plus(x, y) = Plus(y, x)
<1>1. PICK a \in Int, b \in Int, c \in Int, d \in Int : a = x[1] /\ b = x[2] /\ c = y[1] /\ d = y[2]
  BY DEF Fractions
<1>2. a * d + c * b = c * b + a * d /\ b * d = d * b
  OBVIOUS
<1>. QED
  BY <1>1, <1>2 DEF Plus

\* ... and nothing added changes nothing.
LEMMA PlusNothing ==
  ASSUME NEW n \in Int, NEW d \in Int \ {0}
  PROVE  Plus(Num(0), Ratio(n, d)) = Ratio(n, d)
<1>1. Plus(Num(0), Ratio(n, d)) = Ratio(0 * d + n * 1, 1 * d)
  BY NumIs, ValueIs, PlusIs
<1>2. 0 * d + n * 1 = n /\ 1 * d = d
  OBVIOUS
<1>. QED
  BY <1>1, <1>2

\* What closing a side brings is a sum, so it is in lowest terms, ...
LEMMA ClosingIsReduced ==
  ASSUME NEW side \in Side, NEW quote \in Nat \X Nat
  PROVE  /\ ClosingValue(side, quote) \in Fractions
         /\ IsNumber(ClosingValue(side, quote)) =>
              /\ IsNumber(side.avg)
              /\ Plus(Num(0), ClosingValue(side, quote)) = ClosingValue(side, quote)
<1>1. PICK q \in Int, avg \in Fractions, z \in Int, w \in Int :
        q = side.qty /\ avg = side.avg /\ z = -q /\ w = Worth(q, quote)
  <2>1. Worth(side.qty, quote) \in Int
    BY DEF Side, Worth
  <2>. QED
    BY <2>1 DEF Side
<1>2. ClosingValue(side, quote) = Plus(Num(w), Times(z, avg))
  BY <1>1 DEF ClosingValue
<1>3. Num(w) \in Fractions /\ Times(z, avg) \in Fractions
  BY Closed
<1>4. Plus(Num(w), Times(z, avg)) \in Fractions
  BY <1>3, Closed
<1>5. ASSUME avg[2] = 0 PROVE ~IsNumber(ClosingValue(side, quote))
  <2>. DEFINE nan == <<0, 0>>
  <2>1. nan \in Fractions /\ nan[2] = 0 /\ ~IsNumber(nan)
    BY DEF Fractions, IsNumber
  <2>2. Times(z, avg) = nan
    BY <1>5, NotANumber
  <2>. HIDE DEF nan
  <2>3. Plus(Num(w), nan) = nan
    BY <1>3, <2>1, NotANumber DEF nan
  <2>. QED
    BY <1>2, <2>1, <2>2, <2>3
<1>6. ASSUME avg[2] # 0
      PROVE  Plus(Num(0), ClosingValue(side, quote)) = ClosingValue(side, quote)
  <2>1. PICK a \in Int, b \in Int \ {0} : Is(avg, a, b)
    <3>1. avg[1] \in Int /\ avg[2] \in Int \ {0} /\ avg \in Numbers
      BY <1>6 DEF Fractions, Numbers
    <3>. QED
      BY <3>1 DEF Is
  <2>2. PICK m \in Int : m = z * a
    OBVIOUS
  <2>3. Is(Ratio(m, b), m, b) /\ Times(z, avg) = Ratio(m, b)
    <3>1. Times(z, avg) = Ratio(z * a, b)
      BY <2>1, TimesIs
    <3>2. Is(Ratio(m, b), m, b)
      BY ValueIs
    <3>. QED
      BY <2>2, <3>1, <3>2
  <2>4. Plus(Num(w), Ratio(m, b)) = Ratio(w * b + m * 1, 1 * b)
    BY <2>3, NumIs, PlusIs
  <2>5. PICK i \in Int : i = w * b + m * 1
    OBVIOUS
  <2>6. 1 * b = b
    OBVIOUS
  <2>7. ClosingValue(side, quote) = Ratio(i, b)
    BY <1>2, <2>3, <2>4, <2>5, <2>6
  <2>. QED
    BY <2>7, PlusNothing
<1>. QED
  BY <1>1, <1>2, <1>4, <1>5, <1>6 DEF IsNumber

\* ... and nothing for a side without a quantity.
LEMMA NothingToClose ==
  ASSUME NEW side \in Side, side.qty = 0, IsNumber(side.avg), NEW quote \in Nat \X Nat
  PROVE  ClosingValue(side, quote) = Num(0)
<1>1. PICK avg \in Fractions : avg = side.avg
  BY DEF Side
<1>2. Worth(0, quote) = 0
  BY DEF Worth
<1>3. PICK a \in Int, b \in Int \ {0} : Is(avg, a, b)
  <2>1. avg[1] \in Int /\ avg[2] \in Int \ {0} /\ avg \in Numbers
    BY <1>1 DEF Fractions, Numbers, IsNumber
  <2>. QED
    BY <2>1 DEF Is
<1>4. Times(0, avg) = Ratio(0 * a, b)
  BY <1>3, TimesIs
<1>5. 0 * a = 0 /\ 0 * b = 0
  OBVIOUS
<1>6. Ratio(0 * b, b) = Num(0)
  BY RatioWhole
<1>7. Times(0, avg) = Num(0)
  BY <1>4, <1>5, <1>6
<1>8. Plus(Num(0), Num(0)) = Num(0)
  BY NothingTimes
<1>9. PICK q \in Int, z \in Int : q = side.qty /\ z = -q
  BY DEF Side
<1>10. z = 0
  <2>1. z + q = 0 /\ q = 0
    BY <1>9
  <2>. QED
    BY <2>1
<1>. QED
  BY <1>1, <1>2, <1>7, <1>8, <1>9, <1>10 DEF ClosingValue

\* A net quantity that cost s is worth what it brings less s.
LEMMA ClosingOfMoney ==
  ASSUME NEW side \in Side, NEW s \in Int, Times(side.qty, side.avg) = Num(s),
         IsNumber(side.avg), NEW quote \in Nat \X Nat
  PROVE  ClosingValue(side, quote) = Num(Worth(side.qty, quote) - s)
<1>1. PICK q \in Int, avg \in Fractions, w \in Int, z \in Int :
        q = side.qty /\ avg = side.avg /\ w = Worth(q, quote) /\ z = -q
  <2>1. Worth(side.qty, quote) \in Int
    BY DEF Side, Worth
  <2>. QED
    BY <2>1 DEF Side
<1>2. PICK a \in Int, b \in Int \ {0} : Is(avg, a, b)
  <2>1. avg[1] \in Int /\ avg[2] \in Int \ {0} /\ avg \in Numbers
    BY <1>1 DEF Fractions, Numbers, IsNumber
  <2>. QED
    BY <2>1 DEF Is
<1>3. PICK m \in Int : m = q * a
  OBVIOUS
<1>4. Times(q, avg) = Ratio(m, b)
  BY <1>2, <1>3, TimesIs
<1>5. m = s * b
  <2>1. Ratio(m, b) = Num(s)
    BY <1>1, <1>4
  <2>2. Is(Num(s), m, b)
    BY <2>1, ValueIs
  <2>3. Num(s)[1] = s /\ Num(s)[2] = 1
    BY DEF Num
  <2>4. s * b = m * 1
    BY <2>2, <2>3 DEF Is
  <2>. QED
    BY <2>4
<1>6. z * a = -m
  BY <1>1, <1>3
<1>7. Times(z, avg) = Ratio(-m, b) /\ Is(Ratio(-m, b), -m, b)
  <2>1. Times(z, avg) = Ratio(z * a, b)
    BY <1>2, TimesIs
  <2>2. -m \in Int
    OBVIOUS
  <2>3. Is(Ratio(-m, b), -m, b)
    BY <2>2, ValueIs
  <2>. QED
    BY <1>6, <2>1, <2>3
<1>8. Plus(Num(w), Ratio(-m, b)) = Ratio(w * b + (-m) * 1, 1 * b)
  BY <1>7, NumIs, PlusIs
<1>9. PICK k \in Int : k = w - s
  OBVIOUS
<1>10. w * b + (-m) * 1 = k * b /\ 1 * b = b
  BY <1>5, <1>9
<1>11. Ratio(k * b, b) = Num(k)
  BY RatioWhole
<1>. QED
  BY <1>1, <1>7, <1>8, <1>9, <1>10, <1>11 DEF ClosingValue

\* A sum that is a number has summands that are.
LEMMA SummandsAreNumbers ==
  ASSUME NEW x \in Fractions, NEW y \in Fractions, IsNumber(Plus(x, y))
  PROVE  IsNumber(x) /\ IsNumber(y)
BY NotANumber DEF IsNumber

\* The closing value of one entry, ...
LEMMA OneEntry ==
  ASSUME NEW info, Info(info), NEW e, Known(info) = {e}, NEW quote \in Nat \X Nat,
         IsNumber(ClosingTotal(info, quote))
  PROVE  /\ ClosingTotal(info, quote) = ClosingValue(info[e], quote)
         /\ IsNumber(ClosingValue(info[e], quote))
<1>1. PICK v \in Fractions : v = ClosingValue(info[e], quote)
  BY ClosingIsReduced DEF Known, Info
<1>2. First({e}) = e /\ {e} \ {e} = {}
  BY FirstIn
<1>3. ClosingTotal(info, quote) = SumOfTwo({e}, ClosingValues(info, quote))
  BY ClosingTotalIs DEF Info
<1>4. ClosingValues(info, quote)[e] = v
  BY <1>1 DEF ClosingValues
<1>5. ClosingTotal(info, quote) = Plus(Num(0), v)
  BY <1>2, <1>3, <1>4 DEF SumOfTwo, SumOfOne
<1>6. IsNumber(v)
  <2>1. Num(0) \in Fractions
    BY DEF Num, Fractions
  <2>. QED
    BY <1>5, <2>1, SummandsAreNumbers
<1>7. Plus(Num(0), v) = v
  BY <1>1, <1>6, ClosingIsReduced DEF Known, Info
<1>. QED
  BY <1>1, <1>5, <1>6, <1>7

\* ... and of two.
LEMMA TwoEntries ==
  ASSUME NEW info, Info(info), NEW a, NEW b, a # b, Known(info) = {a, b},
         NEW quote \in Nat \X Nat, IsNumber(ClosingTotal(info, quote))
  PROVE  /\ ClosingTotal(info, quote)
              = Plus(ClosingValue(info[a], quote), ClosingValue(info[b], quote))
         /\ IsNumber(ClosingValue(info[a], quote)) /\ IsNumber(ClosingValue(info[b], quote))
<1>. DEFINE v == ClosingValues(info, quote)
<1>1. ClosingTotal(info, quote) = SumOfTwo({a, b}, v)
  BY ClosingTotalIs DEF Info
<1>2. PICK x \in Fractions, y \in Fractions :
        x = ClosingValue(info[a], quote) /\ y = ClosingValue(info[b], quote)
  BY ClosingIsReduced DEF Known, Info
<1>3. v[a] = x /\ v[b] = y
  BY <1>2 DEF ClosingValues
<1>. HIDE DEF v
<1>4. /\ IsNumber(x) => Plus(Num(0), x) = x
      /\ IsNumber(y) => Plus(Num(0), y) = y
  BY <1>2, ClosingIsReduced DEF Known, Info
<1>5. Num(0) \in Fractions
  BY DEF Num, Fractions
<1>6. Plus(Num(0), x) \in Fractions /\ Plus(Num(0), y) \in Fractions
  BY <1>5, Closed
<1>7. First({a, b}) \in {a, b} /\ First({a}) = a /\ First({b}) = b
  BY FirstIn
<1>8. CASE First({a, b}) = a
  <2>1. {a, b} \ {a} = {b}
    OBVIOUS
  <2>2. ClosingTotal(info, quote) = Plus(Plus(Num(0), y), x)
    BY <1>1, <1>3, <1>7, <1>8, <2>1 DEF SumOfTwo, SumOfOne
  <2>3. IsNumber(Plus(Num(0), y)) /\ IsNumber(x)
    BY <1>6, <2>2, SummandsAreNumbers
  <2>4. IsNumber(y)
    BY <1>5, <2>3, SummandsAreNumbers
  <2>5. Plus(y, x) = Plus(x, y)
    BY PlusCommutes
  <2>. QED
    BY <1>2, <1>4, <2>2, <2>3, <2>4, <2>5
<1>9. CASE First({a, b}) = b
  <2>1. {a, b} \ {b} = {a}
    OBVIOUS
  <2>2. ClosingTotal(info, quote) = Plus(Plus(Num(0), x), y)
    BY <1>1, <1>3, <1>7, <1>9, <2>1 DEF SumOfTwo, SumOfOne
  <2>3. IsNumber(Plus(Num(0), x)) /\ IsNumber(y)
    BY <1>6, <2>2, SummandsAreNumbers
  <2>4. IsNumber(x)
    BY <1>5, <2>3, SummandsAreNumbers
  <2>. QED
    BY <1>2, <1>4, <2>2, <2>3, <2>4
<1>. QED
  BY <1>7, <1>8, <1>9

-----------------------------------------------------------------------------
(* What the strategies return.                                             *)

OutcomeOK(out) ==
  /\ out.position \in [Sides -> Side]
  /\ out.profit \in Fractions \cup {None}
  /\ Len(out.reported) \in {1, 2}
  /\ \A i \in 1 .. Len(out.reported) : out.reported[i] \in Sides

\* A side that is not reported is what it was.
Frame(out, p) ==
  \A s \in Sides : out.position[s] = p[s] \/ \E i \in 1 .. Len(out.reported) : out.reported[i] = s

\* Each step of a strategy makes a side of a side.
LEMMA AveragedType ==
  ASSUME NEW side \in Side, NEW price \in Int, NEW k \in Int
  PROVE  Averaged(side, price, k) \in Side
<1>1. PICK q \in Int, avg \in Fractions : q = side.qty /\ avg = side.avg
  BY DEF Side
<1>2. k * price \in Int /\ q + k \in Int
  OBVIOUS
<1>3. Times(q, avg) \in Fractions /\ Num(k * price) \in Fractions
  BY <1>2, Closed
<1>4. Plus(Times(q, avg), Num(k * price)) \in Fractions
  BY <1>3, Closed
<1>5. Over(Plus(Times(q, avg), Num(k * price)), q + k) \in Fractions
  BY <1>2, <1>4, Closed
<1>. QED
  BY <1>1, <1>2, <1>5 DEF Averaged, Side

LEMMA RemovableType ==
  ASSUME NEW side \in Side, NEW k \in Int
  PROVE  Removable(side, k) \in Int
BY DEF Removable, Side, Sign, Abs

LEMMA ProfitType ==
  ASSUME NEW side \in Side, NEW price \in Int, NEW k \in Int
  PROVE  Profit(side, price, k) \in Fractions
<1>1. PICK avg \in Fractions : avg = side.avg
  BY DEF Side
<1>2. Num(price) \in Fractions /\ Times(-1, avg) \in Fractions
  BY Closed
<1>3. Plus(Num(price), Times(-1, avg)) \in Fractions
  BY <1>2, Closed
<1>. QED
  BY <1>1, <1>3, RemovableType, Closed DEF Profit

LEMMA ZeroType == Zero \in Side /\ Num(0) \in Fractions /\ Zero.qty = 0 /\ Zero.avg = Num(0)
BY DEF Zero, Side, Num, Fractions

LEMMA NetRemovedType ==
  ASSUME NEW side \in Side, NEW price \in Int, NEW k \in Int
  PROVE  NetRemoved(side, price, k) \in Side
<1>1. PICK q \in Int, avg \in Fractions : q = side.qty /\ avg = side.avg
  BY DEF Side
<1>2. -(price * k) \in Int /\ q - k \in Int /\ (q - k) + k \in Int
  OBVIOUS
<1>3. Times((q - k) + k, avg) \in Fractions /\ Num(-(price * k)) \in Fractions
  BY <1>2, Closed
<1>4. Plus(Times((q - k) + k, avg), Num(-(price * k))) \in Fractions
  BY <1>3, Closed
<1>5. Over(Plus(Times((q - k) + k, avg), Num(-(price * k))), q - k) \in Fractions
  BY <1>2, <1>4, Closed
<1>. QED
  BY <1>1, <1>2, <1>5, ZeroType DEF NetRemoved, Side

LEMMA HedgedReducedType ==
  ASSUME NEW side \in Side, NEW price \in Int, NEW k \in Int
  PROVE  HedgedReduced(side, price, k) \in Side
<1>1. PICK q \in Int, avg \in Fractions : q = side.qty /\ avg = side.avg
  BY DEF Side
<1>2. PICK r \in Int : r = Removable(side, k)
  BY RemovableType
<1>3. PICK profit \in Fractions : profit = Profit(side, price, k)
  BY ProfitType
<1>4. q - r \in Int
  OBVIOUS
<1>5. Times(q - r, avg) \in Fractions /\ Times(-1, profit) \in Fractions
  BY <1>4, Closed
<1>6. Plus(Times(q - r, avg), Times(-1, profit)) \in Fractions
  BY <1>5, Closed
<1>7. Over(Plus(Times(q - r, avg), Times(-1, profit)), q - r) \in Fractions
  BY <1>4, <1>6, Closed
<1>. QED
  BY <1>1, <1>2, <1>3, <1>4, <1>7, ZeroType DEF HedgedReduced, Side

LEMMA HedgedTurnedType ==
  ASSUME NEW side \in Side, NEW price \in Int, NEW k \in Int
  PROVE  HedgedTurned(side, price, k) \in Side
<1>1. PICK q \in Int, avg \in Fractions : q = side.qty /\ avg = side.avg
  BY DEF Side
<1>2. price * k \in Int /\ q + k \in Int
  OBVIOUS
<1>3. Times(q + k, avg) \in Fractions /\ Num(price * k) \in Fractions
  BY <1>2, Closed
<1>4. Plus(Times(q + k, avg), Num(price * k)) \in Fractions
  BY <1>3, Closed
<1>5. Over(Plus(Times(q + k, avg), Num(price * k)), q + k) \in Fractions
  BY <1>2, <1>4, Closed
<1>. QED
  BY <1>1, <1>2, <1>5 DEF HedgedTurned, Side

\* The outcome of AddPosition, ...
LEMMA AddType ==
  ASSUME hedged \in BOOLEAN, NEW p \in [Sides -> Side], NEW price \in Int, NEW k \in Int
  PROVE  OutcomeOK(Add(p, price, k)) /\ Frame(Add(p, price, k), p)
<1>1. CASE hedged
  <2>. DEFINE s == SideOf(k)
  <2>1. Sides = {"short", "long"} /\ s \in Sides
    BY <1>1 DEF Sides, SideOf
  <2>. HIDE DEF s
  <2>2. Averaged(p[s], price, k) \in Side
    BY <2>1, AveragedType
  <2>3. [p EXCEPT ![s] = Averaged(p[s], price, k)] \in [Sides -> Side]
    BY <2>1, <2>2
  <2>4. Add(p, price, k) = Outcome([p EXCEPT ![s] = Averaged(p[s], price, k)], <<s>>, None)
    BY <1>1 DEF Add, HedgedAdd, s
  <2>. QED
    BY <2>1, <2>3, <2>4 DEF OutcomeOK, Outcome, Frame
<1>2. CASE ~hedged
  <2>1. Sides = {"net"}
    BY <1>2 DEF Sides
  <2>2. Averaged(p["net"], price, k) \in Side
    BY <2>1, AveragedType
  <2>3. [p EXCEPT !["net"] = Averaged(p["net"], price, k)] \in [Sides -> Side]
    BY <2>1, <2>2
  <2>4. Add(p, price, k) = Outcome([p EXCEPT !["net"] = Averaged(p["net"], price, k)],
                                   <<"net">>, None)
    BY <1>2 DEF Add, NetAdd
  <2>. QED
    BY <2>1, <2>3, <2>4 DEF OutcomeOK, Outcome, Frame
<1>. QED
  BY <1>1, <1>2

\* ... and of RemovePosition.
LEMMA RemoveType ==
  ASSUME hedged \in BOOLEAN, NEW p \in [Sides -> Side], NEW price \in Int, NEW k \in Int
  PROVE  OutcomeOK(Remove(p, price, k)) /\ Frame(Remove(p, price, k), p)
<1>1. CASE hedged
  <2>. DEFINE s       == SideOf(k)
              o       == OtherSide(s)
              rest    == k - Removable(p[s], k)
              reduced == [p EXCEPT ![s] = HedgedReduced(p[s], price, k)]
              turned  == [reduced EXCEPT ![o] = HedgedTurned(reduced[o], price, rest)]
              profit  == Profit(p[s], price, k)
  <2>1. Sides = {"short", "long"} /\ s \in Sides /\ o \in Sides
    BY <1>1 DEF Sides, SideOf, OtherSide
  <2>2. Remove(p, price, k) = IF rest = 0 THEN Outcome(reduced, <<s>>, profit)
                                          ELSE Outcome(turned, <<s, o>>, profit)
    BY <1>1 DEF Remove, HedgedRemove
  <2>. HIDE DEF s, o
  <2>3. rest \in Int /\ profit \in Fractions
    BY <2>1, RemovableType, ProfitType
  <2>. HIDE DEF rest, profit
  <2>4. HedgedReduced(p[s], price, k) \in Side
    BY <2>1, HedgedReducedType
  <2>5. /\ reduced \in [Sides -> Side]
        /\ \A x \in Sides : x # s => reduced[x] = p[x]
    BY <2>1, <2>4
  <2>. HIDE DEF reduced
  <2>6. HedgedTurned(reduced[o], price, rest) \in Side
    BY <2>1, <2>3, <2>5, HedgedTurnedType
  <2>7. /\ turned \in [Sides -> Side]
        /\ \A x \in Sides : x # o => turned[x] = reduced[x]
    BY <2>1, <2>5, <2>6
  <2>. HIDE DEF turned
  <2>8. CASE rest = 0
    BY <2>1, <2>2, <2>3, <2>5, <2>8 DEF OutcomeOK, Outcome, Frame
  <2>9. CASE rest # 0
    <3>1. Remove(p, price, k) = Outcome(turned, <<s, o>>, profit)
      BY <2>2, <2>9
    <3>2. OutcomeOK(Remove(p, price, k))
      BY <2>1, <2>3, <2>7, <3>1 DEF OutcomeOK, Outcome
    <3>3. \A x \in Sides : turned[x] = p[x] \/ x = s \/ x = o
      BY <2>5, <2>7
    <3>. DEFINE out == Remove(p, price, k)
    <3>4. out.position = turned /\ Len(out.reported) = 2
          /\ out.reported[1] = s /\ out.reported[2] = o
      BY <3>1 DEF Outcome
    <3>. HIDE DEF out
    <3>5. 1 \in 1 .. Len(out.reported) /\ 2 \in 1 .. Len(out.reported)
      BY <3>4
    <3>6. Frame(out, p)
      BY <3>3, <3>4, <3>5 DEF Frame
    <3>. QED
      BY <3>2, <3>6 DEF out
  <2>. QED
    BY <2>8, <2>9
<1>2. CASE ~hedged
  <2>1. Sides = {"net"}
    BY <1>2 DEF Sides
  <2>2. NetRemoved(p["net"], price, k) \in Side
    BY <2>1, NetRemovedType
  <2>3. [p EXCEPT !["net"] = NetRemoved(p["net"], price, k)] \in [Sides -> Side]
    BY <2>1, <2>2
  <2>4. Profit(p["net"], price, k) \in Fractions
    BY <2>1, ProfitType
  <2>5. Remove(p, price, k) = Outcome([p EXCEPT !["net"] = NetRemoved(p["net"], price, k)],
                                      <<"net">>, Profit(p["net"], price, k))
    BY <1>2 DEF Remove, NetRemove
  <2>. QED
    BY <2>1, <2>3, <2>4, <2>5 DEF OutcomeOK, Outcome, Frame
<1>. QED
  BY <1>1, <1>2

\* Money is kept: what is weighed with a quantity is worth the sum.
LEMMA Weighed ==
  ASSUME NEW m \in Int \ {0}, NEW s \in Int, NEW c \in Int
  PROVE  Times(m, Over(Plus(Num(s), Num(c)), m)) = Num(s + c)
<1>1. PICK t \in Int : t = s + c
  OBVIOUS
<1>2. Plus(Num(s), Num(c)) = Ratio(s * 1 + c * 1, 1 * 1)
  BY NumIs, PlusIs
<1>3. s * 1 + c * 1 = t /\ 1 * 1 = 1 /\ 1 * m = m
  BY <1>1
<1>4. Plus(Num(s), Num(c)) = Ratio(t, 1)
  BY <1>2, <1>3
<1>5. Is(Ratio(t, 1), t, 1)
  BY ValueIs
<1>6. Over(Ratio(t, 1), m) = Ratio(t, 1 * m)
  BY <1>5, OverIs
<1>7. Is(Ratio(t, m), t, m)
  BY ValueIs
<1>8. Times(m, Ratio(t, m)) = Ratio(m * t, m)
  BY <1>7, TimesIs
<1>9. m * t = t * m
  OBVIOUS
<1>. QED
  BY <1>1, <1>3, <1>4, <1>6, <1>8, <1>9, RatioWhole

\* What a quantity has cost, if its average is a number.
Costs(q, avg, s) == IsNumber(avg) => Times(q, avg) = Num(s)

\* The average over m of what q had cost and c.
Weigh(q, avg, c, m) == Over(Plus(Times(q, avg), Num(c)), m)

\* A new average accounts for the old cost and the new one.
LEMMA AverageKeepsMoney ==
  ASSUME NEW avg \in Fractions, NEW q \in Int, NEW s \in Int, Costs(q, avg, s),
         NEW c \in Int, NEW m \in Int
  PROVE  Costs(m, Weigh(q, avg, c, m), s + c)
<1>. SUFFICES ASSUME IsNumber(Weigh(q, avg, c, m))
              PROVE  Times(m, Weigh(q, avg, c, m)) = Num(s + c)
  BY DEF Costs
<1>. DEFINE nan == <<0, 0>>
<1>0. nan \in Fractions /\ nan[2] = 0 /\ ~IsNumber(nan)
  BY DEF Fractions, IsNumber
<1>. HIDE DEF nan
<1>1. Num(c) \in Fractions /\ Times(q, avg) \in Fractions
  BY Closed
<1>2. Plus(Times(q, avg), Num(c)) \in Fractions
  BY <1>1, Closed
<1>3. m # 0
  BY <1>0, <1>2, OverNothing DEF nan, Weigh
<1>4. IsNumber(avg)
  <2>. SUFFICES ASSUME avg[2] = 0 PROVE FALSE
    BY DEF IsNumber
  <2>1. Times(q, avg) = nan
    BY NotANumber DEF nan
  <2>2. Plus(nan, Num(c)) = nan
    BY <1>0, <1>1, NotANumber DEF nan
  <2>3. Over(nan, m) = nan
    BY <1>0, NotANumber DEF nan
  <2>. QED
    BY <1>0, <2>1, <2>2, <2>3 DEF Weigh
<1>5. Times(q, avg) = Num(s)
  BY <1>4 DEF Costs
<1>. QED
  BY <1>3, <1>5, Weighed DEF Weigh

-----------------------------------------------------------------------------
(* The inductive invariant.                                                *)

\* Without a quote, or without an entry, there is no unrealized profit.
Unquoted == /\ (latest = None) = (bbo_ = None)
            /\ bbo_ = None => unrealized_pnl_ = None
Unknown == Known(position_info_) = {} => unrealized_pnl_ = None

\* A position that is closed has no money in it.
ClosedIsZero == position = None => spent = 0

\* The unrealized profit is what closing the known entries brings at the quote it was
\* computed with.
UsedQuote == IF at_latest THEN latest ELSE bbo_
EntriesValued ==
  unrealized_pnl_ # None => unrealized_pnl_ = ClosingTotal(position_info_, UsedQuote)

\* An entry that is not misfiled is the side of the position, or either of them is nothing.
FiledAs(entry, s) ==
  IF position = None THEN entry # None => entry.qty = 0
  ELSE entry = position[s] \/ (position[s] = Zero /\ (entry # None => entry.qty = 0))

EntriesFiled == \A s \in Sides : s \notin misfiled => FiledAs(position_info_[s], s)

PositionsInv ==
  TypeOK /\ Unquoted /\ Unknown /\ ClosedIsZero /\ BreakEven /\ EntriesValued /\ EntriesFiled

\* The types, as the lemmas want them.
LEMMA TypesAre ==
  ASSUME TypeOK
  PROVE  /\ Info(position_info_)
         /\ position # None => position \in [Sides -> Side]
         /\ bbo_ # None => bbo_ \in Nat \X Nat
<1>1. Info(position_info_)
  <2>1. Entries \in Domains
    BY DEF Entries, Domains
  <2>2. position_info_ \in [Entries -> Side \cup {None}]
    BY DEF TypeOK
  <2>. QED
    BY <2>1, <2>2 DEF Info
<1>2. bbo_ # None => bbo_ \in Nat \X Nat
  BY InputsAssumption DEF TypeOK
<1>. QED
  BY <1>1, <1>2 DEF TypeOK

\* A side is entered under its own name.
LEMMA EntryType ==
  ASSUME hedged \in BOOLEAN, NEW side \in Side
  PROVE  Entry(side) \in Entries
BY DEF Entry, Entries

\* What the storage knows after one report, ...
LEMMA EnteredType ==
  ASSUME hedged \in BOOLEAN, NEW info \in [Entries -> Side \cup {None}], NEW side \in Side
  PROVE  /\ Entered(info, side) \in [Entries -> Side \cup {None}]
         /\ Known(Entered(info, side)) # {}
<1>1. Entry(side) \in Entries
  BY EntryType
<1>2. Entered(info, side) \in [Entries -> Side \cup {None}]
  BY <1>1 DEF Entered
<1>3. Entered(info, side)[Entry(side)] = side /\ Entry(side) \in DOMAIN Entered(info, side)
  BY <1>1 DEF Entered
<1>4. Known(Entered(info, side)) # {}
  BY <1>3, NothingIsNotASide DEF Known
<1>. QED
  BY <1>2, <1>4

\* A report that leaves a side filed has entered it or left it alone.
LEMMA FiledOnce ==
  ASSUME hedged \in BOOLEAN, NEW info \in [Entries -> Side \cup {None}], NEW side \in Side,
         NEW sides \in SUBSET Sides, NEW r \in Sides, NEW s \in Sides, s \notin Filed(sides, r, side)
  PROVE  /\ s = r => Entered(info, side)[s] = side
         /\ s # r => Entered(info, side)[s] = info[s] /\ s \notin sides
<1>1. Entry(side) \in Entries /\ Entries = Sides
  BY EntryType DEF Entries, Sides
<1>2. CASE s = r
  <2>1. Entry(side) = r
    BY <1>2 DEF Filed
  <2>. QED
    BY <1>1, <1>2, <2>1 DEF Entered
<1>3. CASE s # r
  <2>1. s # Entry(side) /\ s \notin sides
    BY <1>3 DEF Filed
  <2>. QED
    BY <1>1, <1>3, <2>1 DEF Entered
<1>. QED
  BY <1>2, <1>3

LEMMA FiledType ==
  ASSUME hedged \in BOOLEAN, NEW side \in Side, NEW sides \in SUBSET Sides, NEW r \in Sides
  PROVE  Filed(sides, r, side) \in SUBSET Sides
<1>1. Entry(side) \in Entries /\ Entries = Sides
  BY EntryType DEF Entries, Sides
<1>. QED
  BY <1>1 DEF Filed

\* ... and after all of an outcome.
LEMMA InfoAfterType ==
  ASSUME hedged \in BOOLEAN, NEW info \in [Entries -> Side \cup {None}], NEW out, OutcomeOK(out)
  PROVE  /\ InfoAfter(info, out) \in [Entries -> Side \cup {None}]
         /\ Known(InfoAfter(info, out)) # {}
<1>1. out.position \in [Sides -> Side]
  BY DEF OutcomeOK
<1>2. out.reported[1] \in Sides /\ (Len(out.reported) # 1 => out.reported[2] \in Sides)
  BY DEF OutcomeOK
<1>3. PICK x \in Side : x = out.position[out.reported[1]]
  BY <1>1, <1>2
<1>4. ASSUME Len(out.reported) # 1 PROVE out.position[out.reported[2]] \in Side
  BY <1>1, <1>2, <1>4
<1>5. PICK y : y = out.position[out.reported[2]]
  OBVIOUS
<1>6. InfoAfter(info, out) = IF Len(out.reported) = 1 THEN Entered(info, x)
                                                      ELSE Entered(Entered(info, x), y)
  BY <1>3, <1>5 DEF InfoAfter
<1>8. /\ Entered(info, x) \in [Entries -> Side \cup {None}] /\ Known(Entered(info, x)) # {}
  BY EnteredType
<1>9. CASE Len(out.reported) = 1
  BY <1>6, <1>8, <1>9
<1>10. CASE Len(out.reported) # 1
  <2>1. PICK once \in [Entries -> Side \cup {None}] : once = Entered(info, x)
    BY <1>8
  <2>2. y \in Side
    BY <1>4, <1>5, <1>10
  <2>3. /\ Entered(once, y) \in [Entries -> Side \cup {None}] /\ Known(Entered(once, y)) # {}
    BY <2>2, EnteredType
  <2>. QED
    BY <1>6, <1>10, <2>1, <2>3
<1>. QED
  BY <1>9, <1>10

\* A side is reported.
Reported(out, s) == \E i \in 1 .. Len(out.reported) : out.reported[i] = s

\* After all reports of an outcome a side that is filed holds what was reported, or what it
\* held.
LEMMA FiledAfter ==
  ASSUME hedged \in BOOLEAN, NEW info \in [Entries -> Side \cup {None}], NEW out, OutcomeOK(out),
         NEW sides \in SUBSET Sides
  PROVE  /\ MisfiledAfter(sides, out) \in SUBSET Sides
         /\ \A s \in Sides : s \notin MisfiledAfter(sides, out) =>
              IF Reported(out, s) THEN InfoAfter(info, out)[s] = out.position[s]
              ELSE InfoAfter(info, out)[s] = info[s] /\ s \notin sides
<1>1. out.position \in [Sides -> Side]
  BY DEF OutcomeOK
<1>2. PICK a \in Sides : a = out.reported[1]
  BY DEF OutcomeOK
<1>3. PICK x \in Side : x = out.position[a]
  BY <1>1
<1>4. PICK first \in SUBSET Sides : first = Filed(sides, a, x)
  BY FiledType
<1>5. PICK once \in [Entries -> Side \cup {None}] : once = Entered(info, x)
  BY EnteredType
<1>6. ASSUME NEW s \in Sides, s \notin first
      PROVE  /\ s = a => once[s] = out.position[s]
             /\ s # a => once[s] = info[s] /\ s \notin sides
  BY <1>3, <1>4, <1>5, <1>6, FiledOnce
<1>7. CASE Len(out.reported) = 1
  <2>1. MisfiledAfter(sides, out) = first
    BY <1>2, <1>3, <1>4, <1>7 DEF MisfiledAfter
  <2>2. InfoAfter(info, out) = once
    BY <1>2, <1>3, <1>5, <1>7 DEF InfoAfter
  <2>3. \A s : Reported(out, s) <=> s = a
    BY <1>2, <1>7 DEF Reported
  <2>. QED
    BY <1>6, <2>1, <2>2, <2>3
<1>8. CASE Len(out.reported) = 2
  <2>1. PICK b \in Sides : b = out.reported[2]
    BY <1>8 DEF OutcomeOK
  <2>2. PICK y \in Side : y = out.position[b]
    BY <1>1
  <2>3. PICK second \in SUBSET Sides : second = Filed(first, b, y)
    BY FiledType
  <2>4. PICK twice : twice = Entered(once, y)
    OBVIOUS
  <2>5. MisfiledAfter(sides, out) = second
    BY <1>2, <1>3, <1>4, <1>8, <2>1, <2>2, <2>3 DEF MisfiledAfter
  <2>6. InfoAfter(info, out) = twice
    BY <1>2, <1>3, <1>5, <1>8, <2>1, <2>2, <2>4 DEF InfoAfter
  <2>7. \A s : Reported(out, s) <=> s = a \/ s = b
    BY <1>2, <1>8, <2>1 DEF Reported
  <2>8. ASSUME NEW s \in Sides, s \notin second
        PROVE  /\ s = b => twice[s] = out.position[s]
               /\ s # b => twice[s] = once[s] /\ s \notin first
    BY <2>2, <2>3, <2>4, <2>8, FiledOnce
  <2>. QED
    BY <1>6, <2>5, <2>6, <2>7, <2>8
<1>. QED
  BY <1>7, <1>8 DEF OutcomeOK

\* Sides and entries depend on the strategy, which stays.
LEMMA SidesKept == ASSUME hedged' = hedged PROVE Sides' = Sides /\ Entries' = Entries
BY DEF Sides, Entries

\* What a call leaves in the two profit storages.
LEMMA BookKeeps ==
  ASSUME PositionsInv, NEW out, OutcomeOK(out), Book(out)
  PROVE  /\ hedged' = hedged /\ Sides' = Sides
         /\ realized_pnl_' \in Fractions \cup {None}
         /\ position_info_' \in [Entries -> Side \cup {None}]'
         /\ unrealized_pnl_' \in Fractions \cup {None}
         /\ bbo_' \in Quotes \cup {None} /\ latest' \in Quotes \cup {None}
         /\ Unquoted' /\ Unknown' /\ EntriesValued'
         /\ at_latest' \in BOOLEAN /\ misfiled' \in SUBSET Sides
         /\ \A s \in Sides : s \notin misfiled' =>
              IF Reported(out, s) THEN position_info_'[s] = out.position[s]
              ELSE position_info_'[s] = position_info_[s] /\ s \notin misfiled
<1>1. TypeOK /\ hedged \in BOOLEAN /\ position_info_ \in [Entries -> Side \cup {None}]
  BY DEF PositionsInv, TypeOK
<1>2. hedged' = hedged /\ bbo_' = bbo_ /\ latest' = latest
  BY DEF Book
<1>3. Sides' = Sides /\ Entries' = Entries
  BY <1>2, SidesKept
<1>4. PICK info : info = InfoAfter(position_info_, out)
  OBVIOUS
<1>5. /\ info \in [Entries -> Side \cup {None}] /\ Known(info) # {}
  BY <1>1, <1>4, InfoAfterType
<1>6. position_info_' = info
  BY <1>4 DEF Book
<1>7. unrealized_pnl_' = IF bbo_ = None THEN unrealized_pnl_ ELSE Total(info, bbo_)
  BY <1>6 DEF Book
<1>8. Info(info)
  <2>1. Entries \in Domains
    BY DEF Entries, Domains
  <2>. QED
    BY <1>5, <2>1 DEF Info
<1>9. ASSUME bbo_ # None
      PROVE  unrealized_pnl_' \in Fractions /\ unrealized_pnl_' = ClosingTotal(info, bbo_)
  <2>1. bbo_ \in Nat \X Nat
    BY <1>1, <1>9, TypesAre
  <2>. QED
    BY <1>5, <1>7, <1>8, <1>9, <2>1, TotalType, TotalIsClosing
<1>10. bbo_ = None => unrealized_pnl_' = None
  BY <1>7 DEF PositionsInv, Unquoted
<1>11. realized_pnl_' \in Fractions \cup {None}
  <2>1. out.profit \in Fractions \cup {None} /\ realized_pnl_ \in Fractions \cup {None}
    BY <1>1 DEF OutcomeOK, TypeOK
  <2>2. Num(0) \in Fractions
    BY ZeroType
  <2>3. \A x, y \in Fractions : Plus(x, y) \in Fractions
    BY Closed
  <2>. QED
    BY <2>1, <2>2, <2>3 DEF Book
<1>12. Unquoted'
  BY <1>2, <1>10 DEF PositionsInv, Unquoted
<1>13. Unknown'
  <2>1. Known(info) = Known(position_info_)'
    BY <1>6 DEF Known
  <2>. QED
    BY <1>5, <2>1 DEF Unknown
<1>14. EntriesValued'
  <2>1. UsedQuote' = bbo_
    BY <1>2 DEF Book, UsedQuote
  <2>2. ClosingTotal(position_info_, UsedQuote)' = ClosingTotal(info, bbo_)
    BY <1>6, <2>1
  <2>3. unrealized_pnl_' # None => unrealized_pnl_' = ClosingTotal(position_info_, UsedQuote)'
    BY <1>9, <1>10, <2>2
  <2>. QED
    BY <2>3 DEF EntriesValued
<1>15. bbo_' \in Quotes \cup {None} /\ latest' \in Quotes \cup {None}
  BY <1>1, <1>2 DEF TypeOK
<1>16. unrealized_pnl_' \in Fractions \cup {None}
  BY <1>9, <1>10
<1>17. position_info_' \in [Entries -> Side \cup {None}]'
  BY <1>3, <1>5, <1>6
<1>18. misfiled \in SUBSET Sides
  BY <1>1 DEF TypeOK
<1>19. /\ at_latest' \in BOOLEAN
       /\ misfiled' = MisfiledAfter(misfiled, out)
  BY DEF Book
<1>20. /\ MisfiledAfter(misfiled, out) \in SUBSET Sides
       /\ \A s \in Sides : s \notin MisfiledAfter(misfiled, out) =>
            IF Reported(out, s) THEN info[s] = out.position[s]
            ELSE info[s] = position_info_[s] /\ s \notin misfiled
  BY <1>1, <1>4, <1>18, FiledAfter
<1>. QED
  BY <1>2, <1>3, <1>6, <1>11, <1>12, <1>13, <1>14, <1>15, <1>16, <1>17, <1>19, <1>20

\* An addition keeps the invariant.
LEMMA AddKeeps ==
  ASSUME PositionsInv, NEW price \in Nat, NEW k \in Int, NEW money \in Int, money = k * price,
         AddPosition(price, k), Spend(money)
  PROVE  PositionsInv'
<1>1. TypeOK /\ hedged \in BOOLEAN /\ spent \in Int /\ executions \in 0 .. MaxExecutions
  BY DEF PositionsInv, TypeOK
<1>2. PICK p : p = IF position = None THEN NewPosition ELSE position
  OBVIOUS
<1>3. NewPosition \in [Sides -> Side]
  BY ZeroType DEF NewPosition
<1>4. p \in [Sides -> Side]
  BY <1>1, <1>2, <1>3, TypesAre
<1>5. PICK out : out = Add(p, price, k)
  OBVIOUS
<1>6. OutcomeOK(out) /\ Frame(out, p)
  BY <1>1, <1>4, <1>5, AddType
<1>7. position' = out.position /\ Book(out)
  BY <1>2, <1>5 DEF AddPosition
<1>8. /\ hedged' = hedged /\ Sides' = Sides
      /\ realized_pnl_' \in Fractions \cup {None}
      /\ position_info_' \in [Entries -> Side \cup {None}]'
      /\ unrealized_pnl_' \in Fractions \cup {None}
      /\ bbo_' \in Quotes \cup {None} /\ latest' \in Quotes \cup {None}
      /\ Unquoted' /\ Unknown' /\ EntriesValued'
      /\ at_latest' \in BOOLEAN /\ misfiled' \in SUBSET Sides
      /\ \A s \in Sides : s \notin misfiled' =>
           IF Reported(out, s) THEN position_info_'[s] = out.position[s]
           ELSE position_info_'[s] = position_info_[s] /\ s \notin misfiled
  BY <1>6, <1>7, BookKeeps
<1>9. position' \in [Sides -> Side] /\ position' # None
  <2>1. out.position \in [Sides -> Side] /\ Sides # {}
    BY <1>6 DEF OutcomeOK, Sides
  <2>. QED
    BY <1>7, <2>1, NothingIsNotASide
<1>10. /\ spent' = spent + money /\ spent' \in Int
       /\ executions' \in 0 .. MaxExecutions
  BY <1>1, <1>9, BoundsAssumption DEF Spend
<1>11. TypeOK'
  BY <1>1, <1>8, <1>9, <1>10 DEF TypeOK
<1>12. ClosedIsZero'
  BY <1>9 DEF ClosedIsZero
<1>13. BreakEven'
  <2>. SUFFICES ASSUME ~hedged, IsNumber(position'["net"].avg)
                PROVE  Times(position'["net"].qty, position'["net"].avg) = Num(spent')
    BY <1>8 DEF BreakEven
  <2>1. Sides = {"net"}
    BY DEF Sides
  <2>2. PICK q \in Int, avg \in Fractions : q = p["net"].qty /\ avg = p["net"].avg
    BY <1>4, <2>1 DEF Side
  <2>3. PICK m \in Int, c \in Int : m = q + k /\ c = k * price
    OBVIOUS
  <2>4. position'["net"] = Averaged(p["net"], price, k)
    BY <1>4, <1>5, <1>7, <2>1 DEF Add, NetAdd, Outcome
  <2>5. /\ position'["net"].qty = m
        /\ position'["net"].avg = Weigh(q, avg, c, m)
    BY <2>2, <2>3, <2>4 DEF Averaged, Weigh
  <2>6. Costs(q, avg, spent)
    <3>1. CASE position = None
      <4>1. q = 0 /\ avg = Num(0) /\ spent = 0
        BY <1>2, <2>1, <2>2, <3>1, ZeroType DEF NewPosition, PositionsInv, ClosedIsZero
      <4>2. Times(0, Num(0)) = Num(0)
        BY NothingTimes
      <4>. QED
        BY <4>1, <4>2 DEF Costs
    <3>2. CASE position # None
      BY <1>2, <2>2, <3>2 DEF PositionsInv, BreakEven, Costs
    <3>. QED
      BY <3>1, <3>2
  <2>7. Costs(m, Weigh(q, avg, c, m), spent + c)
    BY <1>1, <2>6, AverageKeepsMoney
  <2>. QED
    BY <1>10, <2>3, <2>5, <2>7 DEF Costs
<1>14. EntriesFiled'
  <2>. SUFFICES ASSUME NEW s \in Sides, s \notin misfiled'
                PROVE  FiledAs(position_info_[s], s)'
    BY <1>8 DEF EntriesFiled
  <2>1. CASE Reported(out, s)
    BY <1>7, <1>8, <1>9, <2>1 DEF FiledAs
  <2>2. CASE ~Reported(out, s)
    <3>1. position_info_'[s] = position_info_[s] /\ s \notin misfiled
      BY <1>8, <2>2
    <3>2. position'[s] = p[s]
      BY <1>6, <1>7, <2>2 DEF Frame, Reported
    <3>3. FiledAs(position_info_[s], s)
      BY <3>1 DEF PositionsInv, EntriesFiled
    <3>4. position = None => p[s] = Zero
      BY <1>2 DEF NewPosition
    <3>. QED
      BY <1>2, <1>9, <3>1, <3>2, <3>3, <3>4 DEF FiledAs
  <2>. QED
    BY <2>1, <2>2
<1>. QED
  BY <1>8, <1>11, <1>12, <1>13, <1>14 DEF PositionsInv

\* So does a removal.
LEMMA RemoveKeeps ==
  ASSUME PositionsInv, NEW price \in Nat, NEW k \in Int, NEW money \in Int, money = -(price * k),
         RemovePosition(price, k), Spend(money)
  PROVE  PositionsInv'
<1>1. TypeOK /\ hedged \in BOOLEAN /\ spent \in Int /\ executions \in 0 .. MaxExecutions
  BY DEF PositionsInv, TypeOK
<1>2. executions' \in 0 .. MaxExecutions /\ spent' = IF position' = None THEN 0 ELSE spent + money
  BY <1>1, BoundsAssumption DEF Spend
<1>3. spent' \in Int
  BY <1>1, <1>2
<1>4. CASE position = None
  <2>1. UNCHANGED <<hedged, position, realized_pnl_, position_info_, bbo_, unrealized_pnl_,
                    latest, at_latest, misfiled>>
    BY <1>4 DEF RemovePosition
  <2>2. Sides' = Sides /\ Entries' = Entries
    BY <2>1, SidesKept
  <2>3. TypeOK'
    BY <1>1, <1>2, <1>3, <2>1, <2>2 DEF TypeOK
  <2>4. Unquoted' /\ EntriesValued' /\ EntriesFiled'
    BY <2>1, <2>2 DEF PositionsInv, Unquoted, EntriesValued, UsedQuote, EntriesFiled, FiledAs
  <2>5. Unknown'
    <3>1. Known(position_info_)' = Known(position_info_)
      BY <2>1 DEF Known
    <3>. QED
      BY <2>1, <3>1 DEF PositionsInv, Unknown
  <2>6. ClosedIsZero' /\ BreakEven'
    BY <1>2, <1>4, <2>1 DEF PositionsInv, ClosedIsZero, BreakEven
  <2>. QED
    BY <2>3, <2>4, <2>5, <2>6 DEF PositionsInv
<1>5. CASE position # None
  <2>1. position \in [Sides -> Side]
    BY <1>1, <1>5, TypesAre
  <2>2. PICK out : out = Remove(position, price, k)
    OBVIOUS
  <2>3. OutcomeOK(out) /\ Frame(out, position)
    BY <1>1, <2>1, <2>2, RemoveType
  <2>4. position' = (IF Empty(out.position) THEN None ELSE out.position) /\ Book(out)
    BY <1>5, <2>2 DEF RemovePosition
  <2>5. /\ hedged' = hedged /\ Sides' = Sides
        /\ realized_pnl_' \in Fractions \cup {None}
        /\ position_info_' \in [Entries -> Side \cup {None}]'
        /\ unrealized_pnl_' \in Fractions \cup {None}
        /\ bbo_' \in Quotes \cup {None} /\ latest' \in Quotes \cup {None}
        /\ Unquoted' /\ Unknown' /\ EntriesValued'
        /\ at_latest' \in BOOLEAN /\ misfiled' \in SUBSET Sides
        /\ \A s \in Sides : s \notin misfiled' =>
             IF Reported(out, s) THEN position_info_'[s] = out.position[s]
             ELSE position_info_'[s] = position_info_[s] /\ s \notin misfiled
    BY <2>3, <2>4, BookKeeps
  <2>6. out.position \in [Sides -> Side] /\ out.position # None
    <3>1. out.position \in [Sides -> Side] /\ Sides # {}
      BY <2>3 DEF OutcomeOK, Sides
    <3>. QED
      BY <3>1, NothingIsNotASide
  <2>7. TypeOK'
    BY <1>1, <1>2, <1>3, <2>4, <2>5, <2>6 DEF TypeOK
  <2>8. ~hedged => Sides = {"net"} /\ out.position["net"] = NetRemoved(position["net"], price, k)
    <3>1. ~hedged => Sides = {"net"}
      BY DEF Sides
    <3>. QED
      BY <2>1, <2>2, <3>1 DEF Remove, NetRemove, Outcome
  <2>9. ClosedIsZero'
    BY <1>2 DEF ClosedIsZero
  <2>10. BreakEven'
    <3>. SUFFICES ASSUME ~hedged, position' # None, IsNumber(position'["net"].avg)
                  PROVE  Times(position'["net"].qty, position'["net"].avg) = Num(spent')
      BY <2>5 DEF BreakEven
    <3>1. position' = out.position /\ ~Empty(out.position) /\ spent' = spent + money
      BY <1>2, <2>4
    <3>2. PICK q \in Int, avg \in Fractions : q = position["net"].qty /\ avg = position["net"].avg
      BY <2>1, <2>8 DEF Side
    <3>3. PICK m \in Int, c \in Int : m = q - k /\ c = -(price * k) /\ m + k = q
      OBVIOUS
    <3>4. out.position["net"].qty = m
      BY <2>8, <3>2, <3>3 DEF NetRemoved
    <3>5. m # 0
      BY <2>6, <2>8, <3>1, <3>4 DEF Empty
    <3>6. position'["net"].avg = Weigh(q, avg, c, m)
      BY <2>8, <3>1, <3>2, <3>3, <3>5 DEF NetRemoved, Weigh
    <3>7. Costs(q, avg, spent)
      BY <1>5, <3>2 DEF PositionsInv, BreakEven, Costs
    <3>8. Costs(m, Weigh(q, avg, c, m), spent + c)
      BY <1>1, <3>7, AverageKeepsMoney
    <3>. QED
      BY <3>1, <3>3, <3>4, <3>6, <3>8 DEF Costs
  <2>11. EntriesFiled'
    <3>. SUFFICES ASSUME NEW s \in Sides, s \notin misfiled'
                  PROVE  FiledAs(position_info_[s], s)'
      BY <2>5 DEF EntriesFiled
    <3>1. out.position[s] \in Side /\ out.position[s] # None
      BY <2>6, NothingIsNotASide
    <3>2. position' = None => out.position[s].qty = 0
      BY <2>4, <2>6 DEF Empty
    <3>3. position' # None => position' = out.position
      BY <2>4
    <3>4. CASE Reported(out, s)
      <4>1. position_info_'[s] = out.position[s]
        BY <2>5, <3>4
      <4>. QED
        BY <3>1, <3>2, <3>3, <4>1 DEF FiledAs
    <3>5. CASE ~Reported(out, s)
      <4>1. position_info_'[s] = position_info_[s] /\ s \notin misfiled
        BY <2>5, <3>5
      <4>2. out.position[s] = position[s]
        BY <2>3, <3>5 DEF Frame, Reported
      <4>3. FiledAs(position_info_[s], s)
        BY <4>1 DEF PositionsInv, EntriesFiled
      <4>. QED
        BY <1>5, <3>1, <3>2, <3>3, <4>1, <4>2, <4>3 DEF FiledAs
    <3>. QED
      BY <3>4, <3>5
  <2>. QED
    BY <2>5, <2>7, <2>9, <2>10, <2>11 DEF PositionsInv
<1>. QED
  BY <1>4, <1>5

\* And a quote.
LEMMA UpdateKeeps ==
  ASSUME PositionsInv, NEW quote \in Quotes, UpdateBBO(quote)
  PROVE  PositionsInv'
<1>1. TypeOK /\ quote \in Nat \X Nat /\ quote # None
  BY InputsAssumption, NothingIsNotASide DEF PositionsInv
<1>2. /\ UNCHANGED <<hedged, position, realized_pnl_, position_info_, misfiled, spent, executions>>
      /\ at_latest' = TRUE /\ latest' = quote /\ bbo_' \in Quotes /\ bbo_' # None
  <2>1. bbo_' = Stored(quote) /\ latest' = quote /\ at_latest' = TRUE
    BY DEF UpdateBBO
  <2>2. bbo_ # None => bbo_ \in Quotes
    BY <1>1 DEF TypeOK
  <2>3. Stored(quote) \in Quotes /\ Stored(quote) # None
    BY <1>1, <2>2 DEF Stored
  <2>. QED
    BY <2>1, <2>3 DEF UpdateBBO
<1>3. Sides' = Sides /\ Entries' = Entries /\ Known(position_info_)' = Known(position_info_)
  BY <1>2, SidesKept DEF Known
<1>4. ASSUME Known(position_info_) = {}
      PROVE  unrealized_pnl_' = None
  BY <1>4 DEF UpdateBBO, PositionsInv, Unknown
<1>5. ASSUME Known(position_info_) # {}
      PROVE  /\ unrealized_pnl_' \in Fractions
             /\ unrealized_pnl_' = ClosingTotal(position_info_, quote)
  <2>1. unrealized_pnl_' = Total(position_info_, quote)
    BY <1>5 DEF UpdateBBO
  <2>2. Info(position_info_)
    BY <1>1, TypesAre
  <2>. QED
    BY <1>1, <1>5, <2>1, <2>2, TotalType, TotalIsClosing
<1>6. TypeOK'
  BY <1>1, <1>2, <1>3, <1>4, <1>5 DEF TypeOK
<1>7. Unquoted' /\ Unknown'
  BY <1>1, <1>2, <1>3, <1>4 DEF Unquoted, Unknown
<1>8. ClosedIsZero' /\ BreakEven'
  BY <1>2 DEF PositionsInv, ClosedIsZero, BreakEven
<1>9. EntriesValued'
  <2>1. UsedQuote' = quote
    BY <1>2 DEF UsedQuote
  <2>2. ClosingTotal(position_info_, UsedQuote)' = ClosingTotal(position_info_, quote)
    BY <1>2, <2>1
  <2>3. unrealized_pnl_' # None => unrealized_pnl_' = ClosingTotal(position_info_, UsedQuote)'
    BY <1>4, <1>5, <2>2
  <2>. QED
    BY <2>3 DEF EntriesValued
<1>10. EntriesFiled'
  BY <1>2, <1>3 DEF PositionsInv, EntriesFiled, FiledAs
<1>. QED
  BY <1>6, <1>7, <1>8, <1>9, <1>10 DEF PositionsInv

\* It holds at first, ...
LEMMA InitKeeps == ASSUME Init PROVE PositionsInv
<1>1. position_info_ = [e \in Entries |-> None] /\ hedged \in BOOLEAN
  BY DEF Init
<1>2. TypeOK
  <2>1. position_info_ \in [Entries -> Side \cup {None}]
    BY <1>1
  <2>2. /\ position = None /\ realized_pnl_ = None /\ bbo_ = None /\ unrealized_pnl_ = None
        /\ latest = None /\ at_latest = FALSE /\ misfiled = {} /\ spent = 0 /\ executions = 0
    BY DEF Init
  <2>3. misfiled \subseteq Sides /\ spent \in Int
    BY <2>2
  <2>6. at_latest \in BOOLEAN
    BY Zenon DEF Init
  <2>4. executions \in 0 .. MaxExecutions
    BY <2>2, BoundsAssumption
  <2>5. /\ position \in [Sides -> Side] \cup {None} /\ latest \in Quotes \cup {None}
        /\ realized_pnl_ \in Fractions \cup {None} /\ unrealized_pnl_ \in Fractions \cup {None}
        /\ bbo_ \in Quotes \cup {None}
    BY <2>2
  <2>. QED
    BY <1>1, <2>1, <2>3, <2>4, <2>5, <2>6 DEF TypeOK
<1>3. Entries = Sides
  BY DEF Entries, Sides
<1>4. EntriesFiled
  BY <1>1, <1>3 DEF Init, EntriesFiled, FiledAs
<1>. QED
  BY <1>2, <1>4 DEF Init, PositionsInv, Unquoted, Unknown, ClosedIsZero, BreakEven, EntriesValued

\* ... and every call keeps it.
LEMMA StepKeeps == ASSUME PositionsInv, [Next]_vars PROVE PositionsInv'
<1>1. ASSUME NEW price \in Prices, NEW qty \in Qtys,
             SpotBuy(price, qty) \/ SpotSell(price, qty)
               \/ LinearSell(price, qty) \/ LinearBuy(price, qty)
      PROVE  PositionsInv'
  <2>1. PICK p \in Nat, q \in Nat, c \in Int, n \in Int :
          p = price /\ q = qty /\ c = p * q /\ n = -q
    BY InputsAssumption
  <2>2. c = q * p /\ -c = n * p /\ -c = -(p * q) /\ c = -(p * n) /\ -c \in Int
    BY <2>1
  <2>3. SpotBuy(price, qty) => PositionsInv'
    BY <2>1, <2>2, AddKeeps DEF SpotBuy
  <2>4. SpotSell(price, qty) => PositionsInv'
    BY <2>1, <2>2, RemoveKeeps DEF SpotSell
  <2>5. LinearSell(price, qty) => PositionsInv'
    BY <2>1, <2>2, AddKeeps DEF LinearSell
  <2>6. LinearBuy(price, qty) => PositionsInv'
    BY <2>1, <2>2, RemoveKeeps DEF LinearBuy
  <2>. QED
    BY <1>1, <2>3, <2>4, <2>5, <2>6
<1>2. ASSUME NEW quote \in Quotes, UpdateBBO(quote) PROVE PositionsInv'
  BY <1>2, UpdateKeeps
<1>3. CASE UNCHANGED vars
  <2>1. UNCHANGED <<hedged, position, realized_pnl_, position_info_, bbo_, unrealized_pnl_,
                    latest, at_latest, misfiled, spent, executions>>
    BY <1>3 DEF vars
  <2>2. Sides' = Sides /\ Entries' = Entries /\ Known(position_info_)' = Known(position_info_)
    BY <2>1, SidesKept DEF Known
  <2>3. TypeOK'
    BY <2>1, <2>2 DEF PositionsInv, TypeOK
  <2>. QED
    BY <2>1, <2>2, <2>3 DEF PositionsInv, Unquoted, Unknown, ClosedIsZero, BreakEven,
       EntriesValued, UsedQuote, EntriesFiled, FiledAs
<1>. QED
  BY <1>1, <1>2, <1>3 DEF Next

\* A filed entry, known or not, is worth what the side of the position is.
LEMMA EntryIsWorthTheSide ==
  ASSUME PositionsInv, NEW s \in Sides, s \notin misfiled, NEW quote \in Nat \X Nat
  PROVE  LET entry == position_info_[s]
         IN  /\ position = None /\ entry # None /\ IsNumber(ClosingValue(entry, quote)) =>
                  ClosingValue(entry, quote) = Num(0)
             /\ position # None /\ entry # None /\ IsNumber(ClosingValue(entry, quote)) =>
                  ClosingValue(entry, quote) = ClosingValue(position[s], quote)
             /\ position # None /\ entry = None => ClosingValue(position[s], quote) = Num(0)
<1>1. TypeOK /\ Entries = Sides /\ FiledAs(position_info_[s], s)
  BY DEF PositionsInv, EntriesFiled, Entries, Sides
<1>2. PICK entry \in Side \cup {None} : entry = position_info_[s]
  BY <1>1 DEF TypeOK
<1>3. Zero \in Side /\ Zero.qty = 0 /\ IsNumber(Zero.avg)
  BY ZeroType DEF IsNumber, Num
<1>4. ClosingValue(Zero, quote) = Num(0)
  BY <1>3, NothingToClose
<1>5. ASSUME entry # None, entry.qty = 0, IsNumber(ClosingValue(entry, quote))
      PROVE  ClosingValue(entry, quote) = Num(0)
  <2>1. entry \in Side
    BY <1>5
  <2>2. IsNumber(entry.avg)
    BY <1>5, <2>1, ClosingIsReduced
  <2>. QED
    BY <1>5, <2>1, <2>2, NothingToClose
<1>6. position # None /\ entry = None => position[s] = Zero
  <2>1. position # None => position[s] # None
    BY <1>1, NothingIsNotASide, TypesAre
  <2>. QED
    BY <1>1, <1>2, <2>1 DEF FiledAs
<1>. QED
  BY <1>1, <1>2, <1>4, <1>5, <1>6 DEF FiledAs

\* The unrealized profit follows from the invariant.
LEMMA RightFollows == ASSUME PositionsInv PROVE UnrealizedIsRight
<1>. SUFFICES ASSUME unrealized_pnl_ # None, IsNumber(unrealized_pnl_), misfiled = {}
              PROVE  unrealized_pnl_ = PositionProfit(UsedQuote)
  BY DEF UnrealizedIsRight, UsedQuote
<1>1. TypeOK /\ hedged \in BOOLEAN /\ Known(position_info_) # {} /\ Info(position_info_)
  BY TypesAre DEF PositionsInv, Unknown, TypeOK
<1>2. PICK quote \in Nat \X Nat : quote = UsedQuote
  BY <1>1, InputsAssumption DEF PositionsInv, TypeOK, Unquoted, UsedQuote
<1>3. ClosingTotal(position_info_, quote) = unrealized_pnl_
  BY <1>2 DEF PositionsInv, EntriesValued
<1>4. DOMAIN position_info_ = Sides
  BY <1>1 DEF TypeOK, Entries, Sides
<1>5. CASE ~hedged
  <2>1. Sides = {"net"}
    BY <1>5 DEF Sides
  <2>2. Known(position_info_) = {"net"} /\ position_info_["net"] # None
    BY <1>1, <1>4, <2>1 DEF Known
  <2>3. PICK entry \in Side : entry = position_info_["net"]
    BY <1>1, <1>4, <2>1, <2>2 DEF Info
  <2>4. unrealized_pnl_ = ClosingValue(entry, quote) /\ IsNumber(ClosingValue(entry, quote))
    BY <1>1, <1>3, <2>2, <2>3, OneEntry
  <2>5. CASE position = None
    <3>1. ClosingValue(entry, quote) = Num(0)
      BY <2>1, <2>2, <2>3, <2>4, <2>5, EntryIsWorthTheSide
    <3>. QED
      BY <1>2, <2>4, <2>5, <3>1 DEF PositionProfit
  <2>6. CASE position # None
    <3>1. PICK side \in Side : side = position["net"]
      BY <1>1, <2>1, <2>6, TypesAre
    <3>2. ClosingValue(entry, quote) = ClosingValue(side, quote)
      BY <2>1, <2>2, <2>3, <2>4, <2>6, <3>1, EntryIsWorthTheSide
    <3>3. IsNumber(side.avg)
      BY <2>4, <3>2, ClosingIsReduced
    <3>4. Times(side.qty, side.avg) = Num(spent) /\ spent \in Int
      BY <1>1, <1>5, <2>6, <3>1, <3>3 DEF PositionsInv, BreakEven, TypeOK
    <3>5. ClosingValue(side, quote) = Num(Worth(side.qty, quote) - spent)
      BY <3>3, <3>4, ClosingOfMoney
    <3>. QED
      BY <1>2, <1>5, <2>4, <2>6, <3>1, <3>2, <3>5 DEF PositionProfit
  <2>. QED
    BY <2>5, <2>6
<1>6. CASE hedged
  <2>1. Sides = {"short", "long"} /\ "short" # "long"
    BY <1>6 DEF Sides
  <2>. DEFINE V(s) == ClosingValue(position_info_[s], quote)
  <2>2. \A s \in Sides : position_info_[s] # None <=> s \in Known(position_info_)
    BY <1>4 DEF Known
  <2>3. Known(position_info_) \subseteq {"short", "long"}
    BY <1>4, <2>1 DEF Known
  <2>4. ASSUME NEW s \in Sides, position_info_[s] # None, IsNumber(V(s))
        PROVE  /\ position = None => V(s) = Num(0)
               /\ position # None => V(s) = ClosingValue(position[s], quote)
    BY <2>4, EntryIsWorthTheSide
  <2>5. ASSUME NEW s \in Sides, position_info_[s] = None, position # None
        PROVE  ClosingValue(position[s], quote) = Num(0)
    BY <2>5, EntryIsWorthTheSide
  <2>6. \A s \in Sides : s \in Known(position_info_) /\ IsNumber(V(s)) =>
           V(s) \in Fractions /\ Plus(Num(0), V(s)) = V(s)
    BY <1>1, ClosingIsReduced DEF Known, Info
  <2>7. Num(0) \in Fractions /\ Plus(Num(0), Num(0)) = Num(0)
    BY NothingTimes, Closed DEF Num, Fractions
  <2>8. CASE Known(position_info_) = {"short", "long"}
    <3>1. Known(position_info_) = {"long", "short"}
      BY <2>8
    <3>2. unrealized_pnl_ = Plus(V("long"), V("short")) /\ IsNumber(V("long")) /\ IsNumber(V("short"))
      BY <1>1, <1>3, <3>1, TwoEntries
    <3>. QED
      BY <1>2, <1>6, <2>1, <2>2, <2>4, <2>7, <2>8, <3>2 DEF PositionProfit
  <2>9. ASSUME NEW s \in Sides, NEW o \in Sides, s # o, Known(position_info_) = {s}
        PROVE  unrealized_pnl_ = PositionProfit(UsedQuote)
    <3>1. unrealized_pnl_ = V(s) /\ IsNumber(V(s))
      BY <1>1, <1>3, <2>9, OneEntry
    <3>2. position_info_[s] # None /\ position_info_[o] = None
      BY <2>2, <2>9
    <3>3. CASE position = None
      BY <1>2, <2>4, <3>1, <3>2, <3>3 DEF PositionProfit
    <3>4. CASE position # None
      <4>1. ClosingValue(position[o], quote) = Num(0)
        BY <2>5, <3>2, <3>4
      <4>2. V(s) = ClosingValue(position[s], quote)
        BY <2>4, <3>1, <3>2, <3>4
      <4>3. Plus(Num(0), V(s)) = V(s) /\ Plus(V(s), Num(0)) = V(s)
        BY <2>6, <2>7, <2>9, <3>1, PlusCommutes
      <4>4. unrealized_pnl_ = Plus(ClosingValue(position["long"], quote),
                                   ClosingValue(position["short"], quote))
        BY <2>1, <2>9, <3>1, <4>1, <4>2, <4>3
      <4>. QED
        BY <1>2, <1>6, <3>4, <4>4 DEF PositionProfit
    <3>. QED
      BY <3>3, <3>4
  <2>10. \/ Known(position_info_) = {"short", "long"}
         \/ Known(position_info_) = {"short"}
         \/ Known(position_info_) = {"long"}
    BY <1>1, <2>3
  <2>. QED
    BY <2>1, <2>8, <2>9, <2>10
<1>. QED
  BY <1>1, <1>5, <1>6

LEMMA PositionsInvHolds == Spec => []PositionsInv
<1>1. Init => PositionsInv
  BY InitKeeps
<1>2. PositionsInv /\ [Next]_vars => PositionsInv'
  BY StepKeeps
<1>. QED
  BY <1>1, <1>2, PTL DEF Spec

-----------------------------------------------------------------------------
(* The theorems.                                                           *)

\* Positions, profits and quotes have their types: no execution, quote or strategy makes a
\* side, an average or a profit of something else (aos/position, aos/pnl).
THEOREM PositionsTyped == Spec => []TypeOK
<1>1. PositionsInv => TypeOK
  BY DEF PositionsInv
<1>. QED
  BY <1>1, PositionsInvHolds, PTL

\* The average price of a net position, times its quantity, is the money spent on it since it
\* was opened: what every execution in between cost or brought is accounted for, however
\* additions and removals alternate and whichever sign the quantity has.  Only an addition that
\* meets exactly zero leaves no number (aos/position_strategy/position_strategy.h:28).
THEOREM AverageIsBreakEven == Spec => []BreakEven
<1>1. PositionsInv => BreakEven
  BY DEF PositionsInv
<1>. QED
  BY <1>1, PositionsInvHolds, PTL

\* The unrealized profit is that of the position, open or closed, for all prices, quantities
\* and quotes: after a quote at that quote, after an execution at the first quote there ever
\* was (pnl_unrealized_storage.h:82), unless a closed short is stored as the long side
\* (pnl_unrealized_storage.h:144) or an addition to exactly zero has left no number.
THEOREM UnrealizedRight == Spec => []UnrealizedIsRight
<1>1. PositionsInv => UnrealizedIsRight
  BY RightFollows
<1>. QED
  BY <1>1, PositionsInvHolds, PTL

=============================================================================
