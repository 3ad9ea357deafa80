----------------------------- MODULE UlidProofs -----------------------------
(***************************************************************************)
(* That the identifiers one caller gets grow, for any number of callers    *)
(* and any widths, and that their characters sort as they do.  What the    *)
(* mutex gives: of two identifiers drawn one after the other in one        *)
(* millisecond the second is the first incremented.  What the clock gives  *)
(* while it is never set back: a caller's reading is no earlier than the   *)
(* millisecond of anything it got before.  What the characters give: each  *)
(* prefix of them is the identifier as a number, its low bits cut off.     *)
(***************************************************************************)
EXTENDS Ulid, WellFoundedInduction, TLAPS

Id == [by : Callers, ms : Millis, rand : 0..(Rands - 1)]

\* The generator's memory is the identifier it gave last.
LastIsIssued ==
    issued # <<>> => /\ lastMs = issued[Len(issued)].ms
                     /\ lastRand = issued[Len(issued)].rand

\* In an undisturbed run the random parts grow.
RunsGrow ==
    \A i, j \in 1..Len(issued) :
        i < j /\ Undisturbed(i, j) => issued[i].rand < issued[j].rand

\* While the clock is never set back.
TimeGrows ==
    ~setBack =>
        /\ \A c \in Callers : read[c] <= clock
        /\ \A i \in 1..Len(issued) : issued[i].ms <= clock
        /\ \A i \in 1..Len(issued) :
              read[issued[i].by] # -1 => issued[i].ms <= read[issued[i].by]
        /\ \A i, j \in 1..Len(issued) :
              i < j /\ issued[i].by = issued[j].by => issued[i].ms <= issued[j].ms

IInv == TypeOK /\ LastIsIssued /\ RunsGrow /\ TimeGrows
-----------------------------------------------------------------------------
(***************************************************************************)
(* Numbers.  The induction theorems of the library take an operator, so    *)
(* induction is over a set here, from the least element that is not in it. *)
(***************************************************************************)
LEMMA Climb ==
    ASSUME NEW T, 0 \in T, \A n \in Nat : n \in T => n + 1 \in T
    PROVE  \A n \in Nat : n \in T
<1> DEFINE U == {n \in Nat : n \notin T}
           L == {ss \in Nat \X Nat : ss[1] < ss[2]}
<1>1. IsWellFoundedOn(L, Nat)
  BY NatLessThanWellFounded DEF OpToRel
<1>2. \A x, y \in Nat : x < y => <<x, y>> \in L
  OBVIOUS
<1> SUFFICES ASSUME U # {} PROVE FALSE
  OBVIOUS
<1> HIDE DEF L
<1>3. PICK x \in U : \A y \in U : ~(<<y, x>> \in L)
  BY <1>1, WFMin
<1>4. x # 0 /\ x - 1 \in Nat
  OBVIOUS
<1>5. x - 1 \notin U
  <2>1. <<x - 1, x>> \in L
    BY <1>2, <1>4
  <2> QED BY <1>3, <2>1
<1>6. x - 1 + 1 \in T
  BY <1>4, <1>5
<1> QED BY <1>6

\* The powers below an exponent.
Powers(n) == {g \in [0..n -> Nat \ {0}] : g[0] = 1 /\ \A k \in 0..(n - 1) : g[k + 1] = 2 * g[k]}

LEMMA PowersExist == \A n \in Nat : Powers(n) # {}
<1> DEFINE T == {n \in Nat : Powers(n) # {}}
<1>1. 0 \in T
  <2>1. [k \in 0..0 |-> 1] \in Powers(0)
    BY DEF Powers
  <2> QED BY <2>1
<1>2. ASSUME NEW n \in Nat, n \in T PROVE n + 1 \in T
  <2>1. PICK g : g \in Powers(n)
    BY <1>2
  <2> DEFINE h == [k \in 0..(n + 1) |-> IF k = n + 1 THEN 2 * g[n] ELSE g[k]]
  <2>2. g \in [0..n -> Nat \ {0}] /\ g[0] = 1 /\ \A k \in 0..(n - 1) : g[k + 1] = 2 * g[k]
    BY <2>1 DEF Powers
  <2>3. \A k \in 0..n : h[k] = g[k] /\ g[k] \in Nat \ {0}
    BY <2>2
  <2>4. h[n + 1] = 2 * g[n] /\ g[n] \in Nat \ {0}
    BY <2>2
  <2>5. h \in [0..(n + 1) -> Nat \ {0}]
    BY <2>3, <2>4
  <2> HIDE DEF h
  <2>6. \A k \in 0..n : h[k + 1] = 2 * h[k]
    BY <2>2, <2>3, <2>4
  <2>7. h[0] = 1 /\ \A k \in 0..(n + 1 - 1) : h[k + 1] = 2 * h[k]
    BY <2>2, <2>3, <2>6
  <2>8. h \in Powers(n + 1)
    BY <2>5, <2>7 DEF Powers
  <2> QED BY <2>8
<1> HIDE DEF T
<1>3. \A n \in Nat : n \in T
  BY <1>1, <1>2, Climb
<1> QED BY <1>3 DEF T

LEMMA PowersAgree ==
    ASSUME NEW m \in Nat, NEW n \in Nat, NEW g, g \in Powers(m), NEW h, h \in Powers(n)
    PROVE  \A k \in Nat : k <= m /\ k <= n => g[k] = h[k]
<1> DEFINE T == {k \in Nat : k <= m /\ k <= n => g[k] = h[k]}
<1>1. 0 \in T
  BY DEF Powers
<1>2. ASSUME NEW k \in Nat, k \in T PROVE k + 1 \in T
  <2> SUFFICES ASSUME k + 1 <= m, k + 1 <= n PROVE g[k + 1] = h[k + 1]
    OBVIOUS
  <2>1. k \in 0..(m - 1) /\ k \in 0..(n - 1) /\ k <= m /\ k <= n
    OBVIOUS
  <2>2. g[k + 1] = 2 * g[k] /\ h[k + 1] = 2 * h[k]
    BY <2>1 DEF Powers
  <2> QED BY <1>2, <2>1, <2>2
<1> HIDE DEF T
<1>3. \A k \in Nat : k \in T
  BY <1>1, <1>2, Climb
<1> QED BY <1>3 DEF T

\* The recursive function Pow is what its equation says.
LEMMA PowIs ==
    /\ \A n \in Nat : Pow[n] \in Nat \ {0}
    /\ Pow[0] = 1
    /\ \A n \in Nat : Pow[n + 1] = 2 * Pow[n]
<1> DEFINE pick(n) == CHOOSE g : g \in Powers(n)
           f == [n \in Nat |-> pick(n)[n]]
<1>1. \A n \in Nat : pick(n) \in Powers(n)
  BY PowersExist
<1> HIDE DEF pick
<1>2. ASSUME NEW n \in Nat
      PROVE  f[n] \in Nat \ {0} /\ f[n + 1] = 2 * f[n]
  <2>1. pick(n) \in Powers(n) /\ pick(n + 1) \in Powers(n + 1)
    BY <1>1
  <2>2. pick(n)[n] = pick(n + 1)[n]
    BY <2>1, PowersAgree
  <2>3. pick(n + 1)[n + 1] = 2 * pick(n + 1)[n] /\ pick(n)[n] \in Nat \ {0}
    BY <2>1 DEF Powers
  <2> QED BY <2>2, <2>3
<1>3. f[0] = 1
  BY <1>1 DEF Powers
<1> HIDE DEF f
<1>4. \A n \in Nat : f[n] = IF n = 0 THEN 1 ELSE 2 * f[n - 1]
  <2>1. \A n \in Nat : n # 0 => n - 1 \in Nat /\ n - 1 + 1 = n
    OBVIOUS
  <2> QED BY <1>2, <1>3, <2>1
<1>5. f = [n \in Nat |-> f[n]]
  BY DEF f
<1>6. f = [n \in Nat |-> IF n = 0 THEN 1 ELSE 2 * f[n - 1]]
  BY <1>4, <1>5
<1>7. Pow = [n \in Nat |-> IF n = 0 THEN 1 ELSE 2 * Pow[n - 1]]
  BY <1>6, Zenon DEF Pow
<1>8. Pow[0] = 1 /\ \A n \in Nat : Pow[n + 1] = 2 * Pow[n]
  <2>1. \A n \in Nat : Pow[n] = IF n = 0 THEN 1 ELSE 2 * Pow[n - 1]
    BY <1>7
  <2>2. \A n \in Nat : n + 1 \in Nat /\ n + 1 # 0 /\ n + 1 - 1 = n
    OBVIOUS
  <2> QED BY <2>1, <2>2
<1> DEFINE T == {n \in Nat : Pow[n] \in Nat \ {0}}
<1>9. 0 \in T
  BY <1>8
<1>10. ASSUME NEW n \in Nat, n \in T PROVE n + 1 \in T
  BY <1>8, <1>10
<1> HIDE DEF T
<1>11. \A n \in Nat : n \in T
  BY <1>9, <1>10, Climb
<1> QED BY <1>8, <1>11 DEF T

LEMMA PowAdd == \A a, b \in Nat : Pow[a + b] = Pow[a] * Pow[b]
<1> SUFFICES ASSUME NEW a \in Nat PROVE \A b \in Nat : Pow[a + b] = Pow[a] * Pow[b]
  OBVIOUS
<1> DEFINE T == {b \in Nat : Pow[a + b] = Pow[a] * Pow[b]}
<1>1. 0 \in T
  <2>1. Pow[a] * 1 = Pow[a] /\ a + 0 = a
    BY PowIs
  <2> QED BY <2>1, PowIs
<1>2. ASSUME NEW b \in Nat, b \in T PROVE b + 1 \in T
  <2>1. Pow[a] \in Nat /\ Pow[b] \in Nat /\ a + b \in Nat
    BY PowIs
  <2>2. Pow[(a + b) + 1] = 2 * Pow[a + b] /\ Pow[b + 1] = 2 * Pow[b]
    BY <2>1, PowIs
  <2>3. \A x, y \in Nat : x * (2 * y) = 2 * (x * y)
    OBVIOUS
  <2>4. a + (b + 1) = (a + b) + 1
    OBVIOUS
  <2> QED BY <1>2, <2>1, <2>2, <2>3, <2>4
<1> HIDE DEF T
<1>3. \A b \in Nat : b \in T
  BY <1>1, <1>2, Climb
<1> QED BY <1>3 DEF T

LEMMA ProductGrows ==
    ASSUME NEW q \in Nat, NEW s \in Nat, NEW m \in Nat \ {0}, q < s
    PROVE  m * q + m <= m * s
OBVIOUS

LEMMA QuotientIs ==
    \A a \in Nat, m \in Nat \ {0} : a \div m \in Nat /\ a % m \in 0..(m - 1)
OBVIOUS

\* Quotient and remainder are the only ones.
LEMMA DivUnique ==
    ASSUME NEW m \in Nat \ {0}, NEW q \in Nat, NEW r \in 0..(m - 1)
    PROVE  (m * q + r) \div m = q /\ (m * q + r) % m = r
<1> DEFINE a == m * q + r
           s == a \div m
           t == a % m
<1>1. a \in Nat /\ s \in Nat /\ t \in 0..(m - 1) /\ a = m * s + t
  OBVIOUS
<1>2. a = m * q + r
  OBVIOUS
<1> HIDE DEF a, s, t
<1>3. ~(q < s) /\ ~(s < q)
  BY <1>1, <1>2, ProductGrows
<1>4. s = q /\ t = r
  BY <1>1, <1>2, <1>3
<1> QED BY <1>4 DEF s, t, a

\* Division in two goes: the remainder of the product is made of both.
LEMMA DivTwice ==
    ASSUME NEW a \in Nat, NEW m \in Nat \ {0}, NEW n \in Nat \ {0}
    PROVE  /\ a \div (m * n) = (a \div m) \div n
           /\ a % (m * n) = m * ((a \div m) % n) + (a % m)
           /\ (a % (m * n)) \div m = (a \div m) % n
           /\ (a % (m * n)) % m = a % m
<1> DEFINE q == a \div m
           r == a % m
           p == q \div n
           s == q % n
           u == m * s + r
<1>1. q \in Nat /\ r \in 0..(m - 1) /\ a = m * q + r
  OBVIOUS
<1> HIDE DEF q, r
<1>2. p \in Nat /\ s \in 0..(n - 1) /\ q = n * p + s
  BY <1>1
<1> HIDE DEF p, s
<1>3. m * n \in Nat \ {0} /\ u \in Nat
  BY <1>1, <1>2
<1>4. u \in 0..(m * n - 1)
  <2>1. m * s + m <= m * n
    BY <1>2, ProductGrows
  <2> QED BY <1>1, <1>2, <1>3, <2>1
<1>5. a = (m * n) * p + u
  BY <1>1, <1>2
<1>6. a \div (m * n) = p /\ a % (m * n) = u
  <2> DEFINE k == m * n
  <2>1. k \in Nat \ {0} /\ u \in 0..(k - 1) /\ a = k * p + u
    BY <1>3, <1>4, <1>5
  <2> HIDE DEF k, u
  <2>2. a \div k = p /\ a % k = u
    BY <1>2, <2>1, DivUnique
  <2> QED BY <2>2 DEF k
<1>7. u \div m = s /\ u % m = r
  BY <1>1, <1>2, DivUnique
<1>8. /\ a \div (m * n) = p /\ a % (m * n) = m * s + r
      /\ (a % (m * n)) \div m = s /\ (a % (m * n)) % m = r
  BY <1>6, <1>7
<1> QED BY <1>8, Zenon DEF p, s, q, r
-----------------------------------------------------------------------------
\* n bits of v from bit lo on.
Bits(v, lo, n) == (v \div Pow[lo]) % Pow[n]

LEMMA BitsAre ==
    ASSUME NEW v \in Nat, NEW lo \in Nat, NEW n \in Nat
    PROVE  Bits(v, lo, n) \in 0..(Pow[n] - 1) /\ Bits(v, lo, 0) = 0
<1>1. Pow[lo] \in Nat \ {0} /\ Pow[n] \in Nat \ {0} /\ Pow[0] = 1
  BY PowIs
<1>2. \A a \in Nat : a % 1 = 0
  OBVIOUS
<1>3. v \div Pow[lo] \in Nat
  BY <1>1, QuotientIs
<1> QED BY <1>1, <1>2, <1>3, QuotientIs DEF Bits

LEMMA DivPow ==
    \A v, lo, a \in Nat :
        /\ Pow[lo] \in Nat \ {0} /\ Pow[a] \in Nat \ {0} /\ v \div Pow[lo] \in Nat
        /\ v \div Pow[lo + a] = (v \div Pow[lo]) \div Pow[a]
<1> SUFFICES ASSUME NEW v \in Nat, NEW lo \in Nat, NEW a \in Nat
             PROVE  /\ Pow[lo] \in Nat \ {0} /\ Pow[a] \in Nat \ {0} /\ v \div Pow[lo] \in Nat
                    /\ v \div Pow[lo + a] = (v \div Pow[lo]) \div Pow[a]
  OBVIOUS
<1> DEFINE p == Pow[lo]
           q == Pow[a]
<1>1. p \in Nat \ {0} /\ q \in Nat \ {0} /\ Pow[lo + a] = p * q
  BY PowIs, PowAdd
<1> HIDE DEF p, q
<1>2. v \div (p * q) = (v \div p) \div q
  BY <1>1, DivTwice
<1>3. v \div p \in Nat
  BY <1>1
<1> QED BY <1>1, <1>2, <1>3 DEF p, q

\* Bits above bits.
LEMMA BitsJoin ==
    ASSUME NEW v \in Nat, NEW lo \in Nat, NEW a \in Nat, NEW b \in Nat
    PROVE  Bits(v, lo, a) + Bits(v, lo + a, b) * Pow[a] = Bits(v, lo, a + b)
<1> DEFINE x == v \div Pow[lo]
<1>1. /\ Pow[lo] \in Nat \ {0} /\ Pow[a] \in Nat \ {0} /\ Pow[b] \in Nat \ {0}
      /\ Pow[a + b] = Pow[a] * Pow[b] /\ Pow[lo + a] = Pow[lo] * Pow[a]
  BY PowIs, PowAdd
<1>2. x \in Nat /\ v \div Pow[lo + a] = x \div Pow[a]
  BY DivPow
<1> HIDE DEF x
<1>3. x % (Pow[a] * Pow[b]) = Pow[a] * ((x \div Pow[a]) % Pow[b]) + (x % Pow[a])
  BY <1>1, <1>2, DivTwice
<1>4. (x \div Pow[a]) % Pow[b] \in Nat /\ x % Pow[a] \in Nat
  <2>1. \A i \in Nat, m \in Nat \ {0} : i % m \in Nat
    OBVIOUS
  <2>2. x \div Pow[a] \in Nat
    BY <1>1, <1>2, QuotientIs
  <2> QED BY <1>1, <1>2, <2>1, <2>2
<1>5. \A i, j, k \in Nat : j + k * i = i * k + j
  OBVIOUS
<1>6. Bits(v, lo, a + b) = x % (Pow[a] * Pow[b])
  BY <1>1 DEF Bits, x
<1>7. Bits(v, lo + a, b) = (x \div Pow[a]) % Pow[b] /\ Bits(v, lo, a) = x % Pow[a]
  BY <1>2 DEF Bits, x
<1> QED BY <1>1, <1>3, <1>4, <1>5, <1>6, <1>7

\* The upper of some bits, and some of the upper ones.
LEMMA BitsOfBits ==
    ASSUME NEW v \in Nat, NEW lo \in Nat, NEW n \in Nat, NEW a \in 0..n
    PROVE  /\ Bits(v, lo, n) \div Pow[a] = Bits(v, lo + a, n - a)
           /\ \A c \in 0..(n - a) : (Bits(v, lo, n) \div Pow[a]) % Pow[c] = Bits(v, lo + a, c)
<1> DEFINE x == v \div Pow[lo]
           y == x \div Pow[a]
<1>1. /\ Pow[lo] \in Nat \ {0} /\ Pow[a] \in Nat \ {0} /\ Pow[n - a] \in Nat \ {0}
      /\ Pow[n] = Pow[a] * Pow[n - a] /\ Pow[lo + a] = Pow[lo] * Pow[a]
  <2>1. n - a \in Nat /\ a \in Nat /\ a + (n - a) = n
    OBVIOUS
  <2> QED BY <2>1, PowIs, PowAdd
<1>2. x \in Nat /\ v \div Pow[lo + a] = y
  BY DivPow
<1>3. y \in Nat
  BY <1>1, <1>2, QuotientIs
<1>4. (x % (Pow[a] * Pow[n - a])) \div Pow[a] = y % Pow[n - a]
  <2> HIDE DEF x
  <2> QED BY <1>1, <1>2, DivTwice
<1>5. Bits(v, lo, n) \div Pow[a] = y % Pow[n - a]
  BY <1>1, <1>4 DEF Bits
<1>6. ASSUME NEW c \in 0..(n - a)
      PROVE  (y % Pow[n - a]) % Pow[c] = y % Pow[c]
  <2>1. n - a - c \in Nat /\ c \in Nat /\ c + (n - a - c) = n - a
    OBVIOUS
  <2>2. /\ Pow[c] \in Nat \ {0} /\ Pow[n - a - c] \in Nat \ {0}
        /\ Pow[n - a] = Pow[c] * Pow[n - a - c]
    BY <2>1, PowIs, PowAdd
  <2> HIDE DEF y
  <2>3. (y % (Pow[c] * Pow[n - a - c])) % Pow[c] = y % Pow[c]
    BY <1>3, <2>2, DivTwice
  <2> QED BY <2>2, <2>3
<1>7. \A c : Bits(v, lo + a, c) = y % Pow[c]
  BY <1>2 DEF Bits
<1> HIDE DEF y
<1> QED BY <1>5, <1>6, <1>7

\* All of them, and none of a number that is smaller.
LEMMA BitsBelow ==
    ASSUME NEW v \in Nat, NEW n \in Nat, v < Pow[n]
    PROVE  Bits(v, 0, n) = v
<1>1. Pow[0] = 1 /\ Pow[n] \in Nat \ {0}
  BY PowIs
<1>2. v \div 1 = v
  OBVIOUS
<1>3. \A m \in Nat \ {0} : v < m => v % m = v
  OBVIOUS
<1> QED BY <1>1, <1>2, <1>3 DEF Bits
-----------------------------------------------------------------------------
\* The widths give at least one random part and one millisecond.
LEMMA Widths ==
    /\ Rands \in Nat \ {0}
    /\ Millis \subseteq Nat
    /\ 0 \in Millis
<1>1. Pow[ByteBits * MsBytes] \in Nat \ {0} /\ Pow[ByteBits * RandBytes] \in Nat \ {0}
  BY UlidAssumption, PowIs
<1> DEFINE m == Pow[ByteBits * MsBytes]
<1>2. \A n \in Nat \ {0} : 0..(n - 1) \subseteq Nat /\ 0 \in 0..(n - 1)
  OBVIOUS
<1>3. m \in Nat \ {0}
  BY <1>1
<1> HIDE DEF m
<1>4. 0..(m - 1) \subseteq Nat /\ 0 \in 0..(m - 1)
  BY <1>2, <1>3
<1> QED BY <1>1, <1>4 DEF m, Rands, Millis

\* increment: the next random part, until it starts over.
LEMMA IncrementIs ==
    ASSUME NEW r \in 0..(Rands - 1)
    PROVE  /\ Increment(r) \in 0..(Rands - 1)
           /\ r # Rands - 1 => Increment(r) = r + 1
<1> DEFINE n == Rands
<1>1. n \in Nat \ {0} /\ r \in 0..(n - 1)
  BY Widths
<1> HIDE DEF n
<1>2. (r + 1) % n \in 0..(n - 1)
  BY <1>1
<1>3. r # n - 1 => (r + 1) % n = r + 1
  BY <1>1
<1> QED BY <1>2, <1>3 DEF n, Increment

\* Appending keeps what was issued.
LEMMA Appended ==
    ASSUME NEW S, NEW s \in Seq(S), NEW e \in S
    PROVE  /\ Append(s, e) \in Seq(S)
           /\ Len(Append(s, e)) = Len(s) + 1
           /\ \A i \in 1..Len(s) : Append(s, e)[i] = s[i]
           /\ Append(s, e)[Len(s) + 1] = e
  OBVIOUS

\* What the types say of one reading and of one identifier.
LEMMA Typed ==
    ASSUME TypeOK
    PROVE  /\ clock \in Nat
           /\ \A c \in Callers : read[c] \in Int /\ (read[c] # -1 => read[c] \in Millis)
           /\ issued \in Seq(Id) /\ Len(issued) \in Nat
           /\ \A i \in 1..Len(issued) :
                 /\ issued[i].by \in Callers /\ issued[i].ms \in Nat
                 /\ issued[i].rand \in 0..(Rands - 1)
<1>1. clock \in Nat
  BY Widths DEF TypeOK
<1>2. ASSUME NEW c \in Callers
      PROVE  read[c] \in Int /\ (read[c] # -1 => read[c] \in Millis)
  <2>1. read[c] \in Millis \union {-1}
    BY DEF TypeOK
  <2>2. \A x \in Millis : x \in Int
    BY Widths
  <2> QED BY <2>1, <2>2
<1>3. issued \in Seq(Id)
  BY DEF TypeOK, Id
<1>4. ASSUME NEW i \in 1..Len(issued)
      PROVE  /\ issued[i].by \in Callers /\ issued[i].ms \in Nat
             /\ issued[i].rand \in 0..(Rands - 1)
  <2>1. issued[i] \in Id
    BY <1>3
  <2>2. /\ issued[i].by \in Callers /\ issued[i].ms \in Millis
        /\ issued[i].rand \in 0..(Rands - 1)
    BY <2>1 DEF Id
  <2> QED BY <2>2, Widths
<1> QED BY <1>1, <1>2, <1>3, <1>4

\* Nothing has been drawn at the start.
LEMMA InitIInv == Init => IInv
<1> SUFFICES ASSUME Init PROVE IInv
  OBVIOUS
<1>1. TypeOK
  <2>1. read \in [Callers -> Millis \union {-1}]
    BY DEF Init
  <2>2. 0 \in Millis /\ 0 \in 0..(Rands - 1)
    BY Widths
  <2>3. issued \in Seq(Id)
    BY DEF Init
  <2> QED BY <2>1, <2>2, <2>3 DEF Init, TypeOK, Id
<1>2. issued = <<>> /\ Len(issued) = 0
  BY DEF Init
<1>3. LastIsIssued /\ RunsGrow
  BY <1>2 DEF LastIsIssued, RunsGrow
<1>4. TimeGrows
  <2>1. \A c \in Callers : read[c] = -1
    BY DEF Init
  <2>2. clock \in Nat
    BY Widths DEF Init
  <2> QED BY <1>2, <2>1, <2>2 DEF TimeGrows
<1> QED BY <1>1, <1>3, <1>4 DEF IInv
-----------------------------------------------------------------------------
\* The clock moves, forward or back: only the bounds by the clock are at stake.
LEMMA TickKeeps == IInv /\ Tick => IInv'
<1> SUFFICES ASSUME IInv, Tick PROVE IInv'
  OBVIOUS
<1>1. /\ clock' \in Millis /\ clock' # clock /\ setBack' = (setBack \/ clock' < clock)
      /\ UNCHANGED <<read, lastMs, lastRand, issued>>
  BY DEF Tick
<1>2. TypeOK'
  BY <1>1 DEF IInv, TypeOK
<1>3. LastIsIssued' /\ RunsGrow'
  BY <1>1 DEF IInv, LastIsIssued, RunsGrow, Undisturbed
<1>4. TimeGrows'
  <2> SUFFICES ASSUME ~setBack' PROVE TimeGrows'
    BY DEF TimeGrows
  <2>1. ~setBack /\ ~(clock' < clock)
    BY <1>1 DEF IInv, TypeOK
  <2>2. clock \in Nat /\ clock' \in Nat /\ clock <= clock'
    BY <1>1, <2>1, Widths DEF IInv, TypeOK
  <2>3. \A c \in Callers : read[c] \in Int
    BY Typed DEF IInv
  <2>4. \A i \in 1..Len(issued) : issued[i].ms \in Nat
    BY Typed DEF IInv
  <2> QED BY <1>1, <2>1, <2>2, <2>3, <2>4 DEF IInv, TimeGrows
<1> QED BY <1>2, <1>3, <1>4 DEF IInv

\* A caller reads the clock: no earlier than anything issued.
LEMMA NewKeeps == ASSUME NEW c \in Callers PROVE IInv /\ New(c) => IInv'
<1> SUFFICES ASSUME IInv, New(c) PROVE IInv'
  OBVIOUS
<1>1. /\ read' = [read EXCEPT ![c] = clock]
      /\ UNCHANGED <<clock, setBack, lastMs, lastRand, issued>>
  BY DEF New
<1>2. TypeOK'
  BY <1>1 DEF IInv, TypeOK
<1>3. LastIsIssued' /\ RunsGrow'
  BY <1>1 DEF IInv, LastIsIssued, RunsGrow, Undisturbed
<1>4. TimeGrows'
  <2>1. \A d \in Callers : read'[d] = IF d = c THEN clock ELSE read[d]
    BY <1>1 DEF IInv, TypeOK
  <2>2. clock \in Nat
    BY Typed DEF IInv
  <2>3. \A i \in 1..Len(issued) : issued[i].by \in Callers
    BY Typed DEF IInv
  <2> QED BY <1>1, <2>1, <2>2, <2>3 DEF IInv, TimeGrows
<1> QED BY <1>2, <1>3, <1>4 DEF IInv

\* Under the mutex: the new identifier against the last one, and against the
\* caller's own earlier ones.
LEMMA NewAtKeeps == ASSUME NEW c \in Callers PROVE IInv /\ NewAt(c) => IInv'
<1> SUFFICES ASSUME IInv, NewAt(c) PROVE IInv'
  OBVIOUS
<1>1. PICK r \in IF read[c] = lastMs THEN {Increment(lastRand)} ELSE 0..(Rands - 1) :
         /\ lastMs' = read[c]
         /\ lastRand' = r
         /\ issued' = Append(issued, [by |-> c, ms |-> read[c], rand |-> r])
  BY DEF NewAt
<1>2. /\ read[c] # -1
      /\ read' = [read EXCEPT ![c] = -1]
      /\ UNCHANGED <<clock, setBack>>
  BY DEF NewAt
<1> DEFINE e == [by |-> c, ms |-> read[c], rand |-> r]
           n == Len(issued)
<1>3. r \in 0..(Rands - 1)
  BY <1>1, IncrementIs DEF IInv, TypeOK
<1>4. read[c] \in Millis /\ read[c] \in Nat
  BY <1>2, Typed, Widths DEF IInv
<1>5. e \in Id
  BY <1>3, <1>4 DEF Id
<1>6. issued \in Seq(Id) /\ n \in Nat
  BY Typed DEF IInv
<1>7. /\ issued' \in Seq(Id)
      /\ Len(issued') = n + 1
      /\ \A i \in 1..n : issued'[i] = issued[i]
      /\ issued'[n + 1] = e
  BY <1>1, <1>5, <1>6, Appended
<1>8. e.by = c /\ e.ms = read[c] /\ e.rand = r
  OBVIOUS
<1>9. \A i \in 1..n : /\ issued[i].by \in Callers /\ issued[i].ms \in Nat
                      /\ issued[i].rand \in 0..(Rands - 1)
  BY Typed DEF IInv
<1> HIDE DEF e, n
<1>10. TypeOK'
  BY <1>1, <1>2, <1>3, <1>4, <1>7 DEF IInv, TypeOK, Id
<1>11. LastIsIssued'
  BY <1>1, <1>6, <1>7, <1>8 DEF LastIsIssued
<1>12. RunsGrow'
  <2> SUFFICES ASSUME NEW i \in 1..(n + 1), NEW j \in 1..(n + 1), i < j,
                      Undisturbed(i, j)'
               PROVE  issued'[i].rand < issued'[j].rand
    BY <1>7 DEF RunsGrow
  <2>1. /\ \A k \in i..j : issued'[k].ms = issued'[i].ms
        /\ \A k \in i..(j - 1) : issued'[k].rand # Rands - 1
    BY DEF Undisturbed
  <2>2. i \in 1..n /\ issued'[i] = issued[i]
    BY <1>6, <1>7
  <2>3. ASSUME NEW k \in 1..n, i <= k, k <= j
        PROVE  /\ issued[k].ms = issued[i].ms
               /\ k < j => issued[k].rand # Rands - 1
    BY <1>6, <1>7, <2>1, <2>2, <2>3
  <2>4. CASE j \in 1..n
    <3>1. Undisturbed(i, j)
      BY <1>6, <2>2, <2>3, <2>4 DEF Undisturbed
    <3>2. issued[i].rand < issued[j].rand
      BY <2>2, <2>4, <3>1 DEF IInv, RunsGrow, n
    <3> QED BY <1>7, <2>2, <2>4, <3>2
  <2>5. CASE j = n + 1
    <3>1. n \in 1..n /\ i <= n /\ n < j
      BY <1>6, <2>2, <2>5
    <3>2. issued # <<>>
      BY <1>6, <3>1 DEF n
    <3>3. lastMs = issued[n].ms /\ lastRand = issued[n].rand
      BY <3>2 DEF IInv, LastIsIssued, n
    <3>4. read[c] = issued[i].ms /\ issued[n].ms = issued[i].ms /\ issued[n].rand # Rands - 1
      <4>1. issued'[j].ms = issued'[i].ms
        BY <1>6, <2>1, <2>2, <2>5
      <4> QED BY <1>7, <1>8, <2>2, <2>3, <2>5, <3>1, <4>1
    <3>5. r = Increment(lastRand)
      BY <1>1, <3>3, <3>4
    <3>6. r = issued[n].rand + 1
      BY <1>9, <3>1, <3>3, <3>4, <3>5, IncrementIs
    <3>7. i = n \/ issued[i].rand < issued[n].rand
      <4>1. CASE i < n
        <5>1. Undisturbed(i, n)
          BY <1>6, <2>2, <2>3, <3>1 DEF Undisturbed
        <5> QED BY <2>2, <3>1, <4>1, <5>1 DEF IInv, RunsGrow, n
      <4> QED BY <1>6, <2>2, <3>1, <4>1
    <3> QED
      <4>1. issued[i].rand \in Int /\ issued[n].rand \in Int
        BY <1>9, <2>2, <3>1
      <4>2. issued'[j].rand = r
        BY <1>7, <1>8, <2>5
      <4> QED BY <2>2, <3>6, <3>7, <4>1, <4>2
  <2> QED BY <1>6, <2>4, <2>5
<1>13. TimeGrows'
  <2> SUFFICES ASSUME ~setBack PROVE TimeGrows'
    BY <1>2 DEF TimeGrows
  <2>1. \A d \in Callers : read'[d] = IF d = c THEN -1 ELSE read[d]
    BY <1>2 DEF IInv, TypeOK
  <2>2. clock' = clock /\ clock \in Nat
    BY <1>2, Widths DEF IInv, TypeOK
  <2>3. \A i \in 1..(n + 1) : i \in 1..n \/ i = n + 1
    BY <1>6
  <2>4. (\A d \in Callers : read[d] <= clock)'
    BY <2>1, <2>2 DEF IInv, TimeGrows
  <2>5. ASSUME NEW i \in 1..(n + 1) PROVE issued'[i].ms <= clock
    BY <1>7, <1>8, <2>3, <2>4, <2>2 DEF IInv, TimeGrows, n
  <2>6. ASSUME NEW i \in 1..(n + 1), read'[issued'[i].by] # -1
        PROVE  issued'[i].ms <= read'[issued'[i].by]
    <3>1. i \in 1..n
      BY <1>7, <1>8, <2>1, <2>3, <2>6
    <3>2. issued'[i] = issued[i] /\ issued[i].by \in Callers
      BY <1>7, <1>9, <3>1
    <3> QED BY <2>1, <2>6, <3>1, <3>2 DEF IInv, TimeGrows, n
  <2>7. ASSUME NEW i \in 1..(n + 1), NEW j \in 1..(n + 1), i < j,
               issued'[i].by = issued'[j].by
        PROVE  issued'[i].ms <= issued'[j].ms
    <3>1. i \in 1..n /\ issued'[i] = issued[i]
      BY <1>6, <1>7, <2>7
    <3>2. CASE j \in 1..n
      BY <1>7, <2>7, <3>1, <3>2 DEF IInv, TimeGrows, n
    <3>3. CASE j = n + 1
      BY <1>2, <1>7, <1>8, <2>7, <3>1, <3>3 DEF IInv, TimeGrows, n
    <3> QED BY <2>3, <3>2, <3>3
  <2> QED BY <1>7, <2>2, <2>4, <2>5, <2>6, <2>7 DEF TimeGrows
<1> QED BY <1>10, <1>11, <1>12, <1>13 DEF IInv
-----------------------------------------------------------------------------
\* The inductive invariant: every step of every caller and of the clock.
THEOREM NextIInv == IInv /\ [Next]_vars => IInv'
<1> SUFFICES ASSUME IInv, [Next]_vars PROVE IInv'
  OBVIOUS
<1>1. CASE Tick
  BY <1>1, TickKeeps
<1>2. ASSUME NEW c \in Callers, New(c) \/ NewAt(c) PROVE IInv'
  BY <1>2, NewKeeps, NewAtKeeps
<1>3. CASE UNCHANGED vars
  BY <1>3 DEF vars, IInv, TypeOK, LastIsIssued, RunsGrow, Undisturbed, TimeGrows
<1> QED BY <1>1, <1>2, <1>3 DEF Next

\* So every reachable state has the invariant.
THEOREM UlidInvariant == Spec => []IInv
<1> QED BY InitIInv, NextIInv, PTL DEF Spec

\* Every identifier holds a millisecond and a random part of its width: the
\* increment of ulid.increment never leaves the bytes.
THEOREM TypeCorrect == Spec => []TypeOK
<1>1. IInv => TypeOK
  BY DEF IInv
<1> QED BY <1>1, UlidInvariant, PTL

\* The identifiers of one caller grow, unless the clock was set back, another
\* caller's stale reading came between, or the random part started over: what
\* ulid.New promises, with the cases where it does not.
THEOREM IdsGrow == Spec => []CallersIdsGrow
<1>1. IInv => CallersIdsGrow
  <2> SUFFICES ASSUME IInv, NEW i \in 1..Len(issued), NEW j \in 1..Len(issued),
                      i < j, issued[i].by = issued[j].by, ~setBack,
                      issued[i].ms = issued[j].ms => Undisturbed(i, j)
               PROVE  Sorts(issued[i], issued[j])
    BY DEF CallersIdsGrow
  <2>1. issued[i].ms <= issued[j].ms
    BY DEF IInv, TimeGrows
  <2>2. issued[i].ms \in Nat /\ issued[j].ms \in Nat
    BY Typed DEF IInv
  <2>3. CASE issued[i].ms = issued[j].ms
    BY <2>3 DEF IInv, RunsGrow, Sorts
  <2>4. CASE issued[i].ms < issued[j].ms
    BY <2>4 DEF Sorts
  <2> QED BY <2>1, <2>2, <2>3, <2>4
<1> QED BY <1>1, UlidInvariant, PTL

-----------------------------------------------------------------------------
(***************************************************************************)
(* encode.  Value is the number the bytes stand for; a character is        *)
(* DigitBits of it, and the loop has taken them from the low end: Closed   *)
(* is what it has after k bytes.                                           *)
(***************************************************************************)
IsId(id) == id.ms \in Millis /\ id.rand \in 0..(Rands - 1)
Value(id) == Rands * id.ms + id.rand
Chars(v, j) == [i \in 1..j |-> Bits(v, DigitBits * (j - i), DigitBits)]
Closed(v, k) ==
    LET bits == (ByteBits * k) % DigitBits
        j == (ByteBits * k) \div DigitBits
    IN [acc |-> Bits(v, DigitBits * j, bits), bits |-> bits, out |-> Chars(v, j)]

LEMMA BitsNat == \A v, lo, n \in Nat : Bits(v, lo, n) \in Nat
<1> SUFFICES ASSUME NEW v \in Nat, NEW lo \in Nat, NEW n \in Nat PROVE Bits(v, lo, n) \in Nat
  OBVIOUS
<1>1. Bits(v, lo, n) \in 0..(Pow[n] - 1)
  BY BitsAre
<1> QED BY <1>1

\* A function on 1..n is a sequence, and one sequence after another.
LEMMA NatSeq ==
    ASSUME NEW n \in Nat, NEW f, f = [i \in 1..n |-> f[i]], \A i \in 1..n : f[i] \in Nat
    PROVE  f \in Seq(Nat) /\ Len(f) = n
OBVIOUS

LEMMA SeqCat ==
    ASSUME NEW f \in Seq(Nat), NEW g \in Seq(Nat)
    PROVE  /\ f \o g \in Seq(Nat) /\ Len(f \o g) = Len(f) + Len(g)
           /\ \A i \in 1..(Len(f) + Len(g)) :
                 (f \o g)[i] = IF i <= Len(f) THEN f[i] ELSE g[i - Len(f)]
OBVIOUS

LEMMA SeqSame ==
    ASSUME NEW f \in Seq(Nat), NEW g \in Seq(Nat), Len(f) = Len(g),
           \A i \in 1..Len(f) : f[i] = g[i]
    PROVE  f = g
OBVIOUS

LEMMA ValueIs ==
    ASSUME NEW id, IsId(id)
    PROVE  /\ id.ms \in Nat /\ id.rand \in Nat
           /\ Value(id) \in Nat /\ Value(id) < Pow[ByteBits * Width]
           /\ Value(id) \div Rands = id.ms /\ Value(id) % Rands = id.rand
<1> DEFINE m == Pow[ByteBits * MsBytes]
<1>1. ByteBits * MsBytes \in Nat /\ ByteBits * RandBytes \in Nat
  BY UlidAssumption
<1>2. m \in Nat \ {0} /\ Rands \in Nat \ {0}
  BY <1>1, PowIs DEF Rands
<1>3. id.ms \in 0..(m - 1) /\ id.rand \in 0..(Rands - 1)
  BY DEF IsId, Millis
<1>4. ByteBits * Width = ByteBits * RandBytes + ByteBits * MsBytes
  BY UlidAssumption DEF Width
<1>5. Pow[ByteBits * Width] = Rands * m
  BY <1>1, <1>4, PowAdd DEF Rands
<1> HIDE DEF m
<1>6. id.ms \in Nat /\ id.ms < m /\ id.rand \in Nat
  BY <1>2, <1>3
<1>7. Rands * id.ms + Rands <= Rands * m
  BY <1>2, <1>6, ProductGrows
<1>8. Value(id) \in Nat /\ Value(id) < Rands * m
  BY <1>2, <1>3, <1>6, <1>7 DEF Value
<1>9. Value(id) \div Rands = id.ms /\ Value(id) % Rands = id.rand
  BY <1>2, <1>3, <1>6, DivUnique DEF Value
<1> QED BY <1>5, <1>6, <1>8, <1>9

\* The bytes, one after the other, are those of the number.
LEMMA RawIs ==
    ASSUME NEW id, IsId(id), NEW k \in 1..Width
    PROVE  Raw(id)[k] = Bits(Value(id), ByteBits * (Width - k), ByteBits)
<1> DEFINE v == Value(id)
           hi == Bytes(id.ms, MsBytes)
           lo == Bytes(id.rand, RandBytes)
<1>1. v \in Nat /\ v \div Rands = id.ms /\ v % Rands = id.rand
  BY ValueIs
<1>2. /\ ByteBits \in Nat \ {0} /\ MsBytes \in Nat /\ RandBytes \in Nat
      /\ ByteBits * RandBytes \in Nat /\ Width = MsBytes + RandBytes
  BY UlidAssumption DEF Width
<1>3. hi \in Seq(Nat) /\ Len(hi) = MsBytes /\ lo \in Seq(Nat) /\ Len(lo) = RandBytes
  <2>1. \A i \in 1..MsBytes : ByteBits * (MsBytes - i) \in Nat
    BY <1>2
  <2>2. \A i \in 1..RandBytes : ByteBits * (RandBytes - i) \in Nat
    BY <1>2
  <2>3. id.ms \in Nat /\ id.rand \in Nat
    BY ValueIs
  <2>4. \A a, l \in Nat : Bits(a, l, ByteBits) \in Nat
    BY <1>2, BitsNat
  <2>5. \A i \in 1..MsBytes : Bits(id.ms, ByteBits * (MsBytes - i), ByteBits) \in Nat
    BY <2>1, <2>3, <2>4
  <2>6. \A i \in 1..RandBytes : Bits(id.rand, ByteBits * (RandBytes - i), ByteBits) \in Nat
    BY <2>2, <2>3, <2>4
  <2>7. /\ hi = [i \in 1..MsBytes |-> Bits(id.ms, ByteBits * (MsBytes - i), ByteBits)]
        /\ lo = [i \in 1..RandBytes |-> Bits(id.rand, ByteBits * (RandBytes - i), ByteBits)]
    BY DEF Bytes, Bits
  <2> HIDE DEF hi, lo
  <2>8. /\ hi = [i \in 1..MsBytes |-> hi[i]] /\ \A i \in 1..MsBytes : hi[i] \in Nat
        /\ lo = [i \in 1..RandBytes |-> lo[i]] /\ \A i \in 1..RandBytes : lo[i] \in Nat
    BY <2>5, <2>6, <2>7
  <2> QED BY <1>2, <2>8, NatSeq
<1>4. Raw(id)[k] = IF k <= MsBytes THEN hi[k] ELSE lo[k - MsBytes]
  <2>1. Raw(id) = hi \o lo
    BY DEF Raw
  <2>2. k \in 1..(MsBytes + RandBytes)
    BY <1>2
  <2> HIDE DEF hi, lo
  <2> QED BY <1>3, <2>1, <2>2, SeqCat
<1>5. CASE k <= MsBytes
  <2> DEFINE e == ByteBits * (MsBytes - k)
  <2>1. e \in Nat /\ ByteBits * RandBytes + e = ByteBits * (Width - k)
    BY <1>2, <1>5
  <2>2. hi[k] = Bits(id.ms, e, ByteBits)
    BY <1>2, <1>5 DEF Bytes, Bits
  <2> HIDE DEF e, v
  <2>3. id.ms \div Pow[e] = v \div Pow[ByteBits * RandBytes + e]
    BY <1>1, <1>2, <2>1, DivPow DEF Rands
  <2> QED BY <1>4, <1>5, <2>1, <2>2, <2>3 DEF Bits, v
<1>6. CASE k > MsBytes
  <2> DEFINE e == ByteBits * (Width - k)
  <2>1. e \in 0..(ByteBits * RandBytes) /\ ByteBits \in 0..(ByteBits * RandBytes - e)
    <3>1. Width - k \in Nat /\ Width - k + 1 <= RandBytes
      BY <1>2, <1>6
    <3>2. ByteBits * (Width - k) + ByteBits <= ByteBits * RandBytes
      BY <1>2, <3>1
    <3>3. ByteBits * (Width - k) \in Nat
      BY <1>2, <3>1
    <3> QED BY <1>2, <3>2, <3>3
  <2>2. lo[k - MsBytes] = Bits(id.rand, e, ByteBits)
    <3>1. k - MsBytes \in 1..RandBytes /\ RandBytes - (k - MsBytes) = Width - k
      BY <1>2, <1>6
    <3> QED BY <3>1 DEF Bytes, Bits
  <2>3. id.rand = Bits(v, 0, ByteBits * RandBytes)
    <3>1. v \div Pow[0] = v
      BY <1>1, PowIs
    <3> QED BY <1>1, <3>1 DEF Bits, Rands
  <2> HIDE DEF e, v
  <2>4. (Bits(v, 0, ByteBits * RandBytes) \div Pow[e]) % Pow[ByteBits] = Bits(v, 0 + e, ByteBits)
    BY <1>1, <1>2, <2>1, BitsOfBits
  <2>5. 0 + e = e
    BY <2>1
  <2>6. Bits(id.rand, e, ByteBits) = Bits(v, e, ByteBits)
    BY <2>3, <2>4, <2>5 DEF Bits
  <2>7. Raw(id)[k] = lo[k - MsBytes]
    BY <1>2, <1>4, <1>6
  <2> QED BY <2>2, <2>6, <2>7 DEF e, v
<1> QED BY <1>2, <1>5, <1>6

LEMMA CharsAre ==
    ASSUME NEW v \in Nat, NEW j \in Nat
    PROVE  /\ Chars(v, j) \in Seq(Nat) /\ Len(Chars(v, j)) = j
           /\ \A i \in 1..j : Chars(v, j)[i] = Bits(v, DigitBits * (j - i), DigitBits)
<1> DEFINE f == Chars(v, j)
<1>1. f = [i \in 1..j |-> f[i]] /\ \A i \in 1..j : f[i] = Bits(v, DigitBits * (j - i), DigitBits)
  BY DEF Chars
<1>2. \A i \in 1..j : DigitBits * (j - i) \in Nat /\ DigitBits \in Nat
  BY UlidAssumption
<1> HIDE DEF f
<1>3. \A i \in 1..j : f[i] \in Nat
  BY <1>1, <1>2, BitsNat
<1>4. f \in Seq(Nat) /\ Len(f) = j
  BY <1>1, <1>3, NatSeq
<1> QED BY <1>1, <1>4 DEF f

\* New characters go before those there are.
LEMMA CharsJoin ==
    ASSUME NEW v \in Nat, NEW j \in Nat, NEW n \in Nat
    PROVE  [i \in 1..n |-> Bits(v, DigitBits * (j + n - i), DigitBits)] \o Chars(v, j) = Chars(v, j + n)
<1> DEFINE f == [i \in 1..n |-> Bits(v, DigitBits * (j + n - i), DigitBits)]
           g == Chars(v, j)
           h == Chars(v, j + n)
<1>1. DigitBits \in Nat /\ \A a, l \in Nat : Bits(a, l, DigitBits) \in Nat
  BY UlidAssumption, BitsNat
<1>2. /\ \A i \in 1..n : DigitBits * (j + n - i) \in Nat
      /\ \A i \in 1..j : DigitBits * (j - i) \in Nat
      /\ \A i \in 1..(j + n) : DigitBits * (j + n - i) \in Nat
  BY <1>1
<1>3. /\ \A i \in 1..n : f[i] = Bits(v, DigitBits * (j + n - i), DigitBits)
      /\ \A i \in 1..j : g[i] = Bits(v, DigitBits * (j - i), DigitBits)
      /\ \A i \in 1..(j + n) : h[i] = Bits(v, DigitBits * (j + n - i), DigitBits)
  BY DEF Chars
<1>4. /\ f = [i \in 1..n |-> f[i]] /\ g = [i \in 1..j |-> g[i]] /\ h = [i \in 1..(j + n) |-> h[i]]
      /\ \A i \in 1..n : f[i] \in Nat
      /\ \A i \in 1..j : g[i] \in Nat
      /\ \A i \in 1..(j + n) : h[i] \in Nat
  BY <1>1, <1>2, <1>3 DEF Chars
<1> HIDE DEF f, g, h
<1>5. f \in Seq(Nat) /\ Len(f) = n /\ g \in Seq(Nat) /\ Len(g) = j /\ h \in Seq(Nat) /\ Len(h) = j + n
  <2>1. j + n \in Nat
    OBVIOUS
  <2> QED BY <1>4, <2>1, NatSeq
<1>6. /\ f \o g \in Seq(Nat) /\ Len(f \o g) = n + j
      /\ \A i \in 1..(n + j) : (f \o g)[i] = IF i <= n THEN f[i] ELSE g[i - n]
  <2>1. /\ f \o g \in Seq(Nat) /\ Len(f \o g) = Len(f) + Len(g)
        /\ \A i \in 1..(Len(f) + Len(g)) : (f \o g)[i] = IF i <= Len(f) THEN f[i] ELSE g[i - Len(f)]
    BY <1>5, SeqCat
  <2> QED BY <1>5, <2>1
<1>7. ASSUME NEW i \in 1..(j + n) PROVE (f \o g)[i] = h[i]
  <2>1. CASE i <= n
    <3>1. i \in 1..(n + j) /\ i \in 1..n
      BY <2>1
    <3>2. (f \o g)[i] = f[i]
      BY <1>6, <2>1, <3>1
    <3>3. f[i] = Bits(v, DigitBits * (j + n - i), DigitBits)
      BY <1>3, <3>1
    <3>4. h[i] = Bits(v, DigitBits * (j + n - i), DigitBits)
      BY <1>3
    <3> QED BY <3>2, <3>3, <3>4, Zenon
  <2>2. CASE i > n
    <3>1. i - n \in 1..j /\ j - (i - n) = j + n - i
      BY <2>2
    <3>2. (f \o g)[i] = g[i - n]
      <4>1. i \in 1..(n + j) /\ ~(i <= n)
        BY <2>2
      <4> QED BY <1>6, <4>1
    <3> QED BY <1>3, <3>1, <3>2
  <2>3. i <= n \/ i > n
    OBVIOUS
  <2> QED BY <2>1, <2>2, <2>3, Zenon
<1>8. f \o g = h
  <2>1. Len(f \o g) = Len(h) /\ \A i \in 1..Len(f \o g) : (f \o g)[i] = h[i]
    BY <1>5, <1>6, <1>7
  <2> QED BY <1>5, <1>6, <2>1, SeqSame
<1> QED BY <1>8 DEF f, g, h

\* One more byte: what is left over and the byte are the bits from the last
\* character on, and whole characters are cut from their low end.
LEMMA StepIs ==
    ASSUME NEW v \in Nat, NEW k \in Nat
    PROVE  TakeByte(Bits(v, ByteBits * k, ByteBits), Closed(v, k)) = Closed(v, k + 1)
<1> DEFINE L == ByteBits * k
           d == DigitBits
           r == L % d
           j == L \div d
           t == r + ByteBits
           n == t \div d
           s == t % d
           acc == Bits(v, d * j, t)
<1>1. ByteBits \in Nat \ {0} /\ d \in Nat \ {0} /\ L \in Nat /\ ByteBits * (k + 1) = L + ByteBits
  BY UlidAssumption
<1> HIDE DEF L, d
<1>2. r \in 0..(d - 1) /\ j \in Nat /\ L = d * j + r
  BY <1>1
<1> HIDE DEF r, j
<1>3. t \in Nat /\ n \in Nat /\ s \in 0..(d - 1) /\ t = d * n + s
  BY <1>1, <1>2
<1>4. (L + ByteBits) \div d = j + n /\ (L + ByteBits) % d = s
  <2>1. L + ByteBits = d * (j + n) + s
    BY <1>1, <1>2, <1>3
  <2>2. j + n \in Nat
    BY <1>2, <1>3
  <2> HIDE DEF n, s, t
  <2>3. (d * (j + n) + s) \div d = j + n /\ (d * (j + n) + s) % d = s
    BY <1>1, <1>3, <2>2, DivUnique
  <2> QED BY <2>1, <2>3
<1>5. d * j \in Nat /\ d * n \in Nat /\ d * j + d * n = d * (j + n) /\ d * n \in 0..t /\ t - d * n = s
  BY <1>1, <1>2, <1>3
<1>6. Bits(v, d * j, r) + Bits(v, L, ByteBits) * Pow[r] = acc
  <2>1. r \in Nat /\ ByteBits \in Nat
    BY <1>1, <1>2
  <2> HIDE DEF n, s
  <2>2. Bits(v, d * j, r) + Bits(v, d * j + r, ByteBits) * Pow[r] = Bits(v, d * j, r + ByteBits)
    BY <1>5, <2>1, BitsJoin
  <2> QED BY <1>2, <2>2
<1> HIDE DEF t, n, s
<1>7. acc \div Pow[d * n] = Bits(v, d * (j + n), s)
  <2> DEFINE x == d * j
             y == d * n
  <2>1. x \in Nat /\ t \in Nat /\ y \in 0..t /\ x + y = d * (j + n) /\ t - y = s
    BY <1>3, <1>5
  <2> HIDE DEF x, y
  <2>2. Bits(v, x, t) \div Pow[y] = Bits(v, x + y, t - y)
    BY <2>1, BitsOfBits
  <2> QED BY <2>1, <2>2 DEF x, y
<1>8. ASSUME NEW i \in 1..n
      PROVE  (acc \div Pow[d * (n - i)]) % Pow[d] = Bits(v, d * (j + n - i), d)
  <2> DEFINE a == d * (n - i)
  <2>1. n - i \in Nat /\ n - i + 1 <= n
    BY <1>3
  <2>2. a \in Nat /\ a + d <= d * n
    BY <1>1, <1>3, <2>1
  <2>3. a \in 0..t /\ d \in 0..(t - a) /\ d * j + a = d * (j + n - i)
    <3>1. d * j + d * (n - i) = d * (j + n - i)
      BY <1>1, <1>2, <1>3
    <3> HIDE DEF a
    <3>2. a \in 0..t /\ d \in 0..(t - a)
      BY <1>1, <1>3, <1>5, <2>2
    <3> QED BY <3>1, <3>2 DEF a
  <2> HIDE DEF a
  <2>4. (acc \div Pow[a]) % Pow[d] = Bits(v, d * j + a, d)
    <3> DEFINE x == d * j
    <3>1. x \in Nat
      BY <1>5
    <3> HIDE DEF x
    <3>2. (Bits(v, x, t) \div Pow[a]) % Pow[d] = Bits(v, x + a, d)
      BY <1>3, <2>3, <3>1, BitsOfBits
    <3> QED BY <3>2 DEF x
  <2> QED BY <2>3, <2>4 DEF a
<1> DEFINE new == [i \in 1..n |-> (acc \div Pow[d * (n - i)]) % Pow[d]]
<1>9. new \o Chars(v, j) = Chars(v, j + n)
  <2>1. [i \in 1..n |-> Bits(v, d * (j + n - i), d)] \o Chars(v, j) = Chars(v, j + n)
    BY <1>2, <1>3, CharsJoin DEF d
  <2>2. new = [i \in 1..n |-> Bits(v, d * (j + n - i), d)]
    BY <1>8
  <2> QED BY <2>1, <2>2
<1>10. Closed(v, k) = [acc |-> Bits(v, d * j, r), bits |-> r, out |-> Chars(v, j)]
  BY DEF Closed, L, d, j, r
<1>11. Closed(v, k + 1) = [acc |-> Bits(v, d * (j + n), s), bits |-> s, out |-> Chars(v, j + n)]
  BY <1>1, <1>4 DEF Closed, d
<1>12. TakeByte(Bits(v, L, ByteBits), Closed(v, k)) =
          [acc |-> acc \div Pow[d * n], bits |-> s, out |-> new \o Chars(v, j)]
  <2> DEFINE c == Closed(v, k)
  <2>1. c.acc = Bits(v, d * j, r) /\ c.bits = r /\ c.out = Chars(v, j)
    BY <1>10
  <2> HIDE DEF c
  <2>2. c.acc + Bits(v, L, ByteBits) * Pow[c.bits] = acc /\ c.bits + ByteBits = t
    BY <1>6, <2>1 DEF t
  <2> QED BY <2>1, <2>2, Zenon DEF TakeByte, n, s, d, c
<1> QED BY <1>7, <1>9, <1>11, <1>12 DEF L

\* The loop has after k bytes what Closed says.
LEMMA TakenIs ==
    ASSUME NEW id, IsId(id), NEW k \in 0..Width
    PROVE  Taken(Raw(id))[k] = Closed(Value(id), k)
<1> DEFINE v == Value(id)
           raw == Raw(id)
           start == [acc |-> 0, bits |-> 0, out |-> <<>>]
           closed == [i \in 0..Width |-> Closed(v, i)]
<1>1. v \in Nat /\ Width \in Nat
  BY ValueIs, UlidAssumption DEF Width
<1>2. \A i \in 1..Width : i - 1 \in Nat /\ i - 1 \in 0..Width /\ i - 1 + 1 = i /\ Width + 1 - i \in 1..Width
                          /\ Width - (Width + 1 - i) = i - 1
  BY <1>1
<1>3. \A i \in 1..Width : raw[Width + 1 - i] = Bits(v, ByteBits * (i - 1), ByteBits)
  BY <1>2, RawIs
<1> HIDE DEF v, raw
<1>4. \A i \in 1..Width : TakeByte(raw[Width + 1 - i], Closed(v, i - 1)) = Closed(v, i)
  <2> SUFFICES ASSUME NEW i \in 1..Width
               PROVE  TakeByte(raw[Width + 1 - i], Closed(v, i - 1)) = Closed(v, i)
    OBVIOUS
  <2> DEFINE h == i - 1
  <2>1. h \in Nat /\ h + 1 = i /\ raw[Width + 1 - i] = Bits(v, ByteBits * h, ByteBits)
    BY <1>2, <1>3
  <2> HIDE DEF h
  <2>2. TakeByte(Bits(v, ByteBits * h, ByteBits), Closed(v, h)) = Closed(v, h + 1)
    BY <1>1, <2>1, StepIs
  <2> QED BY <2>1, <2>2 DEF h
<1>5. Closed(v, 0) = start
  <2>1. ByteBits * 0 = 0 /\ DigitBits \in Nat \ {0}
    BY UlidAssumption
  <2>2. \A m \in Nat \ {0} : 0 % m = 0 /\ 0 \div m = 0
    OBVIOUS
  <2>3. (ByteBits * 0) % DigitBits = 0 /\ (ByteBits * 0) \div DigitBits = 0
    BY <2>1, <2>2
  <2>4. DigitBits * 0 = 0
    BY <2>1
  <2>5. Bits(v, 0, 0) = 0
    BY <1>1, BitsAre
  <2>6. Chars(v, 0) = <<>>
    BY DEF Chars
  <2> QED BY <2>3, <2>4, <2>5, <2>6 DEF Closed
<1> DEFINE After(f) == f = [i \in 0..Width |-> IF i = 0 THEN start
                                                ELSE TakeByte(raw[Width + 1 - i], f[i - 1])]
<1>6. After(closed)
  <2>1. \A i \in 0..Width : closed[i] = IF i = 0 THEN start ELSE TakeByte(raw[Width + 1 - i], closed[i - 1])
    <3> SUFFICES ASSUME NEW i \in 0..Width
                 PROVE  closed[i] = IF i = 0 THEN start ELSE TakeByte(raw[Width + 1 - i], closed[i - 1])
      OBVIOUS
    <3>1. closed[i] = Closed(v, i)
      OBVIOUS
    <3>2. CASE i = 0
      BY <1>5, <3>1, <3>2
    <3>3. CASE i # 0
      <4>1. i \in 1..Width
        BY <3>3
      <4>2. closed[i - 1] = Closed(v, i - 1)
        BY <1>2, <4>1
      <4> QED BY <1>4, <3>1, <3>3, <4>1, <4>2
    <3> QED BY <3>2, <3>3
  <2>2. closed = [i \in 0..Width |-> closed[i]]
    OBVIOUS
  <2> HIDE DEF closed
  <2> QED BY <2>1, <2>2
<1> DEFINE t == Taken(raw)
<1>7. After(t)
  <2>1. t = CHOOSE f : After(f)
    BY DEF Taken
  <2> HIDE DEF After, t
  <2> QED BY <1>6, <2>1
<1>8. \A i \in 0..Width : t[i] = IF i = 0 THEN start ELSE TakeByte(raw[Width + 1 - i], t[i - 1])
  <2> HIDE DEF t
  <2> QED BY <1>7
<1> HIDE DEF t, After, start
<1> DEFINE T == {i \in Nat : i <= Width => t[i] = Closed(v, i)}
<1>9. 0 \in T
  BY <1>1, <1>5, <1>8
<1>10. ASSUME NEW i \in Nat, i \in T PROVE i + 1 \in T
  <2> SUFFICES ASSUME i + 1 <= Width PROVE t[i + 1] = Closed(v, i + 1)
    OBVIOUS
  <2> DEFINE h == i + 1
  <2>1. h \in 1..Width /\ h \in 0..Width /\ h # 0 /\ h - 1 = i /\ i <= Width
    BY <1>1
  <2> HIDE DEF h
  <2>2. t[h] = TakeByte(raw[Width + 1 - h], t[h - 1])
    BY <1>8, <2>1
  <2>3. t[h - 1] = Closed(v, h - 1)
    BY <1>10, <2>1
  <2> QED BY <1>4, <2>1, <2>2, <2>3 DEF h
<1> HIDE DEF T
<1>11. \A i \in Nat : i \in T
  BY <1>9, <1>10, Climb
<1>12. k \in Nat /\ k <= Width
  BY <1>1
<1> QED BY <1>11, <1>12 DEF T, t, v, raw

\* Every character of an identifier is DigitBits of its number, the first ones
\* of the high end: what is left over makes the first character.
LEMMA EncodeIs ==
    ASSUME NEW id, IsId(id), NEW i \in 1..Digits
    PROVE  Encode(id)[i] = Bits(Value(id), DigitBits * (Digits - i), DigitBits)
<1> DEFINE v == Value(id)
           L == ByteBits * Width
           d == DigitBits
           j == L \div d
           r == L % d
<1>1. v \in Nat /\ v < Pow[L] /\ Taken(Raw(id))[Width] = Closed(v, Width)
  <2>1. Width \in 0..Width
    BY UlidAssumption DEF Width
  <2> QED BY <2>1, ValueIs, TakenIs
<1>2. L \in Nat /\ d \in Nat \ {0}
  BY UlidAssumption DEF Width
<1>3. Closed(v, Width) = [acc |-> Bits(v, d * j, r), bits |-> r, out |-> Chars(v, j)]
  BY DEF Closed
<1>4. Digits = (L + d - 1) \div d
  BY DEF Digits
<1> HIDE DEF L, v, d
<1>5. j \in Nat /\ r \in 0..(d - 1) /\ L = d * j + r
  BY <1>2
<1> HIDE DEF j, r
<1>6. /\ Chars(v, j) \in Seq(Nat) /\ Len(Chars(v, j)) = j
      /\ \A k \in 1..j : Chars(v, j)[k] = Bits(v, d * (j - k), d)
  BY <1>1, <1>5, CharsAre DEF d
<1> DEFINE s == Closed(v, Width)
<1>7. s.acc = Bits(v, d * j, r) /\ s.out = Chars(v, j)
  BY <1>3
<1> HIDE DEF s
<1>8. Encode(id) = IF Len(s.out) < Digits THEN <<s.acc % Pow[d]>> \o s.out ELSE s.out
  BY <1>1, Zenon DEF Encode, d, s
<1>9. CASE r = 0
  <2>1. L + d - 1 = d * j + (d - 1) /\ d - 1 \in 0..(d - 1)
    BY <1>2, <1>5, <1>9
  <2>2. Digits = j
    BY <1>2, <1>4, <1>5, <2>1, DivUnique
  <2>3. Encode(id) = Chars(v, j)
    BY <1>5, <1>6, <1>7, <1>8, <2>2
  <2> QED BY <1>6, <2>2, <2>3 DEF v, d
<1>10. CASE r # 0
  <2>1. L + d - 1 = d * (j + 1) + (r - 1) /\ r - 1 \in 0..(d - 1) /\ j + 1 \in Nat
    BY <1>2, <1>5, <1>10
  <2>2. Digits = j + 1
    BY <1>2, <1>4, <2>1, DivUnique
  <2>3. Encode(id) = <<s.acc % Pow[d]>> \o Chars(v, j)
    BY <1>5, <1>6, <1>7, <1>8, <2>2
  <2>4. d * j \in Nat /\ r \in Nat /\ r \in 0..d
    BY <1>2, <1>5
  <2>5. v \div Pow[d * j] < Pow[r]
    <3> DEFINE p == Pow[d * j]
               w == Pow[r]
               q == v \div p
    <3>1. p \in Nat \ {0} /\ w \in Nat \ {0} /\ v < p * w
      BY <1>1, <1>5, <2>4, PowIs, PowAdd
    <3> HIDE DEF p, w
    <3>2. q \in Nat /\ v % p \in Nat /\ v = p * q + (v % p)
      BY <1>1, <3>1
    <3> HIDE DEF q
    <3>3. p * q <= v /\ p * q \in Nat /\ p * w \in Nat
      BY <1>1, <3>1, <3>2
    <3>4. w # q
      BY <1>1, <3>1, <3>3
    <3>5. ~(w < q)
      <4> SUFFICES ASSUME w < q PROVE FALSE
        OBVIOUS
      <4>1. p * w + p <= p * q
        BY <3>1, <3>2, ProductGrows
      <4> QED BY <1>1, <3>1, <3>3, <4>1
    <3> QED BY <3>1, <3>2, <3>4, <3>5 DEF p, q, w
  <2>6. Bits(v, d * j, r) = v \div Pow[d * j] /\ Bits(v, d * j, d) = v \div Pow[d * j]
    <3> DEFINE q == v \div Pow[d * j]
    <3>1. Pow[r] \in Nat \ {0} /\ Pow[d - r] \in Nat \ {0} /\ Pow[d] = Pow[r] * Pow[d - r] /\ q \in Nat
      <4>1. d - r \in Nat /\ r + (d - r) = d
        BY <1>2, <2>4
      <4> QED BY <1>1, <2>4, <4>1, PowIs, PowAdd, QuotientIs
    <3> HIDE DEF q
    <3>2. q < Pow[r] /\ q < Pow[d] /\ Pow[d] \in Nat \ {0}
      <4>1. \A a, b \in Nat \ {0} : a <= a * b /\ a * b \in Nat \ {0}
        OBVIOUS
      <4>2. Pow[r] <= Pow[r] * Pow[d - r] /\ Pow[r] * Pow[d - r] \in Nat \ {0}
        BY <3>1, <4>1
      <4>3. q < Pow[r]
        BY <2>5 DEF q
      <4> QED BY <3>1, <4>2, <4>3
    <3>3. \A m \in Nat \ {0} : q < m => q % m = q
      BY <3>1
    <3> QED BY <3>1, <3>2, <3>3 DEF q, Bits
  <2>7. s.acc % Pow[d] = Bits(v, d * j, d)
    BY <1>7, <2>6 DEF Bits
  <2>8. CASE i = 1
    <3>1. Encode(id)[1] = s.acc % Pow[d]
      <4>1. s.acc % Pow[d] \in Nat
        BY <1>1, <1>2, <2>4, <2>7, BitsNat
      <4> QED BY <1>6, <2>3, <4>1
    <3>2. Digits - i = j
      BY <1>5, <2>2, <2>8
    <3> QED BY <2>7, <2>8, <3>1, <3>2 DEF v, d
  <2>9. CASE i # 1
    <3>1. i - 1 \in 1..j /\ j - (i - 1) = Digits - i
      BY <1>5, <2>2, <2>9
    <3>2. Encode(id)[i] = Chars(v, j)[i - 1]
      <4> DEFINE one == <<s.acc % Pow[d]>>
                 out == Chars(v, j)
      <4>1. one \in Seq(Nat) /\ Len(one) = 1
        <5>1. s.acc % Pow[d] \in Nat
          BY <1>1, <1>2, <2>4, <2>7, BitsNat
        <5> QED BY <5>1
      <4>2. out \in Seq(Nat) /\ Len(out) = j
        BY <1>6
      <4>3. Encode(id) = one \o out
        BY <2>3
      <4> HIDE DEF one, out
      <4>4. \A k \in 1..(Len(one) + Len(out)) :
               (one \o out)[k] = IF k <= Len(one) THEN one[k] ELSE out[k - Len(one)]
        BY <4>1, <4>2, SeqCat
      <4>5. i \in 1..(1 + j) /\ ~(i <= 1)
        BY <1>5, <2>2, <2>9
      <4>6. (one \o out)[i] = out[i - 1]
        BY <4>1, <4>2, <4>4, <4>5
      <4> QED BY <4>3, <4>6 DEF out
    <3> QED BY <1>6, <3>1, <3>2 DEF v, d
  <2> QED BY <2>8, <2>9
<1> QED BY <1>9, <1>10
-----------------------------------------------------------------------------
(***************************************************************************)
(* The order of the characters is that of the numbers.  Prefix(x, k) is    *)
(* what the first k characters say: two numbers first differ in the        *)
(* character at which their prefixes first differ.                         *)
(***************************************************************************)
Prefix(x, k) == x \div Pow[DigitBits * (Digits - k)]
Char(x, k) == Bits(x, DigitBits * (Digits - k), DigitBits)
Fits(x) == x \in Nat /\ x < Pow[DigitBits * Digits]

LEMMA DigitsAre ==
    /\ DigitBits \in Nat \ {0} /\ Digits \in Nat
    /\ ByteBits * Width \in Nat /\ ByteBits * Width <= DigitBits * Digits
<1> DEFINE L == ByteBits * Width
           d == DigitBits
           j == (L + d - 1) \div d
           r == (L + d - 1) % d
<1>1. L \in Nat /\ d \in Nat \ {0}
  BY UlidAssumption DEF Width
<1>2. Digits = j
  BY DEF Digits
<1> HIDE DEF L, d
<1>3. j \in Nat /\ r \in 0..(d - 1) /\ L + d - 1 = d * j + r
  BY <1>1
<1> HIDE DEF j, r
<1>4. L <= d * j
  BY <1>1, <1>3
<1> QED BY <1>1, <1>2, <1>3, <1>4 DEF L, d

\* A longer prefix is the shorter and one more character.
LEMMA PrefixIs ==
    ASSUME NEW x, Fits(x), NEW k \in 1..Digits
    PROVE  /\ Prefix(x, k) \in Nat /\ Prefix(x, k - 1) \in Nat /\ Char(x, k) \in Nat
           /\ Prefix(x, k) = Pow[DigitBits] * Prefix(x, k - 1) + Char(x, k)
<1> DEFINE d == DigitBits
           lo == d * (Digits - k)
           y == x \div Pow[lo]
           p == Pow[d]
<1>1. d \in Nat /\ lo \in Nat /\ d * (Digits - (k - 1)) = lo + d /\ x \in Nat
  BY DigitsAre DEF Fits
<1> HIDE DEF d, lo
<1>2. p \in Nat \ {0} /\ y \in Nat /\ x \div Pow[lo + d] = y \div p
  <2>1. Pow[d] \in Nat \ {0} /\ x \div Pow[lo] \in Nat /\ x \div Pow[lo + d] = (x \div Pow[lo]) \div Pow[d]
    <3>1. d \in Nat /\ lo \in Nat /\ x \in Nat
      BY <1>1
    <3> HIDE DEF y, p
    <3>2. Pow[d] \in Nat \ {0} /\ x \div Pow[lo] \in Nat
      BY <3>1, DivPow
    <3>3. x \div Pow[lo + d] = (x \div Pow[lo]) \div Pow[d]
      BY <3>1, DivPow
    <3> QED BY <3>2, <3>3
  <2> QED BY <2>1
<1>3. Prefix(x, k) = y /\ Prefix(x, k - 1) = y \div p /\ Char(x, k) = y % p
  BY <1>1, <1>2 DEF Prefix, Char, Bits, lo, d
<1> HIDE DEF y, p
<1>4. y \div p \in Nat /\ y % p \in Nat /\ y = p * (y \div p) + (y % p)
  BY <1>2
<1> QED BY <1>2, <1>3, <1>4 DEF p, d

LEMMA PrefixEnds ==
    ASSUME NEW x, Fits(x)
    PROVE  Prefix(x, 0) = 0 /\ Prefix(x, Digits) = x
<1>1. DigitBits * (Digits - Digits) = 0 /\ DigitBits * (Digits - 0) = DigitBits * Digits
  BY DigitsAre
<1>2. Pow[0] = 1 /\ x \in Nat /\ Pow[DigitBits * Digits] \in Nat \ {0}
  BY DigitsAre, PowIs DEF Fits
<1>3. x \div 1 = x
  BY <1>2
<1>4. \A m \in Nat \ {0} : x < m => x \div m = 0
  BY <1>2
<1> QED BY <1>1, <1>2, <1>3, <1>4 DEF Prefix, Fits

LEMMA PrefixOrder ==
    ASSUME NEW x \in Nat, NEW y \in Nat, x < y, NEW m \in Nat \ {0}
    PROVE  x \div m <= y \div m
<1> DEFINE q == x \div m
           s == y \div m
<1>1. q \in Nat /\ x % m \in 0..(m - 1) /\ x = m * q + (x % m)
  OBVIOUS
<1>2. s \in Nat /\ y % m \in 0..(m - 1) /\ y = m * s + (y % m)
  OBVIOUS
<1> HIDE DEF q, s
<1>3. m * q \in Nat /\ m * s \in Nat
  BY <1>1, <1>2
<1>4. ~(s < q)
  <2> SUFFICES ASSUME s < q PROVE FALSE
    OBVIOUS
  <2>1. m * s + m <= m * q
    BY <1>1, <1>2, ProductGrows
  <2> QED BY <1>1, <1>2, <1>3, <2>1
<1> QED BY <1>1, <1>2, <1>4 DEF q, s

\* The smaller number has the smaller character where they first differ.
LEMMA SmallerIsBefore ==
    ASSUME NEW x, NEW y, Fits(x), Fits(y), x < y
    PROVE  \E k \in 1..Digits : /\ Char(x, k) < Char(y, k)
                                /\ \A j \in 1..(k - 1) : Char(x, j) = Char(y, j)
<1> DEFINE T == {k \in Nat : k <= Digits => Prefix(x, k) = Prefix(y, k)}
<1>1. 0 \in T /\ Digits \notin T /\ Digits \in Nat
  BY DigitsAre, PrefixEnds DEF Fits
<1>2. PICK k \in 1..Digits : Prefix(x, k) # Prefix(y, k) /\ \A j \in 0..(k - 1) : Prefix(x, j) = Prefix(y, j)
  <2> DEFINE U == {k \in Nat : \A j \in 0..k : j \in T}
  <2>1. 0 \in U
    BY <1>1
  <2>2. Digits \notin U
    BY <1>1
  <2> HIDE DEF T
  <2>3. PICK h \in Nat : h \in U /\ h + 1 \notin U
    <3> HIDE DEF U
    <3> QED BY <1>1, <2>1, <2>2, Climb
  <2>4. h + 1 \notin T /\ \A j \in 0..h : j \in T
    BY <2>3
  <2>5. h + 1 \in 1..Digits /\ Prefix(x, h + 1) # Prefix(y, h + 1)
    BY <1>1, <2>4 DEF T
  <2>6. \A j \in 0..h : Prefix(x, j) = Prefix(y, j)
    BY <1>1, <2>4, <2>5 DEF T
  <2>7. h + 1 - 1 = h
    OBVIOUS
  <2> QED BY <2>5, <2>6, <2>7
<1>3. Char(x, k) < Char(y, k)
  <2>1. Prefix(x, k - 1) = Prefix(y, k - 1)
    BY <1>2
  <2>2. Prefix(x, k) <= Prefix(y, k)
    <3>1. DigitBits * (Digits - k) \in Nat /\ x \in Nat /\ y \in Nat
      BY DigitsAre DEF Fits
    <3>2. Pow[DigitBits * (Digits - k)] \in Nat \ {0}
      BY <3>1, PowIs
    <3> QED BY <3>1, <3>2, PrefixOrder DEF Prefix
  <2> DEFINE c == Pow[DigitBits] * Prefix(x, k - 1)
  <2>3. /\ Prefix(x, k) = c + Char(x, k) /\ Prefix(y, k) = c + Char(y, k)
        /\ Char(x, k) \in Nat /\ Char(y, k) \in Nat /\ c \in Nat
    BY <2>1, PrefixIs, PowIs, DigitsAre
  <2> HIDE DEF c
  <2> QED BY <1>2, <2>2, <2>3
<1>4. ASSUME NEW j \in 1..(k - 1) PROVE Char(x, j) = Char(y, j)
  <2>1. j \in 1..Digits /\ Prefix(x, j) = Prefix(y, j) /\ Prefix(x, j - 1) = Prefix(y, j - 1)
    BY <1>1, <1>2
  <2> DEFINE c == Pow[DigitBits] * Prefix(x, j - 1)
  <2>2. /\ Prefix(x, j) = c + Char(x, j) /\ Prefix(y, j) = c + Char(y, j)
        /\ Char(x, j) \in Nat /\ Char(y, j) \in Nat /\ c \in Nat
    BY <2>1, PrefixIs, PowIs, DigitsAre
  <2>3. Prefix(x, j) = Prefix(y, j)
    BY <2>1
  <2> HIDE DEF c
  <2>4. \A l, m, o \in Nat : l + m = l + o => m = o
    OBVIOUS
  <2> QED BY <2>2, <2>3, <2>4
<1> QED BY <1>3, <1>4

\* The characters sort as the identifiers do, whatever the widths.
LEMMA CodesSort ==
    ASSUME NEW x, NEW y, IsId(x), IsId(y)
    PROVE  Sorts(x, y) <=> Before(Encode(x), Encode(y))
<1> DEFINE a == Value(x)
           b == Value(y)
           s == Encode(x)
           t == Encode(y)
<1>1. Fits(a) /\ Fits(b)
  <2>1. a \in Nat /\ b \in Nat /\ a < Pow[ByteBits * Width] /\ b < Pow[ByteBits * Width]
    BY ValueIs
  <2>2. Pow[ByteBits * Width] <= Pow[DigitBits * Digits] /\ Pow[ByteBits * Width] \in Nat
        /\ Pow[DigitBits * Digits] \in Nat
    <3> DEFINE L == ByteBits * Width
               M == DigitBits * Digits
    <3>1. L \in Nat /\ M - L \in Nat /\ L + (M - L) = M
      BY DigitsAre
    <3> HIDE DEF L, M
    <3>2. Pow[M] = Pow[L] * Pow[M - L] /\ Pow[L] \in Nat \ {0} /\ Pow[M - L] \in Nat \ {0}
      BY <3>1, PowIs, PowAdd
    <3>3. \A m, n \in Nat \ {0} : m <= m * n /\ m * n \in Nat
      OBVIOUS
    <3> QED BY <3>2, <3>3 DEF L, M
  <2> HIDE DEF a, b
  <2> QED BY <2>1, <2>2 DEF Fits
<1>2. \A k \in 1..Digits : s[k] = Char(a, k) /\ t[k] = Char(b, k)
  BY EncodeIs DEF Char
<1>3. \A k \in 1..Digits : s[k] \in Nat /\ t[k] \in Nat
  BY <1>1, <1>2, PrefixIs
<1>4. Sorts(x, y) <=> a < b
  <2>1. x.ms \in Nat /\ y.ms \in Nat /\ x.rand \in 0..(Rands - 1) /\ y.rand \in 0..(Rands - 1)
    BY ValueIs DEF IsId
  <2>2. Rands \in Nat \ {0}
    BY Widths
  <2>3. a = Rands * x.ms + x.rand /\ b = Rands * y.ms + y.rand
    BY DEF Value
  <2> DEFINE i == x.ms
             j == y.ms
  <2> HIDE DEF a, b, i, j
  <2>4. i \in Nat /\ j \in Nat /\ a = Rands * i + x.rand /\ b = Rands * j + y.rand
        /\ Rands * i \in Nat /\ Rands * j \in Nat
    BY <2>1, <2>2, <2>3 DEF i, j
  <2>5. CASE i < j
    <3>1. Rands * i + Rands <= Rands * j
      BY <2>2, <2>4, <2>5, ProductGrows
    <3> QED BY <2>1, <2>2, <2>4, <2>5, <3>1 DEF Sorts, i, j
  <2>6. CASE j < i
    <3>1. Rands * j + Rands <= Rands * i
      BY <2>2, <2>4, <2>6, ProductGrows
    <3> QED BY <2>1, <2>2, <2>4, <2>6, <3>1 DEF Sorts, i, j
  <2>7. CASE i = j
    BY <2>1, <2>2, <2>4, <2>7 DEF Sorts, i, j
  <2> QED BY <2>4, <2>5, <2>6, <2>7
<1> HIDE DEF s, t, a, b
<1>5. ASSUME a < b PROVE Before(s, t)
  <2>1. PICK k \in 1..Digits : Char(a, k) < Char(b, k) /\ \A j \in 1..(k - 1) : Char(a, j) = Char(b, j)
    BY <1>1, <1>5, SmallerIsBefore
  <2>2. \A j \in 1..(k - 1) : j \in 1..Digits
    BY DigitsAre
  <2> QED BY <1>2, <2>1, <2>2 DEF Before
<1>6. ASSUME b < a PROVE Before(t, s)
  <2>1. PICK k \in 1..Digits : Char(b, k) < Char(a, k) /\ \A j \in 1..(k - 1) : Char(b, j) = Char(a, j)
    BY <1>1, <1>6, SmallerIsBefore
  <2>2. \A j \in 1..(k - 1) : j \in 1..Digits
    BY DigitsAre
  <2> QED BY <1>2, <2>1, <2>2 DEF Before
<1>7. ~(Before(s, t) /\ Before(t, s))
  <2> SUFFICES ASSUME Before(s, t), Before(t, s) PROVE FALSE
    OBVIOUS
  <2>1. PICK k \in 1..Digits : s[k] < t[k] /\ \A j \in 1..(k - 1) : s[j] = t[j]
    BY DEF Before
  <2>2. PICK h \in 1..Digits : t[h] < s[h] /\ \A j \in 1..(h - 1) : t[j] = s[j]
    BY DEF Before
  <2>3. CASE k < h
    <3>1. k \in 1..(h - 1)
      BY <2>3, DigitsAre
    <3> QED BY <1>3, <2>1, <2>2, <3>1
  <2>4. CASE h < k
    <3>1. h \in 1..(k - 1)
      BY <2>4, DigitsAre
    <3> QED BY <1>3, <2>1, <2>2, <3>1
  <2>5. CASE h = k
    BY <1>3, <2>1, <2>2, <2>5
  <2> QED BY <2>3, <2>4, <2>5, DigitsAre
<1>8. a = b => ~Before(s, t)
  <2> SUFFICES ASSUME a = b, Before(s, t) PROVE FALSE
    OBVIOUS
  <2>1. PICK k \in 1..Digits : s[k] < t[k]
    BY DEF Before
  <2>2. s[k] = t[k]
    BY <1>2
  <2> QED BY <1>3, <2>1, <2>2
<1>9. a \in Nat /\ b \in Nat
  BY <1>1 DEF Fits
<1> QED BY <1>4, <1>5, <1>6, <1>7, <1>8, <1>9 DEF s, t

\* The characters of a new identifier sort against every earlier one's as the
\* identifiers do, for the code's widths as for any: New of internal/ulid.
THEOREM CodesKeepOrder == Spec => []EncodeKeepsOrder
<1>1. TypeOK => EncodeKeepsOrder
  <2> SUFFICES ASSUME TypeOK, issued # <<>>, NEW i \in 1..(Len(issued) - 1)
               PROVE  /\ Sorts(issued[i], Last(issued)) <=> Before(Encode(issued[i]), Encode(Last(issued)))
                      /\ Sorts(Last(issued), issued[i]) <=> Before(Encode(Last(issued)), Encode(issued[i]))
    BY DEF EncodeKeepsOrder
  <2>1. issued \in Seq(Id) /\ Len(issued) \in Nat /\ Len(issued) # 0
    BY DEF TypeOK, Id
  <2>2. issued[i] \in Id /\ Last(issued) \in Id
    BY <2>1 DEF Last
  <2>3. IsId(issued[i]) /\ IsId(Last(issued))
    BY <2>2 DEF Id, IsId
  <2> QED BY <2>3, CodesSort
<1> QED BY <1>1, TypeCorrect, PTL
=============================================================================
