--------------------------- MODULE QRCodecProofs ---------------------------
(***************************************************************************)
(* What the two ends of a payment QR code have to agree on, for every      *)
(* request and every checksum: numbers and amounts are read as they were   *)
(* written, a text of fields is read as the fields it was written from,    *)
(* and so the server and the page find in a code what was asked for.       *)
(* Numbers, texts and offsets are reached by induction, which is stated on *)
(* sets of numbers: a set of offsets for which the claim fails has a least *)
(* element, and there is none.                                             *)
(***************************************************************************)
EXTENDS QRCodec, SequenceTheorems, FiniteSetTheorems, WellFoundedInduction, TLAPS

-----------------------------------------------------------------------------
(* Numbers and amounts.                                                    *)

\* Induction on numbers, as the least element of a set of them.
LEMMA Least ==
  ASSUME NEW S \in SUBSET Nat, S # {}
  PROVE  \E m \in S : \A n \in S : m <= n
<1> DEFINE Below == {ss \in Nat \X Nat : ss[1] < ss[2]}
<1>1. IsWellFoundedOn(Below, Nat)
  BY NatLessThanWellFounded DEF OpToRel
<1>2. PICK m \in S : \A n \in S : ~ (<<n, m>> \in Below)
  BY <1>1, WFMin
<1>3. \A n \in S : <<n, m>> \in Nat \X Nat /\ <<n, m>>[1] = n /\ <<n, m>>[2] = m
  OBVIOUS
<1>4. \A n \in S : ~ (n < m)
  BY <1>2, <1>3
<1> QED
  BY <1>4

\* A set of numbers with a bound has a greatest one, and Max is that.
LEMMA MaxOf ==
  ASSUME NEW S \in SUBSET Int, S # {}, NEW top \in Int, \A x \in S : x <= top
  PROVE  Max(S) \in S /\ \A x \in S : x <= Max(S)
<1> DEFINE T == {k \in Nat : top - k \in S}
<1>1. T # {}
  <2>1. PICK x \in S : TRUE
    OBVIOUS
  <2>2. top - x \in T
    BY <2>1
  <2> QED
    BY <2>2
<1>2. PICK k \in T : \A n \in T : k <= n
  BY <1>1, Least
<1>3. \A x \in S : top - x \in T
  OBVIOUS
<1>4. top - k \in S /\ \A x \in S : top - k >= x
  BY <1>2, <1>3
<1> QED
  BY <1>4 DEF Max

-----------------------------------------------------------------------------
\* The powers of ten are a function that is defined by recursion: there is one, by
\* induction on how far it is defined.
LEMMA TensDef == Tens = [k \in 0 .. MaxDigits |-> IF k = 0 THEN 1 ELSE 10 * Tens[k - 1]]
<1> DEFINE Upto(m, g) == g = [k \in 0 .. m |-> IF k = 0 THEN 1 ELSE 10 * g[k - 1]]
           Bad == {m \in 0 .. MaxDigits : ~ \E g : Upto(m, g)}
<1>1. Bad = {}
  <2>0. /\ Bad \in SUBSET Nat /\ Bad \subseteq 0 .. MaxDigits
        /\ \A m \in 0 .. MaxDigits : m \notin Bad => \E g : Upto(m, g)
        /\ \A m \in Bad : ~ \E g : Upto(m, g)
    OBVIOUS
  <2> HIDE DEF Bad
  <2>1. SUFFICES ASSUME Bad # {} PROVE FALSE
    OBVIOUS
  <2>2. PICK m \in Bad : \A n \in Bad : m <= n
    BY <2>0, <2>1, Least
  <2>3. m # 0
    <3>1. Upto(0, [k \in 0 .. 0 |-> 1])
      OBVIOUS
    <3> QED
      BY <2>0, <2>2, <3>1
  <2>4. m - 1 \in 0 .. MaxDigits /\ m - 1 \notin Bad /\ m \in Nat
    BY <2>0, <2>2, <2>3, CodecAssumption
  <2>5. PICK g : Upto(m - 1, g)
    BY <2>0, <2>4
  <2>6. Upto(m, [k \in 0 .. m |-> IF k = 0 THEN 1 ELSE 10 * g[k - 1]])
    BY <2>4, <2>5
  <2> QED
    BY <2>0, <2>2, <2>6
<1>2. MaxDigits \in 0 .. MaxDigits
  BY CodecAssumption
<1>3. \E g : Upto(MaxDigits, g)
  <2>1. MaxDigits \notin Bad
    BY <1>1
  <2> QED
    BY <1>2, <2>1
<1> QED
  BY <1>3 DEF Tens

\* The powers of ten.
LEMMA TensFacts ==
  /\ Tens[0] = 1 /\ Tens[1] = 10 /\ Tens[2] = 100
  /\ \A k \in 0 .. MaxDigits : Tens[k] \in Nat \ {0}
  /\ \A k \in 1 .. MaxDigits : Tens[k] = 10 * Tens[k - 1]
<1>1. /\ MaxDigits \in Nat /\ MaxDigits >= 6
      /\ \A k \in 0 .. MaxDigits : Tens[k] = IF k = 0 THEN 1 ELSE 10 * Tens[k - 1]
  <2>1. \A k \in 0 .. MaxDigits :
          [j \in 0 .. MaxDigits |-> IF j = 0 THEN 1 ELSE 10 * Tens[j - 1]][k]
            = IF k = 0 THEN 1 ELSE 10 * Tens[k - 1]
    OBVIOUS
  <2>2. MaxDigits \in Nat /\ MaxDigits >= 6
    BY CodecAssumption
  <2> QED
    BY <2>1, <2>2, TensDef, Zenon
<1>2. \A k \in 1 .. MaxDigits : Tens[k] = 10 * Tens[k - 1]
  BY <1>1
<1>3. Tens[0] = 1 /\ Tens[1] = 10 /\ Tens[2] = 100
  <2>1. Tens[0] = 1
    BY <1>1
  <2>2. Tens[1] = 10
    BY <1>1, <1>2, <2>1
  <2>3. Tens[2] = 10 * Tens[2 - 1] /\ 2 - 1 = 1
    BY <1>1, <1>2
  <2> QED
    BY <2>1, <2>2, <2>3
<1> DEFINE Bad == {k \in 0 .. MaxDigits : Tens[k] \notin Nat \ {0}}
<1>4. Bad = {}
  <2>1. SUFFICES ASSUME Bad # {} PROVE FALSE
    OBVIOUS
  <2>2. Bad \in SUBSET Nat
    OBVIOUS
  <2>3. PICK m \in Bad : \A n \in Bad : m <= n
    BY <2>1, <2>2, Least
  <2>4. m # 0
    BY <1>3, <2>3
  <2>5. m - 1 \in 0 .. MaxDigits /\ m - 1 \notin Bad /\ m \in 1 .. MaxDigits
    BY <1>1, <2>3, <2>4
  <2>6. Tens[m] = 10 * Tens[m - 1] /\ Tens[m - 1] \in Nat \ {0}
    BY <1>2, <2>5
  <2> QED
    BY <2>3, <2>6
<1> QED
  BY <1>2, <1>3, <1>4

-----------------------------------------------------------------------------
\* Division with remainder,
LEMMA DivMod ==
  ASSUME NEW n \in Nat, NEW t \in Nat \ {0}
  PROVE  /\ n \div t \in Nat /\ n % t \in Nat /\ n % t < t
         /\ n = t * (n \div t) + (n % t)
<1> DEFINE q == n \div t
           r == n % t
<1>1. q \in Nat /\ r \in Nat /\ r < t
  OBVIOUS
<1>2. r = n - t * q
  OBVIOUS
<1> HIDE DEF q, r
<1>3. t * q \in Int
  BY <1>1
<1>4. n = t * q + r
  BY <1>1, <1>2, <1>3
<1> QED
  BY <1>1, <1>4, Zenon DEF q, r

\* and that there is one such quotient and one such remainder.
LEMMA DivUnique ==
  ASSUME NEW t \in Nat \ {0}, NEW q \in Nat, NEW r \in Nat, r < t
  PROVE  (t * q + r) \div t = q /\ (t * q + r) % t = r
<1> DEFINE n == t * q + r
           p == n \div t
           s == n % t
<1>1. n \in Nat /\ p \in Nat /\ s \in Nat /\ s < t /\ n = t * p + s
  BY DivMod
<1>2. t * q + r = t * p + s
  BY <1>1
<1> HIDE DEF p, s
<1>3. ~ (q < p)
  <2>1. SUFFICES ASSUME q < p PROVE FALSE
    OBVIOUS
  <2>2. p - q - 1 \in Nat /\ t * (p - q - 1) \in Nat
    BY <1>1, <2>1
  <2>3. t * (p - q - 1) = t * p - t * q - t
    BY <1>1
  <2> QED
    BY <1>1, <1>2, <2>2, <2>3
<1>4. ~ (p < q)
  <2>1. SUFFICES ASSUME p < q PROVE FALSE
    OBVIOUS
  <2>2. q - p - 1 \in Nat /\ t * (q - p - 1) \in Nat
    BY <1>1, <2>1
  <2>3. t * (q - p - 1) = t * q - t * p - t
    BY <1>1
  <2> QED
    BY <1>1, <1>2, <2>2, <2>3
<1>5. p = q /\ s = r
  BY <1>1, <1>2, <1>3, <1>4
<1> QED
  BY <1>5 DEF p, s

\* Dropping the last digit of a quotient.
LEMMA DivTen ==
  ASSUME NEW n \in Nat, NEW t \in Nat \ {0}
  PROVE  n \div t = 10 * (n \div (10 * t)) + ((n \div t) % 10)
<1> DEFINE q == n \div t
           r == n % t
           p == q \div 10
           s == q % 10
<1>1. q \in Nat /\ r \in Nat /\ r < t /\ n = t * q + r
  BY DivMod
<1>2. p \in Nat /\ s \in 0 .. 9 /\ q = 10 * p + s
  BY <1>1
<1> HIDE DEF q, r, p, s
<1>3. t * s + r \in Nat /\ t * s + r < 10 * t /\ 10 * t \in Nat \ {0}
  <2>1. t * (9 - s) \in Nat /\ t * s \in Nat /\ t * (9 - s) = 9 * t - t * s
    BY <1>2
  <2> QED
    BY <1>1, <1>2, <2>1
<1>4. n = (10 * t) * p + (t * s + r)
  <2>1. t * q = t * (10 * p) + t * s
    BY <1>1, <1>2
  <2>2. t * (10 * p) = (10 * t) * p
    BY <1>2
  <2>3. t * q \in Int /\ t * s \in Int /\ (10 * t) * p \in Int
    BY <1>1, <1>2
  <2>4. ASSUME NEW a \in Int, NEW b \in Int, NEW c \in Int, a = b + c, n = a + r
        PROVE  n = b + (c + r)
    BY <1>1, <2>4
  <2> QED
    BY <1>1, <2>1, <2>2, <2>3, <2>4
<1> DEFINE u == 10 * t
           v == t * s + r
<1>5. n \div (10 * t) = p
  <2>1. u \in Nat \ {0} /\ v \in Nat /\ v < u /\ n = u * p + v
    BY <1>3, <1>4
  <2> HIDE DEF u, v
  <2>2. n \div u = p
    BY <1>2, <2>1, DivUnique
  <2> QED
    BY <2>2 DEF u
<1>6. q = 10 * (n \div (10 * t)) + s
  BY <1>2, <1>5
<1> QED
  BY <1>6, Zenon DEF q, s

\* A numeral has as many digits as it was asked for.
LEMMA NumeralType ==
  ASSUME NEW n \in Nat, NEW w \in 0 .. MaxDigits
  PROVE  /\ Numeral(n, w) \in Seq(48 .. 57) /\ Len(Numeral(n, w)) = w
         /\ DOMAIN Numeral(n, w) = 1 .. w
         /\ \A i \in 1 .. w : Numeral(n, w)[i] = 48 + ((n \div Tens[w - i]) % 10)
<1>1. w \in Nat
  BY CodecAssumption
<1>2. \A i \in 1 .. w : w - i \in 0 .. MaxDigits
  BY CodecAssumption
<1>3. \A i \in 1 .. w : (n \div Tens[w - i]) % 10 \in 0 .. 9
  <2> TAKE i \in 1 .. w
  <2>1. Tens[w - i] \in Nat \ {0}
    BY <1>2, TensFacts
  <2>2. n \div Tens[w - i] \in Nat
    BY <2>1, DivMod
  <2> QED
    BY <2>2
<1>4. Numeral(n, w) \in [1 .. w -> 48 .. 57]
  BY <1>3 DEF Numeral
<1> QED
  BY <1>1, <1>4 DEF Numeral

\* A numeral stands for one number only.
LEMMA NumeralInjective ==
  ASSUME NEW w \in 0 .. MaxDigits, NEW n \in Nat, NEW m \in Nat,
         n < Tens[w], m < Tens[w], Numeral(n, w) = Numeral(m, w)
  PROVE  n = m
<1> DEFINE Bad == {j \in 0 .. w : n \div Tens[w - j] # m \div Tens[w - j]}
<1>1. w \in Nat /\ \A j \in 0 .. w : w - j \in 0 .. MaxDigits
  BY CodecAssumption
<1>2. n \div Tens[w] = 0 /\ m \div Tens[w] = 0
  <2>1. Tens[w] \in Nat \ {0}
    BY TensFacts
  <2>2. n = Tens[w] * 0 + n /\ m = Tens[w] * 0 + m
    BY <2>1
  <2> QED
    BY <2>1, <2>2, DivUnique
<1>3. Bad = {}
  <2>0. Bad \in SUBSET Nat /\ \A j \in 0 .. w : j \in Bad <=> n \div Tens[w - j] # m \div Tens[w - j]
    BY <1>1
  <2>00. Bad \subseteq 0 .. w
    OBVIOUS
  <2> HIDE DEF Bad
  <2>1. SUFFICES ASSUME Bad # {} PROVE FALSE
    OBVIOUS
  <2>2. PICK j \in Bad : \A i \in Bad : j <= i
    BY <2>0, <2>1, Least
  <2>3. j # 0
    <3>1. w - 0 = w /\ 0 \in 0 .. w
      BY <1>1
    <3> QED
      BY <1>2, <2>0, <2>2, <3>1
  <2>4. j - 1 \in 0 .. w /\ j - 1 \notin Bad /\ j \in 1 .. w
    BY <1>1, <2>00, <2>2, <2>3
  <2> DEFINE t == Tens[w - j]
  <2>5. t \in Nat \ {0} /\ Tens[w - (j - 1)] = 10 * t
    <3>1. w - (j - 1) \in 1 .. MaxDigits /\ w - (j - 1) - 1 = w - j
      BY <1>1, <2>4, CodecAssumption
    <3> QED
      BY <1>1, <2>4, <3>1, TensFacts
  <2>6. n \div (10 * t) = m \div (10 * t)
    BY <2>0, <2>4, <2>5
  <2>7. (n \div t) % 10 = (m \div t) % 10
    <3>1. /\ Numeral(n, w)[j] = 48 + ((n \div t) % 10)
          /\ Numeral(m, w)[j] = 48 + ((m \div t) % 10)
      BY <2>4, NumeralType
    <3>2. n \div t \in Nat /\ m \div t \in Nat
      BY <2>5, DivMod
    <3>3. (n \div t) % 10 \in Int /\ (m \div t) % 10 \in Int
      BY <3>2
    <3> QED
      BY <3>1, <3>3
  <2>8. n \div t = m \div t
    BY <2>5, <2>6, <2>7, DivTen
  <2> QED
    BY <2>0, <2>2, <2>4, <2>8
<1>4. n \div Tens[0] = m \div Tens[0]
  <2>1. w \notin Bad /\ w \in 0 .. w /\ w - w = 0
    BY <1>1, <1>3
  <2> QED
    BY <2>1
<1>5. \A k \in Nat : k \div Tens[0] = k
  <2> TAKE k \in Nat
  <2>1. Tens[0] = 1 /\ k = 1 * k + 0
    BY TensFacts
  <2> QED
    BY <2>1, DivUnique
<1> QED
  BY <1>4, <1>5

\* Width is the number of digits.
LEMMA WidthFits ==
  ASSUME NEW n \in Nat, n < Tens[MaxDigits]
  PROVE  Width(n) \in 1 .. MaxDigits /\ n < Tens[Width(n)]
<1> DEFINE S == {w \in 1 .. MaxDigits : n < Tens[w]}
<1>1. S \in SUBSET Nat /\ MaxDigits \in S
  BY CodecAssumption
<1>2. PICK w \in S : \A v \in S : w <= v
  BY <1>1, Least, Zenon
<1>3. w \in 1 .. MaxDigits /\ n < Tens[w]
  BY <1>2
<1>4. w = 1 \/ n >= Tens[w - 1]
  <2>1. SUFFICES ASSUME w # 1, ~ (n >= Tens[w - 1]) PROVE FALSE
    OBVIOUS
  <2>2. w - 1 \in 1 .. MaxDigits /\ w - 1 < w
    BY <1>3, <2>1, CodecAssumption
  <2>3. Tens[w - 1] \in Nat
    BY <2>2, TensFacts
  <2>4. w - 1 \in S
    BY <2>1, <2>2, <2>3
  <2> QED
    BY <1>2, <2>2, <2>4
<1>5. \E v \in 1 .. MaxDigits : n < Tens[v] /\ (v = 1 \/ n >= Tens[v - 1])
  BY <1>3, <1>4
<1> QED
  BY <1>5 DEF Width

\* A length below 100 is written with two digits.
LEMMA TwoDigits ==
  ASSUME NEW n \in 0 .. 99
  PROVE  LengthOf(n) = Numeral(n, 2)
<1>1. MaxDigits \in Nat /\ MaxDigits >= 6
  BY CodecAssumption
<1> DEFINE Bad == {k \in 2 .. MaxDigits : Tens[k] < 100}
<1>2. Bad = {}
  <2>1. SUFFICES ASSUME Bad # {} PROVE FALSE
    OBVIOUS
  <2>2. Bad \in SUBSET Nat
    OBVIOUS
  <2>3. PICK m \in Bad : \A i \in Bad : m <= i
    BY <2>1, <2>2, Least
  <2>4. m \in 2 .. MaxDigits /\ Tens[m] < 100
    BY <2>3
  <2>5. m # 2
    BY <2>4, TensFacts
  <2>6. m - 1 \in 2 .. MaxDigits /\ m - 1 \notin Bad
    BY <1>1, <2>3, <2>4, <2>5
  <2>7. Tens[m] = 10 * Tens[m - 1] /\ Tens[m - 1] \in Nat /\ Tens[m - 1] >= 100
    BY <1>1, <2>4, <2>6, TensFacts
  <2> QED
    BY <2>4, <2>7
<1>3. \A w \in 1 .. MaxDigits : (w = 1 \/ n >= Tens[w - 1]) => w \in {1, 2}
  <2> SUFFICES ASSUME NEW w \in 1 .. MaxDigits, w \notin {1, 2}, n >= Tens[w - 1] PROVE FALSE
    OBVIOUS
  <2>1. w - 1 \in 2 .. MaxDigits
    BY <1>1
  <2>2. Tens[w - 1] \in Nat /\ Tens[w - 1] >= 100
    <3>1. w - 1 \notin Bad /\ Tens[w - 1] \in Nat
      BY <1>1, <1>2, <2>1, TensFacts
    <3> QED
      BY <2>1, <3>1
  <2> QED
    BY <2>2
<1>4. \E w \in 1 .. MaxDigits : n < Tens[w] /\ (w = 1 \/ n >= Tens[w - 1])
  <2>1. CASE n < 10
    <3>1. 1 \in 1 .. MaxDigits /\ n < Tens[1]
      BY <1>1, <2>1, TensFacts
    <3> QED
      BY <3>1
  <2>2. CASE n >= 10
    <3>1. 2 \in 1 .. MaxDigits /\ n < Tens[2] /\ n >= Tens[2 - 1]
      BY <1>1, <2>2, TensFacts
    <3> QED
      BY <3>1
  <2> QED
    BY <2>1, <2>2
<1>5. Width(n) \in {1, 2}
  BY <1>3, <1>4 DEF Width
<1>6. Max({2, Width(n)}) = 2
  BY <1>5 DEF Max
<1> QED
  BY <1>6 DEF LengthOf

-----------------------------------------------------------------------------
\* A smaller power divides a larger one.
LEMMA TensDivide ==
  ASSUME NEW i \in 0 .. MaxDigits, NEW j \in i .. MaxDigits
  PROVE  \E c \in Nat : Tens[j] = Tens[i] * c
<1> DEFINE Bad == {k \in i .. MaxDigits : ~ \E c \in Nat : Tens[k] = Tens[i] * c}
<1>1. MaxDigits \in Nat /\ i \in Nat
  BY CodecAssumption
<1>2. /\ Bad \in SUBSET Nat /\ Bad \subseteq i .. MaxDigits
      /\ \A k \in i .. MaxDigits : k \in Bad <=> ~ \E c \in Nat : Tens[k] = Tens[i] * c
  BY <1>1
<1> HIDE DEF Bad
<1>3. Bad = {}
  <2>1. SUFFICES ASSUME Bad # {} PROVE FALSE
    OBVIOUS
  <2>2. PICK m \in Bad : \A k \in Bad : m <= k
    BY <1>2, <2>1, Least
  <2>3. m # i
    <3>1. Tens[i] \in Nat /\ Tens[i] = Tens[i] * 1
      BY TensFacts
    <3> QED
      BY <1>2, <2>2, <3>1
  <2>4. m \in i .. MaxDigits /\ m - 1 \in i .. MaxDigits /\ m - 1 \notin Bad /\ m \in 1 .. MaxDigits
    BY <1>1, <1>2, <2>2, <2>3
  <2>5. PICK c \in Nat : Tens[m - 1] = Tens[i] * c
    BY <1>2, <2>4
  <2>6. Tens[m] = Tens[i] * (10 * c) /\ 10 * c \in Nat
    <3>1. Tens[m] = 10 * (Tens[i] * c) /\ Tens[i] \in Nat
      BY <2>4, <2>5, TensFacts
    <3>2. \A a \in Nat : 10 * (a * c) = a * (10 * c)
      OBVIOUS
    <3> QED
      BY <3>1, <3>2
  <2> QED
    BY <1>2, <2>2, <2>4, <2>6
<1> QED
  BY <1>2, <1>3

\* A factor that is not zero cancels.
LEMMA ProductCancels ==
  ASSUME NEW t \in Nat \ {0}, NEW a \in Nat, NEW b \in Nat, t * a = t * b
  PROVE  a = b
<1>1. (t * a + 0) \div t = a /\ (t * b + 0) \div t = b
  BY DivUnique
<1> QED
  BY <1>1

\* The shortest form of a decimal, with the zeros to drop named,
LEMMA NormalDef ==
  ASSUME NEW d, NEW Z, \A k : k \in Z <=> k \in 0 .. d.places /\ d.n % Tens[k] = 0
  PROVE  Normal(d) = [n |-> d.n \div Tens[Max(Z)], places |-> d.places - Max(Z)]
<1> DEFINE D == {k \in 0 .. d.places : d.n % Tens[k] = 0}
<1>1. D = Z
  OBVIOUS
<1>2. Normal(d) = [n |-> d.n \div Tens[Max(D)], places |-> d.places - Max(D)]
  BY Zenon DEF Normal
<1> HIDE DEF D
<1> QED
  BY <1>1, <1>2, Zenon

\* The shortest form of a number with its zeros put back is the number.
LEMMA NormalUnique ==
  ASSUME NEW m \in Nat, NEW p \in 0 .. MaxDigits, NEW k \in 0 .. MaxDigits,
         p + k <= MaxDigits, p = 0 \/ m % 10 # 0
  PROVE  Normal([n |-> m * Tens[k], places |-> p + k]) = [n |-> m, places |-> p]
<1> DEFINE n == m * Tens[k]
           Z == {j \in 0 .. p + k : n % Tens[j] = 0}
<1>1. MaxDigits \in Nat /\ p \in Nat /\ k \in Nat /\ Tens[k] \in Nat \ {0}
  BY CodecAssumption, TensFacts
<1>2. n = Tens[k] * m + 0 /\ n \in Nat
  BY <1>1
<1>3. n \div Tens[k] = m /\ n % Tens[k] = 0
  BY <1>1, <1>2, DivUnique
<1> HIDE DEF n
<1>4. k \in Z
  BY <1>1, <1>3
<1>5. ASSUME NEW j \in Z, j > k PROVE FALSE
  <2>1. j \in 0 .. p + k /\ k + 1 \in 1 .. MaxDigits /\ j \in (k + 1) .. MaxDigits /\ n % Tens[j] = 0
    BY <1>1, <1>5
  <2>2. PICK c \in Nat : Tens[j] = Tens[k + 1] * c
    BY <2>1, TensDivide
  <2>3. Tens[k + 1] = 10 * Tens[k] /\ Tens[j] \in Nat \ {0}
    <3>1. k + 1 - 1 = k
      BY <1>1
    <3> QED
      BY <1>1, <2>1, <3>1, TensFacts
  <2>4. PICK q \in Nat : n = Tens[j] * q
    <3>1. n = Tens[j] * (n \div Tens[j]) + (n % Tens[j]) /\ n \div Tens[j] \in Nat
      BY <1>2, <2>3, DivMod
    <3>2. Tens[j] * (n \div Tens[j]) \in Nat
      BY <2>3, <3>1
    <3>3. n = Tens[j] * (n \div Tens[j])
      BY <2>1, <3>1, <3>2
    <3> QED
      BY <3>1, <3>3
  <2>5. n = Tens[k] * (10 * (c * q)) /\ 10 * (c * q) \in Nat
    <3>1. \A t \in Nat : ((10 * t) * c) * q = t * (10 * (c * q))
      OBVIOUS
    <3>2. c * q \in Nat
      OBVIOUS
    <3> QED
      BY <1>1, <2>2, <2>3, <2>4, <3>1, <3>2
  <2>6. m = 10 * (c * q)
    <3>1. Tens[k] * m = Tens[k] * (10 * (c * q))
      BY <1>1, <1>2, <2>5
    <3> QED
      BY <1>1, <2>5, <3>1, ProductCancels
  <2>7. m % 10 = 0
    <3>1. c * q \in Nat /\ m = 10 * (c * q) + 0
      BY <2>6
    <3> QED
      BY <3>1, DivUnique
  <2> QED
    BY <1>1, <2>1, <2>7
<1>6. Max(Z) = k
  <2>1. Z \in SUBSET Int /\ Z # {} /\ (\A j \in Z : j <= k) /\ k \in Int
    BY <1>1, <1>4, <1>5
  <2> HIDE DEF Z
  <2>2. Max(Z) \in Z /\ \A j \in Z : j <= Max(Z)
    BY <2>1, MaxOf, Zenon
  <2>3. Max(Z) \in Int /\ Max(Z) <= k /\ k <= Max(Z)
    BY <1>4, <2>1, <2>2
  <2> QED
    BY <2>1, <2>3
<1> DEFINE d == [n |-> n, places |-> p + k]
<1>7. d.n = n /\ d.places = p + k
  OBVIOUS
<1> HIDE DEF d
<1>8. Normal(d) = [n |-> n \div Tens[Max(Z)], places |-> (p + k) - Max(Z)]
  <2>1. \A j : j \in Z <=> j \in 0 .. d.places /\ d.n % Tens[j] = 0
    BY <1>7
  <2> HIDE DEF Z
  <2>2. Normal(d) = [n |-> d.n \div Tens[Max(Z)], places |-> d.places - Max(Z)]
    BY <2>1, NormalDef, Zenon
  <2> QED
    BY <1>7, <2>2, Zenon
<1>9. (p + k) - k = p
  BY <1>1
<1>10. Normal(d) = [n |-> m, places |-> p]
  BY <1>3, <1>6, <1>8, <1>9
<1> QED
  BY <1>10 DEF n, d

\* The decimals that are no less than zero.
Decimal == [n : Nat, places : 0 .. MaxDigits]

\* Every decimal is its shortest form with zeros put back,
LEMMA NormalFacts ==
  ASSUME NEW d \in Decimal
  PROVE  /\ Normal(d) \in Decimal
         /\ Normal(d).places <= d.places
         /\ Normal(d).places = 0 \/ Normal(d).n % 10 # 0
         /\ d.n = Normal(d).n * Tens[d.places - Normal(d).places]
         /\ Normal(d).n <= d.n
<1> DEFINE Z == {k \in 0 .. d.places : d.n % Tens[k] = 0}
           z == Max(Z)
           q == d.n \div Tens[z]
<1>1. MaxDigits \in Nat /\ d.n \in Nat /\ d.places \in 0 .. MaxDigits /\ d.places \in Nat
  BY CodecAssumption DEF Decimal
<1>2. 0 \in Z
  <2>1. Tens[0] = 1 /\ d.n = 1 * d.n + 0
    BY <1>1, TensFacts
  <2>2. d.n % Tens[0] = 0
    BY <1>1, <2>1, DivUnique
  <2> QED
    BY <1>1, <2>2
<1>3. z \in Z /\ \A j \in Z : j <= z
  <2>1. Z \in SUBSET Int /\ Z # {} /\ (\A j \in Z : j <= d.places) /\ d.places \in Int
    BY <1>1, <1>2
  <2> HIDE DEF Z
  <2> QED
    BY <2>1, MaxOf, Zenon
<1> HIDE DEF z
<1>4. z \in 0 .. d.places /\ d.n % Tens[z] = 0 /\ Tens[z] \in Nat \ {0} /\ z \in Nat
  <2>1. z \in 0 .. d.places /\ d.n % Tens[z] = 0
    BY <1>3
  <2> QED
    BY <1>1, <2>1, TensFacts
<1>5. d.n = Tens[z] * q /\ q \in Nat
  <2>1. d.n = Tens[z] * q + (d.n % Tens[z]) /\ q \in Nat
    BY <1>1, <1>4, DivMod
  <2> HIDE DEF q
  <2>2. Tens[z] * q \in Nat
    BY <1>4, <2>1
  <2> QED
    BY <1>4, <2>1, <2>2
<1>6. q <= d.n
  <2> HIDE DEF q
  <2>1. (Tens[z] - 1) * q \in Nat
    BY <1>4, <1>5
  <2>2. (Tens[z] - 1) * q = Tens[z] * q - q
    BY <1>4, <1>5
  <2> QED
    BY <1>1, <1>5, <2>1, <2>2
<1>7. ASSUME z # d.places, q % 10 = 0 PROVE FALSE
  <2>1. z + 1 \in 0 .. d.places /\ z + 1 \in 1 .. MaxDigits
    BY <1>1, <1>4, <1>7
  <2>2. PICK c \in Nat : q = 10 * c
    BY <1>5, <1>7
  <2>3. Tens[z + 1] = 10 * Tens[z] /\ Tens[z + 1] \in Nat \ {0}
    <3>1. z + 1 - 1 = z
      BY <1>4
    <3>2. Tens[z + 1] = 10 * Tens[z + 1 - 1] /\ z + 1 \in 0 .. MaxDigits
      <4>1. z + 1 \in 1 .. MaxDigits
        BY <2>1
      <4> HIDE DEF z
      <4> QED
        BY <1>1, <1>4, <4>1, TensFacts
    <3> QED
      BY <3>1, <3>2, TensFacts
  <2>4. d.n = Tens[z + 1] * c + 0
    <3>1. \A t \in Nat : t * (10 * c) = (10 * t) * c + 0
      OBVIOUS
    <3> QED
      BY <1>4, <1>5, <2>2, <2>3, <3>1
  <2>5. d.n % Tens[z + 1] = 0
    BY <2>3, <2>4, DivUnique
  <2>6. z + 1 \in Z
    BY <2>1, <2>5
  <2> QED
    BY <1>3, <1>4, <2>6
<1>8. Normal(d) = [n |-> q, places |-> d.places - z]
  BY DEF Normal, z
<1>9. d.places - (d.places - z) = z
  BY <1>1, <1>4
<1>10. d.n = q * Tens[z]
  <2> HIDE DEF q
  <2> QED
    BY <1>4, <1>5
<1> HIDE DEF q
<1>11. Normal(d) \in Decimal /\ Normal(d).n = q /\ Normal(d).places = d.places - z
  BY <1>1, <1>4, <1>5, <1>8 DEF Decimal
<1> QED
  BY <1>1, <1>4, <1>6, <1>7, <1>9, <1>10, <1>11

\* which has no shorter one.
LEMMA NormalOfNormal ==
  ASSUME NEW d \in Decimal
  PROVE  Normal(Normal(d)) = Normal(d)
<1> DEFINE e == Normal(d)
<1>1. e \in Decimal /\ (e.places = 0 \/ e.n % 10 # 0)
  BY NormalFacts
<1> HIDE DEF e
<1>2. e.n \in Nat /\ e.places \in 0 .. MaxDigits /\ e.places \in Nat /\ MaxDigits \in Nat
  BY <1>1, CodecAssumption DEF Decimal
<1>3. Normal([n |-> e.n * Tens[0], places |-> e.places + 0]) = [n |-> e.n, places |-> e.places]
  BY <1>1, <1>2, NormalUnique
<1>4. e.n * Tens[0] = e.n /\ e.places + 0 = e.places
  BY <1>2, TensFacts
<1>5. e = [n |-> e.n, places |-> e.places]
  BY <1>1 DEF Decimal
<1>6. Normal(e) = e
  BY <1>3, <1>4, <1>5
<1> QED
  BY <1>6 DEF e

-----------------------------------------------------------------------------
\* What is written of a decimal: whole part, point and fraction.
Written(text, e, whole, width, fraction) ==
  /\ whole \in Nat /\ width \in 1 .. MaxDigits /\ whole < Tens[width]
  /\ fraction \in Nat /\ fraction < Tens[e.places]
  /\ e.n = Tens[e.places] * whole + fraction
  /\ text \in Seq(46 .. 57)
  /\ Len(text) = IF e.places = 0 THEN width ELSE width + 1 + e.places
  /\ \A i \in 1 .. width : text[i] = Numeral(whole, width)[i]
  /\ e.places > 0 => text[width + 1] = 46
  /\ \A i \in 1 .. e.places : text[width + 1 + i] = Numeral(fraction, e.places)[i]

\* decimal.String writes this.
LEMMA ShowWritten ==
  ASSUME NEW d \in Decimal, d.n < Tens[MaxDigits]
  PROVE  \E whole, width, fraction : Written(Show(d), Normal(d), whole, width, fraction)
<1> DEFINE e == Normal(d)
           p == e.places
           whole == e.n \div Tens[p]
           fraction == e.n % Tens[p]
           width == Width(whole)
           first == Numeral(whole, width)
           last == Numeral(fraction, p)
<1>1. e \in Decimal /\ e.n <= d.n /\ e.n \in Nat /\ p \in 0 .. MaxDigits /\ p \in Nat
      /\ MaxDigits \in Nat /\ d.n \in Nat
  BY NormalFacts, CodecAssumption DEF Decimal
<1>2. Show(d) = first \o IF p = 0 THEN <<>> ELSE <<46>> \o last
  BY Zenon DEF Show
<1> HIDE DEF e
<1>3. Tens[p] \in Nat \ {0} /\ Tens[MaxDigits] \in Nat
  BY <1>1, TensFacts
<1>4. whole \in Nat /\ fraction \in Nat /\ fraction < Tens[p] /\ e.n = Tens[p] * whole + fraction
  BY <1>1, <1>3, DivMod
<1> HIDE DEF whole, fraction
<1>5. whole <= e.n
  <2>1. (Tens[p] - 1) * whole \in Nat /\ (Tens[p] - 1) * whole = Tens[p] * whole - whole
    BY <1>3, <1>4
  <2> QED
    BY <1>1, <1>3, <1>4, <2>1
<1>6. width \in 1 .. MaxDigits /\ whole < Tens[width] /\ width \in Nat
  <2>1. whole < Tens[MaxDigits]
    BY <1>1, <1>3, <1>4, <1>5
  <2> QED
    BY <1>1, <1>4, <2>1, WidthFits
<1> HIDE DEF width, p
<1>7. /\ first \in Seq(48 .. 57) /\ Len(first) = width
      /\ last \in Seq(48 .. 57) /\ Len(last) = p
  <2>1. width \in 0 .. MaxDigits /\ p \in 0 .. MaxDigits
    BY <1>1, <1>6
  <2>2. first \in Seq(48 .. 57) /\ Len(first) = width
    BY <1>4, <2>1, NumeralType
  <2>3. last \in Seq(48 .. 57) /\ Len(last) = p
    BY <1>4, <2>1, NumeralType
  <2> QED
    BY <2>2, <2>3
<1> HIDE DEF first, last
<1> DEFINE text == Show(d)
<1>8. CASE p = 0
  <2>1. text = first \o <<>>
    BY <1>2, <1>8
  <2>2. text = first
    BY <1>7, <2>1
  <2>3. text \in Seq(46 .. 57) /\ Len(text) = width
    BY <1>7, <2>2
  <2> HIDE DEF text
  <2>4. Written(text, e, whole, width, fraction)
    BY <1>4, <1>6, <1>8, <2>2, <2>3 DEF Written, first, p
  <2> QED
    BY <2>4 DEF text, e
<1>9. CASE p # 0
  <2>1. text = first \o (<<46>> \o last)
    BY <1>2, <1>9
  <2> DEFINE tail == <<46>> \o last
  <2>2. /\ tail \in Seq(46 .. 57) /\ Len(tail) = 1 + p /\ tail[1] = 46
        /\ \A i \in 1 .. p : tail[1 + i] = last[i]
    BY <1>1, <1>7
  <2> HIDE DEF tail
  <2>3. first \in Seq(46 .. 57)
    BY <1>7
  <2>4. /\ text \in Seq(46 .. 57) /\ Len(text) = width + 1 + p
        /\ \A i \in 1 .. width : text[i] = first[i]
        /\ \A i \in 1 .. 1 + p : text[width + i] = tail[i]
    <3>1. text = first \o tail
      BY <2>1 DEF tail
    <3> HIDE DEF text
    <3>2. /\ text \in Seq(46 .. 57) /\ Len(text) = Len(first) + Len(tail)
          /\ \A i \in 1 .. Len(first) + Len(tail) :
               text[i] = IF i <= Len(first) THEN first[i] ELSE tail[i - Len(first)]
      <4>1. first \in Seq(46 .. 57) /\ tail \in Seq(46 .. 57)
        BY <2>2, <2>3
      <4> QED
        BY <3>1, <4>1, ConcatProperties, Zenon
    <3>3. \A i \in 1 .. 1 + p : width + i \in 1 .. width + (1 + p) /\ (width + i) - width = i
                              /\ ~ (width + i <= width)
      BY <1>1, <1>6
    <3>4. \A i \in 1 .. width : i \in 1 .. width + (1 + p)
      BY <1>1, <1>6
    <3> QED
      BY <1>1, <1>6, <1>7, <2>2, <3>2, <3>3, <3>4
  <2> HIDE DEF text
  <2>5. text[width + 1] = 46 /\ \A i \in 1 .. p : text[width + 1 + i] = last[i]
    <3>1. text[width + 1] = 46
      BY <1>1, <2>2, <2>4
    <3>2. \A i \in 1 .. p : 1 + i \in 1 .. 1 + p /\ width + (1 + i) = width + 1 + i
      BY <1>1, <1>6
    <3> QED
      BY <2>2, <2>4, <3>1, <3>2
  <2>6. Written(text, e, whole, width, fraction)
    BY <1>1, <1>4, <1>6, <1>9, <2>4, <2>5 DEF Written, first, last, p
  <2> QED
    BY <2>6 DEF text, e
<1> QED
  BY <1>8, <1>9

\* What decimal.String writes of two decimals is the same only if they are one number.
THEOREM ShowInjective ==
  ASSUME NEW c \in Decimal, NEW d \in Decimal, c.n < Tens[MaxDigits], d.n < Tens[MaxDigits],
         Show(c) = Show(d)
  PROVE  Normal(c) = Normal(d)
<1> DEFINE e == Normal(c)
           f == Normal(d)
           text == Show(c)
<1>1. e \in Decimal /\ f \in Decimal
  BY NormalFacts
<1>2. PICK whole, width, fraction : Written(text, e, whole, width, fraction)
  BY ShowWritten
<1>3. PICK whole2, width2, fraction2 : Written(text, f, whole2, width2, fraction2)
  BY ShowWritten, Zenon
<1> HIDE DEF e, f, text
<1>4. /\ MaxDigits \in Nat /\ width \in 1 .. MaxDigits /\ width2 \in 1 .. MaxDigits
      /\ width \in Nat /\ width2 \in Nat
      /\ e.places \in 0 .. MaxDigits /\ f.places \in 0 .. MaxDigits
      /\ e.places \in Nat /\ f.places \in Nat
  BY <1>1, <1>2, <1>3, CodecAssumption DEF Decimal, Written
<1>5. ASSUME NEW g, NEW v, NEW w, NEW u, g \in Decimal, Written(text, g, v, w, u)
      PROVE  \A i \in 1 .. Len(text) : text[i] = 46 <=> g.places > 0 /\ i = w + 1
  <2>1. /\ w \in Nat /\ w \in 1 .. MaxDigits /\ g.places \in 0 .. MaxDigits /\ g.places \in Nat
        /\ v \in Nat /\ u \in Nat
    BY <1>4, <1>5 DEF Decimal, Written
  <2>2. \A i \in 1 .. w : text[i] \in 48 .. 57
    <3>1. \A i \in 1 .. w : Numeral(v, w)[i] \in 48 .. 57
      <4>1. Numeral(v, w) \in Seq(48 .. 57) /\ Len(Numeral(v, w)) = w
        <5>1. w \in 0 .. MaxDigits
          BY <1>4, <2>1
        <5> QED
          BY <2>1, <5>1, NumeralType
      <4> QED
        BY <4>1, ElementOfSeq
    <3> QED
      BY <1>5, <3>1 DEF Written
  <2>3. \A i \in 1 .. g.places : text[w + 1 + i] \in 48 .. 57
    <3>1. \A i \in 1 .. g.places : Numeral(u, g.places)[i] \in 48 .. 57
      <4>1. Numeral(u, g.places) \in Seq(48 .. 57) /\ Len(Numeral(u, g.places)) = g.places
        BY <2>1, NumeralType
      <4> QED
        BY <4>1, ElementOfSeq
    <3> QED
      BY <1>5, <3>1 DEF Written
  <2>4. /\ Len(text) = IF g.places = 0 THEN w ELSE w + 1 + g.places
        /\ g.places > 0 => text[w + 1] = 46
    BY <1>5 DEF Written
  <2> TAKE i \in 1 .. Len(text)
  <2>5. CASE i <= w
    BY <2>1, <2>2, <2>5, SMTT(30)
  <2>6. CASE i = w + 1
    BY <2>1, <2>4, <2>6
  <2>7. CASE i > w + 1
    <3>1. (i - w) - 1 \in 1 .. g.places /\ w + 1 + ((i - w) - 1) = i
      BY <2>1, <2>4, <2>7
    <3>2. text[i] \in 48 .. 57
      BY <2>3, <3>1
    <3> QED
      BY <2>1, <2>7, <3>2
  <2> QED
    BY <2>1, <2>4, <2>5, <2>6, <2>7
<1>6. e.places = f.places /\ width = width2
  <2>1. /\ Len(text) = IF e.places = 0 THEN width ELSE width + 1 + e.places
        /\ Len(text) = IF f.places = 0 THEN width2 ELSE width2 + 1 + f.places
    BY <1>2, <1>3 DEF Written
  <2>2. /\ \A i \in 1 .. Len(text) : text[i] = 46 <=> e.places > 0 /\ i = width + 1
        /\ \A i \in 1 .. Len(text) : text[i] = 46 <=> f.places > 0 /\ i = width2 + 1
    BY <1>1, <1>2, <1>3, <1>5
  <2>3. CASE e.places = 0 /\ f.places = 0
    BY <1>4, <2>1, <2>3
  <2>4. CASE e.places > 0
    <3>1. width + 1 \in 1 .. Len(text)
      BY <1>4, <2>1, <2>4
    <3>2. f.places > 0 /\ width + 1 = width2 + 1
      BY <2>2, <2>4, <3>1
    <3> QED
      BY <1>4, <2>1, <2>4, <3>2
  <2>5. CASE f.places > 0
    <3>1. width2 + 1 \in 1 .. Len(text)
      BY <1>4, <2>1, <2>5
    <3>2. e.places > 0 /\ width + 1 = width2 + 1
      BY <2>2, <2>5, <3>1
    <3> QED
      BY <1>4, <2>1, <2>5, <3>2
  <2> QED
    BY <1>4, <2>3, <2>4, <2>5
<1>7. whole = whole2
  <2>1. whole \in Nat /\ whole2 \in Nat /\ whole < Tens[width] /\ whole2 < Tens[width]
    BY <1>2, <1>3, <1>6 DEF Written
  <2>2. \A i \in 1 .. width : Numeral(whole, width)[i] = Numeral(whole2, width)[i]
    BY <1>2, <1>3, <1>6 DEF Written
  <2>3. Numeral(whole, width) = Numeral(whole2, width)
    <3>1. width \in 0 .. MaxDigits
      BY <1>4
    <3> HIDE DEF Numeral
    <3> QED
      BY <2>1, <2>2, <3>1, NumeralType, SeqEqual
  <2> QED
    BY <1>4, <2>1, <2>3, NumeralInjective
<1>8. fraction = fraction2
  <2> DEFINE p == e.places
  <2>1. fraction \in Nat /\ fraction2 \in Nat /\ fraction < Tens[p] /\ fraction2 < Tens[p]
    BY <1>2, <1>3, <1>6 DEF Written
  <2>2. \A i \in 1 .. p : Numeral(fraction, p)[i] = Numeral(fraction2, p)[i]
    BY <1>2, <1>3, <1>6 DEF Written
  <2>3. Numeral(fraction, p) = Numeral(fraction2, p)
    BY <1>4, <2>1, <2>2, NumeralType, SeqEqual
  <2> QED
    BY <1>4, <2>1, <2>3, NumeralInjective
<1>9. e.n = f.n
  BY <1>2, <1>3, <1>6, <1>7, <1>8 DEF Written
<1>10. e = f
  BY <1>1, <1>6, <1>9 DEF Decimal
<1> QED
  BY <1>10 DEF e, f

\* Whoever reads what was written of an amount in use has that amount, in its
\* shortest form.
THEOREM ReadShow ==
  ASSUME NEW a \in Amounts, a.n > 0
  PROVE  /\ a \in Decimal /\ a.n < Tens[MaxDigits]
         /\ ReadDecimal(Show(a)) = Normal(a)
         /\ Normal(a).n > 0
<1>1. \A d \in Amounts : d.n > 0 => d \in Decimal /\ d.n < Tens[MaxDigits]
  <2> TAKE d \in Amounts
  <2>1. d \in [n : Int, places : 0 .. MaxDigits] /\ d.n < Tens[MaxDigits]
    BY CodecAssumption
  <2> QED
    BY <2>1 DEF Decimal
<1> DEFINE c == CHOOSE d \in Amounts : d.n > 0 /\ Show(d) = Show(a)
<1>2. c \in Amounts /\ c.n > 0 /\ Show(c) = Show(a)
  BY Zenon
<1>3. ReadDecimal(Show(a)) = Normal(c)
  BY Zenon DEF ReadDecimal
<1> HIDE DEF c
<1>4. Normal(c) = Normal(a)
  BY <1>1, <1>2, ShowInjective
<1>5. Normal(a).n > 0
  <2>1. a \in Decimal /\ a.n \in Nat
    BY <1>1 DEF Decimal
  <2>2. Normal(a) \in Decimal /\ a.n = Normal(a).n * Tens[a.places - Normal(a).places]
        /\ Normal(a).places <= a.places
    BY <2>1, NormalFacts
  <2>3. a.places - Normal(a).places \in 0 .. MaxDigits /\ Normal(a).n \in Nat
    BY <2>1, <2>2, CodecAssumption DEF Decimal
  <2>4. Tens[a.places - Normal(a).places] \in Nat
    BY <2>3, TensFacts
  <2>5. CASE Normal(a).n = 0
    BY <2>1, <2>2, <2>4, <2>5
  <2> QED
    BY <2>3, <2>5
<1> QED
  BY <1>1, <1>3, <1>4, <1>5

\* The units of an amount are those of its shortest form, and what the preview
\* shows of it, rounded to cents, is what it would show of its units.
THEOREM UnitsOfShort ==
  ASSUME NEW a \in Decimal, a.n > 0, Normal(a).n > 0
  PROVE  /\ BaseUnits(Normal(a)) = BaseUnits(a)
         /\ BaseUnits(a) # Refused =>
              ToFixed(Normal(a)) = ToFixed([n |-> BaseUnits(a), places |-> 6])
<1> DEFINE e == Normal(a)
<1>1. e \in Decimal /\ Normal(e) = e /\ (e.places = 0 \/ e.n % 10 # 0)
  BY NormalFacts, NormalOfNormal
<1>2. BaseUnits(a) = IF a.n <= 0 \/ e.places > 6 THEN Refused ELSE e.n * Tens[6 - e.places]
  BY Zenon DEF BaseUnits
<1>3. BaseUnits(e) = IF e.n <= 0 \/ e.places > 6 THEN Refused ELSE e.n * Tens[6 - e.places]
  BY <1>1, Zenon DEF BaseUnits
<1>4. a.n \in Nat /\ e.n \in Nat /\ e.n > 0 /\ e.places \in 0 .. MaxDigits /\ e.places \in Nat
      /\ MaxDigits \in Nat /\ MaxDigits >= 6
  BY <1>1, CodecAssumption DEF Decimal
<1> HIDE DEF e
<1>5. BaseUnits(e) = BaseUnits(a)
  BY <1>2, <1>3, <1>4
<1>6. ASSUME BaseUnits(a) # Refused
      PROVE  ToFixed(e) = ToFixed([n |-> BaseUnits(a), places |-> 6])
  <2>1. e.places <= 6 /\ BaseUnits(a) = e.n * Tens[6 - e.places]
    BY <1>2, <1>4, <1>6
  <2>2. 6 - e.places \in 0 .. MaxDigits /\ e.places + (6 - e.places) = 6
    BY <1>4, <2>1
  <2> DEFINE u == [n |-> BaseUnits(a), places |-> 6]
  <2>3. Normal(u) = [n |-> e.n, places |-> e.places]
    <3> DEFINE k == 6 - e.places
    <3>0. k \in 0 .. MaxDigits /\ e.places + k = 6 /\ e.places + k <= MaxDigits
      BY <1>4, <2>2
    <3> HIDE DEF k
    <3>1. Normal([n |-> e.n * Tens[k], places |-> e.places + k])
            = [n |-> e.n, places |-> e.places]
      BY <1>1, <1>4, <3>0, NormalUnique
    <3> QED
      BY <2>1, <3>0, <3>1 DEF k
  <2>4. e = [n |-> e.n, places |-> e.places]
    BY <1>1 DEF Decimal
  <2>5. Normal(u) = Normal(e)
    BY <1>1, <2>3, <2>4
  <2> HIDE DEF u
  <2>6. ToFixed(e) = ToFixed(u)
    BY <2>5, ZenonT(60) DEF ToFixed
  <2> QED
    BY <2>6 DEF u
<1> QED
  BY <1>5, <1>6 DEF e

-----------------------------------------------------------------------------
(* Texts put together from pieces. *)

\* The fold in FlattenSeq, unrolled,
LEMMA FlattenDef ==
  ASSUME NEW S, NEW ss \in Seq(Seq(S)), ss # <<>>
  PROVE  \E f : /\ FlattenSeq(ss) = f[Len(ss)]
                /\ f[1] = ss[1]
                /\ \A i \in 2 .. Len(ss) : f[i] = f[i - 1] \o ss[i]
<1> DEFINE n == Len(ss)
           Upto(m, g) == g = [i \in 1 .. m |-> IF i = 1 THEN ss[i] ELSE g[i - 1] \o ss[i]]
           Bad == {m \in 1 .. n : ~ \E g : Upto(m, g)}
<1>1. n \in Nat /\ n >= 1
  BY EmptySeq
<1>2. /\ Bad \in SUBSET Nat /\ Bad \subseteq 1 .. n
      /\ \A m \in 1 .. n : m \in Bad <=> ~ \E g : Upto(m, g)
  <2> HIDE DEF Upto
  <2> QED
    BY <1>1
<1> HIDE DEF Bad
<1>3. Bad = {}
  <2>1. SUFFICES ASSUME Bad # {} PROVE FALSE
    OBVIOUS
  <2>2. PICK m \in Bad : \A k \in Bad : m <= k
    BY <1>2, <2>1, Least
  <2>3. m # 1
    <3>1. Upto(1, [i \in 1 .. 1 |-> ss[i]])
      OBVIOUS
    <3> QED
      BY <1>2, <2>2, <3>1
  <2>4. m \in 1 .. n /\ m - 1 \in 1 .. n /\ m - 1 \notin Bad /\ m \in Nat
    BY <1>1, <1>2, <2>2, <2>3
  <2>5. PICK g : Upto(m - 1, g)
    BY <1>2, <2>4
  <2> DEFINE h == [i \in 1 .. m |-> IF i = 1 THEN ss[i] ELSE g[i - 1] \o ss[i]]
  <2>6. Upto(m, h)
    <3>1. \A i \in 1 .. m - 1 : h[i] = g[i]
      <4>1. \A i \in 1 .. m - 1 : g[i] = IF i = 1 THEN ss[i] ELSE g[i - 1] \o ss[i]
        BY <2>5, Zenon
      <4>2. \A i \in 1 .. m - 1 : i \in 1 .. m
        BY <2>4
      <4>3. \A i \in 1 .. m : h[i] = IF i = 1 THEN ss[i] ELSE g[i - 1] \o ss[i]
        BY Zenon
      <4> QED
        BY <4>1, <4>2, <4>3, Zenon
    <3>2. \A i \in 1 .. m : i # 1 => i - 1 \in 1 .. m - 1
      BY <2>4
    <3>3. \A i \in 1 .. m : (IF i = 1 THEN ss[i] ELSE g[i - 1] \o ss[i])
                             = IF i = 1 THEN ss[i] ELSE h[i - 1] \o ss[i]
      BY <3>1, <3>2
    <3> QED
      BY <3>3, Zenon
  <2> QED
    BY <1>2, <2>2, <2>4, <2>6
<1> DEFINE f == CHOOSE g : Upto(n, g)
<1>4. Upto(n, f)
  <2>1. n \in 1 .. n
    BY <1>1
  <2>2. \E g : Upto(n, g)
    BY <1>2, <1>3, <2>1
  <2> QED
    BY <2>2, Zenon
<1>5. FlattenSeq(ss) = f[n]
  <2>1. n # 0
    BY <1>1
  <2> QED
    BY <2>1, Zenon DEF FlattenSeq
<1> HIDE DEF f
<1>6. f[1] = ss[1] /\ \A i \in 2 .. n : f[i] = f[i - 1] \o ss[i]
  <2>1. \A i \in 1 .. n : f[i] = IF i = 1 THEN ss[i] ELSE f[i - 1] \o ss[i]
    BY <1>4, Zenon
  <2>2. 1 \in 1 .. n /\ \A i \in 2 .. n : i \in 1 .. n /\ i # 1
    BY <1>1
  <2> QED
    BY <2>1, <2>2
<1> QED
  BY <1>5, <1>6

\* The same with hypotheses and conclusion under names.
Unrolled(ss) ==
  \E f : /\ FlattenSeq(ss) = f[Len(ss)]
         /\ f[1] = ss[1]
         /\ \A i \in 2 .. Len(ss) : f[i] = f[i - 1] \o ss[i]
Pieces(S, ss) == ss \in Seq(Seq(S)) /\ ss # <<>>

\* The fold unrolled.
LEMMA FlattenUnrolls ==
  ASSUME NEW S, NEW ss, Pieces(S, ss)
  PROVE  Unrolled(ss)
<1>1. ss \in Seq(Seq(S)) /\ ss # <<>>
  BY Zenon DEF Pieces
<1> QED
  BY <1>1, FlattenDef, Zenon DEF Unrolled

\* for no sequence,
LEMMA FlattenNone == FlattenSeq(<<>>) = <<>>
BY EmptySeq DEF FlattenSeq

\* What Append does.
LEMMA AppendFacts ==
  ASSUME NEW T, NEW s \in Seq(T), NEW e \in T
  PROVE  /\ Append(s, e) \in Seq(T) /\ Len(s) \in Nat /\ Len(Append(s, e)) = Len(s) + 1
         /\ Append(s, e)[Len(s) + 1] = e /\ \A i \in 1 .. Len(s) : Append(s, e)[i] = s[i]
OBVIOUS

\* and for one sequence more.
LEMMA FlattenAppend ==
  ASSUME NEW S, NEW ss \in Seq(Seq(S)), NEW x \in Seq(S), FlattenSeq(ss) \in Seq(S)
  PROVE  FlattenSeq(Append(ss, x)) = FlattenSeq(ss) \o x
<1> DEFINE n == Len(ss)
           tt == Append(ss, x)
<1>1. /\ n \in Nat /\ tt \in Seq(Seq(S)) /\ Len(tt) = n + 1 /\ tt # <<>>
      /\ tt[n + 1] = x /\ \A i \in 1 .. n : tt[i] = ss[i]
  <2>2. /\ n \in Nat /\ tt \in Seq(Seq(S)) /\ Len(tt) = n + 1
        /\ tt[n + 1] = x /\ \A i \in 1 .. n : tt[i] = ss[i]
    BY AppendFacts
  <2> HIDE DEF tt
  <2> QED
    BY <2>2, EmptySeq
<1> HIDE DEF tt
<1>2. PICK f : /\ FlattenSeq(tt) = f[Len(tt)] /\ f[1] = tt[1]
               /\ \A i \in 2 .. Len(tt) : f[i] = f[i - 1] \o tt[i]
  <2>1. Pieces(S, tt)
    BY <1>1, Zenon DEF Pieces
  <2>2. Unrolled(tt)
    BY <2>1, FlattenUnrolls, Zenon
  <2> QED
    BY <2>2, Zenon DEF Unrolled
<1>3. CASE n = 0
  <2>1. ss = <<>>
    BY <1>3
  <2>2. FlattenSeq(ss) = <<>>
    BY <2>1, FlattenNone
  <2>3. FlattenSeq(tt) = x
    BY <1>1, <1>2, <1>3
  <2> QED
    BY <2>2, <2>3, ConcatEmptySeq DEF tt
<1>4. CASE n # 0
  <2>1. ss # <<>>
    BY <1>1, <1>4
  <2>2. PICK g : /\ FlattenSeq(ss) = g[n] /\ g[1] = ss[1]
                 /\ \A i \in 2 .. n : g[i] = g[i - 1] \o ss[i]
    <3>1. Pieces(S, ss)
      BY <2>1, Zenon DEF Pieces
    <3>2. Unrolled(ss)
      BY <3>1, FlattenUnrolls, Zenon
    <3> QED
      BY <3>2, Zenon DEF Unrolled
  <2> DEFINE Bad == {i \in 1 .. n : f[i] # g[i]}
  <2>3. Bad = {}
    <3>0. Bad \in SUBSET Nat /\ Bad \subseteq 1 .. n /\ \A i \in 1 .. n : i \in Bad <=> f[i] # g[i]
      BY <1>1
    <3> HIDE DEF Bad
    <3>1. SUFFICES ASSUME Bad # {} PROVE FALSE
      OBVIOUS
    <3>2. PICK m \in Bad : \A k \in Bad : m <= k
      BY <3>0, <3>1, Least
    <3>3. m # 1
      BY <1>1, <1>2, <2>2, <3>0, <3>2
    <3>4. m \in 2 .. n /\ m - 1 \in 1 .. n /\ m - 1 \notin Bad /\ m \in 2 .. n + 1 /\ m \in 1 .. n
      BY <1>1, <3>0, <3>2, <3>3
    <3>5. f[m] = f[m - 1] \o tt[m] /\ g[m] = g[m - 1] \o ss[m] /\ tt[m] = ss[m]
      BY <1>1, <1>2, <2>2, <3>4
    <3>6. f[m - 1] = g[m - 1]
      BY <3>0, <3>4
    <3> QED
      BY <3>0, <3>2, <3>4, <3>5, <3>6
  <2>4. f[n] = g[n]
    <3>1. n \in 1 .. n
      BY <1>1, <1>4
    <3> QED
      BY <2>3, <3>1
  <2>5. f[n + 1] = f[n] \o x
    <3>1. n + 1 \in 2 .. Len(tt) /\ (n + 1) - 1 = n
      BY <1>1, <1>4
    <3> QED
      BY <1>1, <1>2, <3>1
  <2> QED
    BY <1>1, <1>2, <2>2, <2>4, <2>5 DEF tt
<1> QED
  BY <1>3, <1>4

\* A sequence that is not empty is what comes before its last element, and that.
LEMMA SplitLast ==
  ASSUME NEW T, NEW ss \in Seq(T), ss # <<>>
  PROVE  \E tt \in Seq(T), x \in T : ss = Append(tt, x) /\ Len(tt) = Len(ss) - 1
<1> DEFINE n == Len(ss)
           tt == SubSeq(ss, 1, n - 1)
<1>1. n \in Nat /\ n >= 1 /\ ss[n] \in T
  BY EmptySeq
<1>2. tt \in Seq(T) /\ Len(tt) = n - 1 /\ \A i \in 1 .. n - 1 : tt[i] = ss[i]
  <2>1. 1 \in Int /\ n - 1 \in Int /\ \A i \in 1 .. n - 1 : ss[i] \in T
    BY <1>1
  <2>2. /\ SubSeq(ss, 1, n - 1) \in Seq(T)
        /\ Len(SubSeq(ss, 1, n - 1)) = IF 1 <= n - 1 THEN (n - 1) - 1 + 1 ELSE 0
        /\ \A i \in 1 .. (n - 1) - 1 + 1 : SubSeq(ss, 1, n - 1)[i] = ss[1 + i - 1]
    BY <2>1, SubSeqProperties
  <2>3. (n - 1) - 1 + 1 = n - 1 /\ \A i \in 1 .. n - 1 : 1 + i - 1 = i
    BY <1>1
  <2> HIDE DEF n
  <2> QED
    BY <1>1, <2>2, <2>3
<1> HIDE DEF tt
<1>3. ss = Append(tt, ss[n])
  BY <1>1, <1>2
<1> QED
  BY <1>1, <1>2, <1>3

\* What is flattened is a sequence of the same elements.
LEMMA FlattenType ==
  ASSUME NEW S, NEW ss \in Seq(Seq(S))
  PROVE  FlattenSeq(ss) \in Seq(S)
<1> DEFINE Bad == {n \in Nat : \E tt \in Seq(Seq(S)) : Len(tt) = n /\ FlattenSeq(tt) \notin Seq(S)}
<1>1. SUFFICES ASSUME Bad # {} PROVE FALSE
  BY Zenon, LenProperties
<1>2. PICK m \in Bad : \A k \in Bad : m <= k
  BY <1>1, Least
<1>3. PICK tt \in Seq(Seq(S)) : Len(tt) = m /\ FlattenSeq(tt) \notin Seq(S)
  BY <1>2
<1>4. tt # <<>>
  BY <1>3, FlattenNone
<1>5. PICK uu \in Seq(Seq(S)), x \in Seq(S) : tt = Append(uu, x) /\ Len(uu) = Len(tt) - 1
  BY <1>4, SplitLast
<1>6. FlattenSeq(uu) \in Seq(S)
  <2>1. Len(uu) \in Nat /\ ~ (m <= Len(uu))
    BY <1>3, <1>5
  <2>2. Len(uu) \notin Bad
    BY <1>2, <2>1
  <2> QED
    BY <2>1, <2>2
<1>7. FlattenSeq(tt) = FlattenSeq(uu) \o x
  BY <1>5, <1>6, FlattenAppend
<1> QED
  BY <1>3, <1>6, <1>7, ConcatProperties

\* Three sequences of the same elements.
Joins(S, a, b, c) == a \in Seq(S) /\ b \in Seq(S) /\ c \in Seq(S)
\* It does not matter which two are joined first.
Associates(a, b, c) == (a \o b) \o c = a \o (b \o c)

\* Concatenation is associative.
LEMMA JoinAssociates ==
  ASSUME NEW S, NEW a, NEW b, NEW c, Joins(S, a, b, c)
  PROVE  Associates(a, b, c)
<1>1. a \in Seq(S) /\ b \in Seq(S) /\ c \in Seq(S)
  BY Zenon DEF Joins
<1> QED
  BY <1>1, ConcatAssociative DEF Associates

\* Flattening is the same in two parts, if it is with the second one shorter,
LEMMA FlattenOneMore ==
  ASSUME NEW S, NEW ss \in Seq(Seq(S)), NEW tt \in Seq(Seq(S)), NEW x \in Seq(S),
         FlattenSeq(ss \o tt) = FlattenSeq(ss) \o FlattenSeq(tt)
  PROVE  FlattenSeq(ss \o Append(tt, x)) = FlattenSeq(ss) \o FlattenSeq(Append(tt, x))
<1>1. FlattenSeq(ss) \in Seq(S) /\ FlattenSeq(tt) \in Seq(S)
  BY FlattenType
<1>2. (FlattenSeq(ss) \o FlattenSeq(tt)) \o x = FlattenSeq(ss) \o (FlattenSeq(tt) \o x)
  <2>1. PICK a, b : a = FlattenSeq(ss) /\ b = FlattenSeq(tt)
    OBVIOUS
  <2>2. a \in Seq(S) /\ b \in Seq(S)
    BY <1>1, <2>1, Zenon
  <2>3. (a \o b) \o x = a \o (b \o x)
    <3>1. Joins(S, a, b, x)
      BY <2>2, Zenon DEF Joins
    <3>2. Associates(a, b, x)
      BY <3>1, JoinAssociates, Zenon
    <3> QED
      BY <3>2, Zenon DEF Associates
  <2> QED
    BY <2>1, <2>3, Zenon
<1>3. ss \o Append(tt, x) = Append(ss \o tt, x) /\ ss \o tt \in Seq(Seq(S))
  OBVIOUS
<1>4. FlattenSeq(Append(ss \o tt, x)) = FlattenSeq(ss \o tt) \o x
  BY <1>3, FlattenAppend, FlattenType
<1>5. FlattenSeq(Append(tt, x)) = FlattenSeq(tt) \o x
  BY <1>1, FlattenAppend
<1> QED
  BY <1>2, <1>3, <1>4, <1>5

\* and so it is for any two parts,
LEMMA FlattenConcat ==
  ASSUME NEW S, NEW ss \in Seq(Seq(S)), NEW tt \in Seq(Seq(S))
  PROVE  FlattenSeq(ss \o tt) = FlattenSeq(ss) \o FlattenSeq(tt)
<1> DEFINE Bad == {n \in Nat : \E uu \in Seq(Seq(S)) :
                     Len(uu) = n /\ FlattenSeq(ss \o uu) # FlattenSeq(ss) \o FlattenSeq(uu)}
<1>1. SUFFICES ASSUME Bad # {} PROVE FALSE
  BY Zenon, LenProperties
<1>2. PICK m \in Bad : \A k \in Bad : m <= k
  BY <1>1, Least
<1>3. PICK uu \in Seq(Seq(S)) :
        Len(uu) = m /\ FlattenSeq(ss \o uu) # FlattenSeq(ss) \o FlattenSeq(uu)
  BY <1>2
<1>4. uu # <<>>
  <2>1. ss \o <<>> = ss /\ FlattenSeq(ss) \o <<>> = FlattenSeq(ss)
    BY FlattenType, ConcatEmptySeq
  <2> QED
    BY <1>3, <2>1, FlattenNone
<1>5. PICK vv \in Seq(Seq(S)), x \in Seq(S) : uu = Append(vv, x) /\ Len(vv) = Len(uu) - 1
  BY <1>4, SplitLast
<1>6. FlattenSeq(ss \o vv) = FlattenSeq(ss) \o FlattenSeq(vv)
  <2>1. Len(vv) \in Nat /\ ~ (m <= Len(vv))
    BY <1>3, <1>5
  <2>2. Len(vv) \notin Bad
    BY <1>2, <2>1
  <2> QED
    BY <2>1, <2>2
<1> QED
  BY <1>3, <1>5, <1>6, FlattenOneMore

\* also if the first one is a single sequence.
LEMMA FlattenFirst ==
  ASSUME NEW S, NEW x \in Seq(S), NEW tt \in Seq(Seq(S))
  PROVE  FlattenSeq(<<x>> \o tt) = x \o FlattenSeq(tt)
<1>1. <<x>> \in Seq(Seq(S)) /\ <<>> \in Seq(Seq(S)) /\ <<x>> = Append(<<>>, x)
  OBVIOUS
<1>2. FlattenSeq(<<x>>) = <<>> \o x
  BY <1>1, FlattenNone, FlattenType, FlattenAppend
<1>3. FlattenSeq(<<x>>) = x
  BY <1>2, ConcatEmptySeq
<1> QED
  BY <1>1, <1>3, FlattenConcat

-----------------------------------------------------------------------------
(* The loop over the fields.                                               *)

\* Fields as they are read, and the results of a loop over fields.
Field == [tag : Seq(Byte), value : Seq(Byte)]
Result == [fields : Seq(Field), end : {"done", "no number", "truncated"}, at : Nat]

\* A number that is read has two digits, if it is one.
LEMMA NumberType ==
  ASSUME NEW text \in Seq(Byte), NEW i \in 1 .. Len(text) - 1
  PROVE  NumberAt(text, i) \in 0 .. 99 \cup {NoNumber}
<1>1. i \in 1 .. Len(text) /\ i + 1 \in 1 .. Len(text)
  OBVIOUS
<1>2. text[i] \in Byte /\ text[i + 1] \in Byte
  BY <1>1
<1> DEFINE a == text[i]
           b == text[i + 1]
<1>3. a \in Nat /\ b \in Nat
  <2>1. \A c \in Byte : c \in Nat
    BY DEF Byte
  <2> QED
    BY <1>2, <2>1
<1>4. NumberAt(text, i) = IF ~ (a \in 48 .. 57) THEN -1
                          ELSE IF b \in 48 .. 57 THEN 10 * (a - 48) + b - 48 ELSE a - 48
  BY Zenon DEF NumberAt, IsDigit, NoNumber
<1> HIDE DEF a, b
<1>5. NumberAt(text, i) \in 0 .. 99 \cup {-1}
  BY <1>3, <1>4
<1> QED
  BY <1>5 DEF NoNumber

\* The loop goes forward, so what it yields from an offset on depends on what
\* it yields further on only.
LEMMA ScanLocal ==
  ASSUME NEW text \in Seq(Byte), NEW i \in 0 .. Len(text), NEW g, NEW h,
         \A j \in (i + 1) .. Len(text) : g[j] = h[j]
  PROVE  ScanFrom(text, i, g) = ScanFrom(text, i, h)
<1> DEFINE length == NumberAt(text, i + 3)
           next == i + 4 + length
<1>1. CASE i + 4 > Len(text) \/ length = NoNumber \/ next > Len(text)
  BY <1>1 DEF ScanFrom
<1>2. CASE ~ (i + 4 > Len(text) \/ length = NoNumber \/ next > Len(text))
  <2>1. i \in Nat /\ Len(text) \in Nat /\ i + 4 <= Len(text)
    BY <1>2
  <2>2. i + 3 \in 1 .. Len(text) - 1
    BY <2>1
  <2>3. length \in 0 .. 99
    BY <1>2, <2>2, NumberType
  <2>4. next \in (i + 1) .. Len(text)
    <3>1. PICK n, l : n = Len(text) /\ l = length
      OBVIOUS
    <3>2. i \in Nat /\ n \in Nat /\ l \in 0 .. 99 /\ ~ (i + 4 + l > n)
      BY <1>2, <2>1, <2>3, <3>1, Zenon
    <3>3. i + 4 + l \in (i + 1) .. n
      BY <3>2
    <3> QED
      BY <3>1, <3>3, Zenon
  <2>5. g[next] = h[next]
    BY <2>4
  <2> HIDE DEF next, length
  <2> QED
    BY <1>2, <2>5 DEF ScanFrom, next, length
<1> QED
  BY <1>1, <1>2

\* The loop is a function that is defined by recursion, from the end of the text
\* back to its beginning: there is one.
LEMMA ScanDef ==
  ASSUME NEW text \in Seq(Byte)
  PROVE  \A i \in 0 .. Len(text) : Scan(text)[i] = ScanFrom(text, i, Scan(text))
<1> DEFINE n == Len(text)
           From(m, g) == g = [i \in m .. n |-> ScanFrom(text, i, g)]
           Bad == {k \in 0 .. n : ~ \E g : From(n - k, g)}
<1>1. n \in Nat
  OBVIOUS
<1>2. /\ Bad \in SUBSET Nat /\ Bad \subseteq 0 .. n
      /\ \A k \in 0 .. n : k \in Bad <=> ~ \E g : From(n - k, g)
  <2> HIDE DEF From
  <2> QED
    BY <1>1
<1> HIDE DEF Bad
<1>3. ASSUME NEW m \in 1 .. n, NEW g, From(m, g)
      PROVE  \E h : From(m - 1, h)
  <2> DEFINE h == [i \in m - 1 .. n |-> IF i = m - 1 THEN ScanFrom(text, i, g) ELSE g[i]]
  <2>1. m \in Nat /\ \A i \in m .. n : i # m - 1 /\ i \in m - 1 .. n
    BY <1>1
  <2>2. \A i \in m .. n : h[i] = g[i]
    BY <2>1, Zenon
  <2>3. \A i \in m .. n : g[i] = ScanFrom(text, i, g)
    BY <1>3, Zenon
  <2>4. \A i \in m - 1 .. n : h[i] = ScanFrom(text, i, g)
    <3> TAKE i \in m - 1 .. n
    <3>1. i = m - 1 \/ i \in m .. n
      BY <1>1, <2>1
    <3>2. h[i] = IF i = m - 1 THEN ScanFrom(text, i, g) ELSE g[i]
      BY Zenon
    <3> QED
      BY <2>3, <3>1, <3>2, Zenon
  <2>5. \A i \in m - 1 .. n : ScanFrom(text, i, g) = ScanFrom(text, i, h)
    <3> HIDE DEF h
    <3> TAKE i \in m - 1 .. n
    <3>1. i \in 0 .. Len(text) /\ \A j \in (i + 1) .. Len(text) : j \in m .. n
      BY <1>1, <2>1
    <3>2. \A j \in (i + 1) .. Len(text) : g[j] = h[j]
      BY <2>2, <3>1, Zenon
    <3> QED
      BY <3>1, <3>2, ScanLocal
  <2>6. h = [i \in m - 1 .. n |-> h[i]]
    BY Zenon
  <2> HIDE DEF h
  <2>7. \A i \in m - 1 .. n : h[i] = ScanFrom(text, i, h)
    BY <2>4, <2>5, Zenon
  <2>8. From(m - 1, h)
    BY <2>6, <2>7, Zenon
  <2> QED
    BY <2>8
<1>4. Bad = {}
  <2>1. SUFFICES ASSUME Bad # {} PROVE FALSE
    OBVIOUS
  <2>2. PICK m \in Bad : \A k \in Bad : m <= k
    BY <1>2, <2>1, Least
  <2>3. m # 0
    <3> DEFINE g == [i \in n .. n |-> ScanFrom(text, i, <<>>)]
    <3>1. \A i \in n .. n : ScanFrom(text, i, <<>>) = ScanFrom(text, i, g)
      <4> HIDE DEF g
      <4> TAKE i \in n .. n
      <4>1. i \in 0 .. Len(text) /\ \A j \in (i + 1) .. Len(text) : <<>>[j] = g[j]
        BY <1>1
      <4> QED
        BY <4>1, ScanLocal
    <3>2. From(n, g)
      BY <3>1, Zenon
    <3>3. n - 0 = n /\ 0 \in 0 .. n
      BY <1>1
    <3> HIDE DEF From, g
    <3>4. From(n - 0, g)
      BY <3>2, <3>3
    <3> QED
      BY <1>2, <2>2, <3>3, <3>4
  <2>4. m \in 0 .. n /\ m - 1 \in 0 .. n /\ m - 1 \notin Bad /\ n - m + 1 \in 1 .. n
    BY <1>1, <1>2, <2>2, <2>3
  <2> HIDE DEF From
  <2>5. PICK g : From(n - (m - 1), g)
    BY <1>2, <2>4
  <2>6. n - (m - 1) \in 1 .. n /\ n - (m - 1) - 1 = n - m
    BY <1>1, <2>4
  <2>7. \E h : From(n - m, h)
    BY <1>3, <2>5, <2>6
  <2> QED
    BY <1>2, <2>2, <2>4, <2>7
<1>5. \E g : From(0, g)
  <2>1. n \in 0 .. n /\ n \notin Bad /\ n - n = 0
    BY <1>1, <1>4
  <2> HIDE DEF From
  <2> QED
    BY <1>2, <2>1
<1> DEFINE f == CHOOSE g : From(0, g)
<1>6. From(0, f)
  BY <1>5, Zenon
<1>7. Scan(text) = f
  BY Zenon DEF Scan
<1> HIDE DEF f
<1>8. \A i \in 0 .. n : f[i] = ScanFrom(text, i, f)
  BY <1>6, Zenon
<1> QED
  BY <1>7, <1>8, Zenon

\* Where the elements of a concatenation are,
LEMMA Joined ==
  ASSUME NEW S, NEW a \in Seq(S), NEW b \in Seq(S), NEW t, t = a \o b
  PROVE  /\ t \in Seq(S) /\ Len(t) = Len(a) + Len(b)
         /\ Len(a) \in Nat /\ Len(b) \in Nat
         /\ \A j \in 1 .. Len(a) : t[j] = a[j]
         /\ \A j \in 1 .. Len(b) : t[Len(a) + j] = b[j]
OBVIOUS

\* of one in three parts,
LEMMA Amid ==
  ASSUME NEW S, NEW pre \in Seq(S), NEW mid \in Seq(S), NEW post \in Seq(S),
         NEW tail, NEW text, tail = mid \o post, text = pre \o tail
  PROVE  /\ text \in Seq(S) /\ Len(text) = Len(pre) + (Len(mid) + Len(post))
         /\ \A j \in 1 .. Len(mid) : text[Len(pre) + j] = mid[j]
<1>1. /\ tail \in Seq(S) /\ Len(tail) = Len(mid) + Len(post)
      /\ Len(mid) \in Nat /\ Len(post) \in Nat
      /\ \A j \in 1 .. Len(mid) : tail[j] = mid[j]
  BY Joined
<1>2. /\ text \in Seq(S) /\ Len(text) = Len(pre) + Len(tail)
      /\ \A j \in 1 .. Len(tail) : text[Len(pre) + j] = tail[j]
  BY <1>1, Joined
<1>3. \A j \in 1 .. Len(mid) : j \in 1 .. Len(tail)
  BY <1>1
<1> QED
  BY <1>1, <1>2, <1>3

\* and what is cut out of one.
LEMMA CutOut ==
  ASSUME NEW S, NEW text \in Seq(S), NEW x \in Seq(S), NEW k \in Nat, k + Len(x) <= Len(text),
         \A j \in 1 .. Len(x) : text[k + j] = x[j]
  PROVE  SubSeq(text, k + 1, k + Len(x)) = x
<1> DEFINE s == SubSeq(text, k + 1, k + Len(x))
<1>1. /\ s \in Seq(S) /\ Len(s) = Len(x)
      /\ \A j \in 1 .. Len(x) : s[j] = text[k + j]
  OBVIOUS
<1> HIDE DEF s
<1>2. \A j \in 1 .. Len(s) : s[j] = x[j]
  BY <1>1
<1>3. s = x
  BY <1>1, <1>2, SeqEqual
<1> QED
  BY <1>3 DEF s

\* The two digits of a number up to 99, and back.
LEMMA TwoDigitNumber ==
  ASSUME NEW n \in 0 .. 99, NEW text, NEW i \in Nat,
         text[i] = Numeral(n, 2)[1], text[i + 1] = Numeral(n, 2)[2]
  PROVE  NumberAt(text, i) = n
<1>1. 2 \in 0 .. MaxDigits
  BY CodecAssumption
<1>2. /\ Numeral(n, 2)[1] = 48 + ((n \div Tens[2 - 1]) % 10)
      /\ Numeral(n, 2)[2] = 48 + ((n \div Tens[2 - 2]) % 10)
  <2>1. n \in Nat /\ 1 \in 1 .. 2 /\ 2 \in 1 .. 2
    OBVIOUS
  <2> QED
    BY <1>1, <2>1, NumeralType
<1>3. Tens[2 - 1] = 10 /\ Tens[2 - 2] = 1
  BY TensFacts
<1>4. (n \div 10) % 10 = n \div 10 /\ n \div 1 = n /\ n \div 10 \in 0 .. 9 /\ n % 10 \in 0 .. 9
      /\ n = 10 * (n \div 10) + (n % 10)
  OBVIOUS
<1>5. text[i] = 48 + (n \div 10) /\ text[i + 1] = 48 + (n % 10)
  BY <1>2, <1>3, <1>4
<1> DEFINE a == text[i]
           b == text[i + 1]
           q == n \div 10
           r == n % 10
<1>6. a = 48 + q /\ b = 48 + r /\ q \in 0 .. 9 /\ r \in 0 .. 9 /\ n = 10 * q + r
  BY <1>4, <1>5
<1>7. NumberAt(text, i) = IF ~ (a \in 48 .. 57) THEN -1
                          ELSE IF b \in 48 .. 57 THEN 10 * (a - 48) + b - 48 ELSE a - 48
  BY Zenon DEF NumberAt, IsDigit, NoNumber
<1> HIDE DEF a, b, q, r
<1> QED
  BY <1>6, <1>7

\* Digits are bytes.
LEMMA NumeralText ==
  ASSUME NEW n \in Nat, NEW w \in 0 .. MaxDigits
  PROVE  Numeral(n, w) \in Seq(0 .. 127) /\ Numeral(n, w) \in Seq(Byte)
<1>1. Numeral(n, w) \in Seq(48 .. 57)
  BY NumeralType
<1>2. 48 .. 57 \subseteq 0 .. 127 /\ 48 .. 57 \subseteq Byte
  BY DEF Byte
<1> HIDE DEF Numeral
<1> QED
  BY <1>1, <1>2, SeqMonotonic

\* Numbers with two digits,
LEMMA TwoDigitLength ==
  ASSUME NEW m \in Nat, m <= 99
  PROVE  m \in 0 .. 99
OBVIOUS

\* which is not too many.
LEMMA TwoFits == 2 \in 0 .. MaxDigits
BY CodecAssumption

TLVIs(S, tag, value) ==
  /\ TLV(tag, value) \in Seq(S) /\ Len(TLV(tag, value)) = 4 + Len(value)
  /\ \A j \in 1 .. 2 : TLV(tag, value)[j] = Numeral(tag, 2)[j]
  /\ \A j \in 1 .. 2 : TLV(tag, value)[2 + j] = Numeral(Len(value), 2)[j]
  /\ \A j \in 1 .. Len(value) : TLV(tag, value)[4 + j] = value[j]

\* Where tag, length and value of a field are.
LEMMA TLVFacts ==
  ASSUME NEW S, 48 .. 57 \subseteq S, NEW tag \in 0 .. 99, NEW value \in Seq(S), Len(value) <= 99
  PROVE  TLVIs(S, tag, value)
<1> DEFINE a == Numeral(tag, 2)
           b == Numeral(Len(value), 2)
<1>0. Len(value) \in Nat
  OBVIOUS
<1>1. TLV(tag, value) = a \o b \o value
  <2>1. Len(value) \in 0 .. 99
    BY <1>0, TwoDigitLength, Zenon
  <2>2. LengthOf(Len(value)) = b
    BY <2>1, TwoDigits
  <2>3. TLV(tag, value) = Numeral(tag, 2) \o LengthOf(Len(value)) \o value
    BY DEF TLV
  <2> QED
    BY <2>2, <2>3
<1>2. a \in Seq(48 .. 57) /\ Len(a) = 2 /\ b \in Seq(48 .. 57) /\ Len(b) = 2
  <2>1. 2 \in 0 .. MaxDigits /\ Len(value) \in Nat /\ tag \in Nat
    BY CodecAssumption
  <2> QED
    BY <2>1, NumeralType
<1> HIDE DEF a, b
<1>3. a \in Seq(S) /\ b \in Seq(S)
  BY <1>2, SeqMonotonic
<1> DEFINE c == a \o b
           t == c \o value
<1>4. /\ c \in Seq(S) /\ Len(c) = 4
      /\ \A j \in 1 .. 2 : c[j] = a[j] /\ c[2 + j] = b[j]
  <2>1. c = a \o b
    OBVIOUS
  <2> HIDE DEF c
  <2>2. /\ c \in Seq(S) /\ Len(c) = Len(a) + Len(b)
        /\ \A j \in 1 .. Len(a) : c[j] = a[j]
        /\ \A j \in 1 .. Len(b) : c[Len(a) + j] = b[j]
    BY <1>3, <2>1, Joined
  <2> QED
    BY <1>2, <2>2
<1> HIDE DEF c
<1>6. /\ t \in Seq(S) /\ Len(t) = 4 + Len(value)
      /\ \A j \in 1 .. 4 : t[j] = c[j]
      /\ \A j \in 1 .. Len(value) : t[4 + j] = value[j]
  <2>1. t = c \o value
    OBVIOUS
  <2> HIDE DEF t
  <2>2. /\ t \in Seq(S) /\ Len(t) = Len(c) + Len(value)
        /\ \A j \in 1 .. Len(c) : t[j] = c[j]
        /\ \A j \in 1 .. Len(value) : t[Len(c) + j] = value[j]
    <3>1. c \in Seq(S)
      BY <1>4
    <3> QED
      BY <2>1, <3>1, Joined
  <2> QED
    BY <1>4, <2>2
<1> HIDE DEF t
<1>7. \A j \in 1 .. 2 : t[j] = a[j] /\ t[2 + j] = b[j]
  <2>1. \A j \in 1 .. 2 : j \in 1 .. 4 /\ 2 + j \in 1 .. 4
    OBVIOUS
  <2> QED
    BY <1>4, <1>6, <2>1
<1>8. TLV(tag, value) = t
  BY <1>1 DEF t, c
<1> QED
  BY <1>6, <1>7, <1>8 DEF a, b, TLVIs

\* The same with hypotheses and conclusion under names.
Writable(S, tag, value) ==
  48 .. 57 \subseteq S /\ tag \in 0 .. 99 /\ value \in Seq(S) /\ Len(value) <= 99

\* A field is written as its tag, its length and its value.
LEMMA TLVWritten ==
  ASSUME NEW S, NEW tag, NEW value, Writable(S, tag, value)
  PROVE  TLVIs(S, tag, value)
<1>1. 48 .. 57 \subseteq S /\ tag \in 0 .. 99 /\ value \in Seq(S) /\ Len(value) <= 99
  BY Zenon DEF Writable
<1> QED
  BY <1>1, TLVFacts, Zenon

\* What is read if a field stands before a text that is read like this.
Ahead(tag, value, result) ==
  [result EXCEPT !.fields = <<[tag |-> Numeral(tag, 2), value |-> value]>> \o @]

\* The field stands in the text behind the offset.
StandsAt(text, i, tag, n, value) ==
  /\ text \in Seq(Byte) /\ i \in Nat /\ n \in 0 .. 99 /\ tag \in 0 .. 99 /\ value \in Seq(Byte)
  /\ Len(value) = n
  /\ i + (4 + n) <= Len(text)
  /\ \A j \in 1 .. 2 : text[i + j] = Numeral(tag, 2)[j]
  /\ text[i + 3] = Numeral(n, 2)[1]
  /\ text[i + 4] = Numeral(n, 2)[2]
  /\ \A j \in 1 .. n : text[i + (4 + j)] = value[j]

\* The field is read, and then what is read behind it.
IsRead(text, i, tag, n, value) == Scan(text)[i] = Ahead(tag, value, Scan(text)[i + (4 + n)])

\* A field that stands at an offset is read, and the loop goes on behind it.
LEMMA ReadField ==
  ASSUME NEW text, NEW i, NEW tag, NEW n, NEW value, StandsAt(text, i, tag, n, value)
  PROVE  IsRead(text, i, tag, n, value)
<1>0. /\ text \in Seq(Byte) /\ i \in Nat /\ n \in 0 .. 99 /\ tag \in 0 .. 99
      /\ value \in Seq(Byte) /\ Len(value) = n /\ i + (4 + n) <= Len(text)
      /\ \A j \in 1 .. 2 : text[i + j] = Numeral(tag, 2)[j]
      /\ text[i + 3] = Numeral(n, 2)[1] /\ text[i + 4] = Numeral(n, 2)[2]
      /\ \A j \in 1 .. n : text[i + (4 + j)] = value[j]
  BY Zenon DEF StandsAt
<1> USE <1>0
<1>1. Len(text) \in Nat /\ i \in 0 .. Len(text) /\ n \in Nat
  OBVIOUS
<1>2. NumberAt(text, i + 3) = n
  <2>1. i + 3 \in Nat /\ i + 3 + 1 = i + 4
    OBVIOUS
  <2>2. text[i + 3 + 1] = Numeral(n, 2)[2]
    BY <2>1, Zenon
  <2> HIDE DEF Numeral
  <2> QED
    BY <2>1, <2>2, TwoDigitNumber, Zenon
<1>3. SubSeq(text, i + 1, i + 2) = Numeral(tag, 2)
  <2> DEFINE x == Numeral(tag, 2)
  <2>1. x \in Seq(Byte) /\ Len(x) = 2
    <3>1. tag \in Nat
      OBVIOUS
    <3> QED
      BY <3>1, TwoFits, NumeralType, NumeralText, Zenon
  <2>2. \A j \in 1 .. 2 : text[i + j] = x[j]
    OBVIOUS
  <2> HIDE DEF x
  <2>3. i + Len(x) <= Len(text) /\ \A j \in 1 .. Len(x) : text[i + j] = x[j]
    BY <1>1, <2>1, <2>2
  <2>4. SubSeq(text, i + 1, i + Len(x)) = x
    BY <2>1, <2>3, CutOut
  <2> QED
    BY <2>1, <2>4 DEF x
<1>4. SubSeq(text, i + 5, i + 4 + n) = value
  <2> DEFINE k == i + 4
  <2>1. \A j \in 1 .. n : text[k + j] = value[j]
    <3>1. \A j \in 1 .. n : k + j = i + (4 + j)
      BY <1>1
    <3> QED
      BY <3>1
  <2>2. k + n <= Len(text) /\ k \in Nat /\ k + 1 = i + 5
    BY <1>1
  <2> HIDE DEF k
  <2>3. SubSeq(text, k + 1, k + Len(value)) = value
    BY <2>1, <2>2, CutOut
  <2> QED
    BY <2>2, <2>3 DEF k
<1>5. Scan(text)[i] = ScanFrom(text, i, Scan(text))
  BY <1>1, ScanDef
<1>6. ScanFrom(text, i, Scan(text)) =
        [Scan(text)[i + 4 + n] EXCEPT
           !.fields = <<[tag |-> SubSeq(text, i + 1, i + 2),
                         value |-> SubSeq(text, i + 5, i + 4 + n)]>> \o @]
  <2>1. ~ (i + 4 > Len(text)) /\ n # NoNumber /\ ~ (i + 4 + n > Len(text))
    BY <1>1 DEF NoNumber
  <2> QED
    BY <1>2, <2>1 DEF ScanFrom
<1>7. i + 4 + n = i + (4 + n)
  BY <1>1
<1>8. Scan(text)[i] = Ahead(tag, value, Scan(text)[i + (4 + n)])
  BY <1>3, <1>4, <1>5, <1>6, <1>7 DEF Ahead
<1> QED
  BY <1>8, Zenon DEF IsRead

\* The text is some bytes, a field, and more.
Embeds(text, pre, tag, value, post) ==
  \E tail : tail = TLV(tag, value) \o post /\ text = pre \o tail

\* A field that was written stands in the text as it was written.
LEMMA FieldStands ==
  ASSUME NEW pre \in Seq(Byte), NEW post \in Seq(Byte), NEW text,
         NEW tag \in 0 .. 99, NEW value \in Seq(Byte), Len(value) <= 99,
         Embeds(text, pre, tag, value, post)
  PROVE  StandsAt(text, Len(pre), tag, Len(value), value)
<1> DEFINE mid == TLV(tag, value)
<1>1. /\ mid \in Seq(Byte) /\ Len(mid) = 4 + Len(value)
      /\ \A j \in 1 .. 2 : mid[j] = Numeral(tag, 2)[j]
      /\ \A j \in 1 .. 2 : mid[2 + j] = Numeral(Len(value), 2)[j]
      /\ \A j \in 1 .. Len(value) : mid[4 + j] = value[j]
  <2>1. Writable(Byte, tag, value)
    <3>1. 48 .. 57 \subseteq Byte
      BY DEF Byte
    <3> QED
      BY <3>1, Zenon DEF Writable
  <2>2. TLVIs(Byte, tag, value)
    BY <2>1, TLVWritten, Zenon
  <2> QED
    BY <2>2, Zenon DEF TLVIs
<1>2. \E tail : tail = mid \o post /\ text = pre \o tail
  BY Zenon DEF Embeds
<1> HIDE DEF mid
<1>3. /\ text \in Seq(Byte) /\ Len(text) = Len(pre) + (Len(mid) + Len(post))
      /\ \A j \in 1 .. Len(mid) : text[Len(pre) + j] = mid[j]
  <2>1. mid \in Seq(Byte)
    BY <1>1
  <2> QED
    BY <1>2, <2>1, Amid
<1>4. Len(pre) \in Nat /\ Len(post) \in Nat /\ Len(value) \in Nat
  BY LenProperties
<1>5. PICK i, n : i = Len(pre) /\ n = Len(value)
  OBVIOUS
<1>6. i \in Nat /\ n \in 0 .. 99
  BY <1>4, <1>5, TwoDigitLength, Zenon
<1>7. i + (4 + n) <= Len(text) /\ \A j \in 1 .. 4 + n : text[i + j] = mid[j]
  <2>1. Len(text) = i + ((4 + n) + Len(post)) /\ Len(mid) = 4 + n
    BY <1>1, <1>3, <1>5, Zenon
  <2>2. i + (4 + n) <= i + ((4 + n) + Len(post))
    BY <1>4, <1>6
  <2> QED
    BY <1>3, <1>5, <2>1, <2>2, Zenon
<1>8. /\ \A j \in 1 .. 2 : text[i + j] = Numeral(tag, 2)[j]
      /\ text[i + 3] = Numeral(n, 2)[1] /\ text[i + 4] = Numeral(n, 2)[2]
      /\ \A j \in 1 .. n : text[i + (4 + j)] = value[j]
  <2>1. /\ \A j \in 1 .. 2 : j \in 1 .. 4 + n
        /\ \A j \in 1 .. n : 4 + j \in 1 .. 4 + n
        /\ 3 \in 1 .. 4 + n /\ 4 \in 1 .. 4 + n /\ 3 = 2 + 1 /\ 4 = 2 + 2
        /\ 1 \in 1 .. 2 /\ 2 \in 1 .. 2
    BY <1>6
  <2>2. mid[3] = Numeral(n, 2)[1] /\ mid[4] = Numeral(n, 2)[2]
    BY <1>1, <1>5, <2>1, Zenon
  <2>3. text[i + 3] = mid[3] /\ text[i + 4] = mid[4]
    BY <1>7, <2>1, Zenon
  <2>4. \A j \in 1 .. 2 : text[i + j] = Numeral(tag, 2)[j]
    BY <1>1, <1>7, <2>1, Zenon
  <2>5. \A j \in 1 .. n : text[i + (4 + j)] = value[j]
    BY <1>1, <1>5, <1>7, <2>1, Zenon
  <2> QED
    BY <2>2, <2>3, <2>4, <2>5
<1>9. text \in Seq(Byte) /\ value \in Seq(Byte) /\ tag \in 0 .. 99 /\ Len(value) = n
  BY <1>3, <1>5, Zenon
<1>10. StandsAt(text, i, tag, n, value)
  BY <1>6, <1>7, <1>8, <1>9, Zenon DEF StandsAt
<1> QED
  BY <1>5, <1>10, Zenon

\* What a result consists of.
LEMMA ResultType ==
  ASSUME NEW fs \in Seq(Field), NEW why \in {"done", "no number", "truncated"}, NEW i \in Nat
  PROVE  [fields |-> fs, end |-> why, at |-> i] \in Result
BY Zenon DEF Result

\* And the other way round, also with fields put before the others.
LEMMA ResultFields ==
  ASSUME NEW r \in Result
  PROVE  /\ r.fields \in Seq(Field) /\ r.at \in Nat
         /\ r.end \in {"done", "no number", "truncated"}
         /\ \A fs \in Seq(Field) : [r EXCEPT !.fields = fs \o @] \in Result
<1>1. /\ r.fields \in Seq(Field) /\ r.at \in Nat
      /\ r.end \in {"done", "no number", "truncated"}
  BY DEF Result
<1>2. ASSUME NEW fs \in Seq(Field)
      PROVE  [r EXCEPT !.fields = fs \o @] \in Result
  <2> DEFINE gs == fs \o r.fields
  <2>1. gs \in Seq(Field)
    BY <1>1, ConcatProperties
  <2> HIDE DEF gs
  <2>2. [r EXCEPT !.fields = gs] \in Result
    BY <2>1 DEF Result
  <2> QED
    BY <2>2 DEF gs
<1> QED
  BY <1>1, <1>2

\* One turn of the loop has the type that the turns behind it have.
LEMMA ScanFromType ==
  ASSUME NEW text \in Seq(Byte), NEW i \in 0 .. Len(text), NEW rest,
         \A j \in (i + 1) .. Len(text) : rest[j] \in Result
  PROVE  ScanFrom(text, i, rest) \in Result
<1> DEFINE length == NumberAt(text, i + 3)
           next == i + 4 + length
<1>0. i \in Nat /\ Len(text) \in Nat
  OBVIOUS
<1>1. CASE i + 4 > Len(text) \/ length = NoNumber \/ next > Len(text)
  <2>1. \/ ScanFrom(text, i, rest) = [fields |-> <<>>, end |-> "done", at |-> i]
        \/ ScanFrom(text, i, rest) = [fields |-> <<>>, end |-> "no number", at |-> i]
        \/ ScanFrom(text, i, rest) = [fields |-> <<>>, end |-> "truncated", at |-> i]
    <3> HIDE DEF length, next
    <3> QED
      BY <1>1, Zenon DEF ScanFrom, length, next
  <2>2. <<>> \in Seq(Field)
    OBVIOUS
  <2> QED
    BY <1>0, <2>1, <2>2, ResultType, Zenon
<1>2. CASE ~ (i + 4 > Len(text) \/ length = NoNumber \/ next > Len(text))
  <2>1. i + 4 <= Len(text) /\ i + 3 \in 1 .. Len(text) - 1
    BY <1>0, <1>2
  <2>2. length \in 0 .. 99
    BY <1>2, <2>1, NumberType
  <2>3. next \in (i + 1) .. Len(text) /\ next \in Nat
    <3> HIDE DEF length
    <3>1. next \in Nat /\ ~ (next > Len(text))
      BY <1>0, <1>2, <2>2
    <3> QED
      BY <1>0, <2>2, <3>1
  <2> DEFINE field == [tag |-> SubSeq(text, i + 1, i + 2), value |-> SubSeq(text, i + 5, next)]
             others == rest[next]
  <2>4. ScanFrom(text, i, rest) = [others EXCEPT !.fields = <<field>> \o @]
    BY <1>2 DEF ScanFrom
  <2>5. others \in Result
    BY <2>3
  <2>6. field \in Field
    <3> HIDE DEF next
    <3>1. SubSeq(text, i + 1, i + 2) \in Seq(Byte)
      BY <1>0, <2>1
    <3>2. SubSeq(text, i + 5, next) \in Seq(Byte)
      BY <1>0, <2>1, <2>3
    <3> QED
      BY <3>1, <3>2 DEF Field
  <2> HIDE DEF field, others, next
  <2>7. <<field>> \in Seq(Field)
    BY <2>6
  <2> QED
    BY <2>4, <2>5, <2>7, ResultFields, Zenon
<1> QED
  BY <1>1, <1>2

\* From every offset on the loop yields a result.
LEMMA ScanType ==
  ASSUME NEW text \in Seq(Byte)
  PROVE  \A i \in 0 .. Len(text) : Scan(text)[i] \in Result
<1> DEFINE n == Len(text)
           Bad == {k \in 0 .. n : Scan(text)[n - k] \notin Result}
<1>1. n \in Nat
  OBVIOUS
<1>2. /\ Bad \in SUBSET Nat /\ Bad \subseteq 0 .. n
      /\ \A k \in 0 .. n : k \in Bad <=> Scan(text)[n - k] \notin Result
  BY <1>1
<1> HIDE DEF Bad
<1>3. Bad = {}
  <2>1. SUFFICES ASSUME Bad # {} PROVE FALSE
    OBVIOUS
  <2>2. PICK m \in Bad : \A k \in Bad : m <= k
    BY <1>2, <2>1, Least
  <2>3. PICK i : i = n - m
    OBVIOUS
  <2>4. m \in 0 .. n /\ i \in 0 .. n
    BY <1>1, <1>2, <2>2, <2>3
  <2>5. \A j \in (i + 1) .. n : Scan(text)[j] \in Result
    <3> TAKE j \in (i + 1) .. n
    <3>1. n - j \in 0 .. n /\ n - j < m /\ n - (n - j) = j
      BY <1>1, <2>3, <2>4
    <3>2. n - j \notin Bad
      BY <1>1, <1>2, <2>2, <2>4, <3>1
    <3> QED
      BY <1>2, <3>1, <3>2
  <2>6. Scan(text)[i] = ScanFrom(text, i, Scan(text))
    BY <2>4, ScanDef
  <2>7. Scan(text)[i] \in Result
    BY <2>4, <2>5, <2>6, ScanFromType
  <2> QED
    BY <1>2, <2>2, <2>3, <2>4, <2>7
<1> QED
  <2> TAKE i \in 0 .. n
  <2>1. n - i \in 0 .. n /\ n - (n - i) = i
    BY <1>1
  <2> QED
    BY <1>2, <1>3, <2>1

-----------------------------------------------------------------------------
\* What is written, and what is read of it.
Short == {v \in Seq(Byte) : Len(v) <= 99}
Entry == [tag : 0 .. 99, value : Short]
\* What is read of a field.
Item(tag, value) == [tag |-> Numeral(tag, 2), value |-> value]
Items(fs) == [i \in DOMAIN fs |-> Item(fs[i].tag, fs[i].value)]

\* It is a field.
LEMMA ItemType ==
  ASSUME NEW tag \in 0 .. 99, NEW value \in Seq(Byte)
  PROVE  Item(tag, value) \in Field
<1>1. tag \in Nat
  OBVIOUS
<1>2. Numeral(tag, 2) \in Seq(Byte)
  BY <1>1, TwoFits, NumeralText, Zenon
<1> HIDE DEF Numeral
<1> QED
  BY <1>2 DEF Item, Field

\* The text of a field.
LEMMA EntryTLV ==
  ASSUME NEW f \in Entry
  PROVE  /\ f.tag \in 0 .. 99 /\ f.value \in Seq(Byte) /\ Len(f.value) <= 99
         /\ TLV(f.tag, f.value) \in Seq(Byte)
         /\ Len(TLV(f.tag, f.value)) = 4 + Len(f.value)
<1>1. f.tag \in 0 .. 99 /\ f.value \in Seq(Byte) /\ Len(f.value) <= 99
  BY DEF Entry, Short
<1>2. 48 .. 57 \subseteq Byte
  BY DEF Byte
<1>3. Writable(Byte, f.tag, f.value)
  BY <1>1, <1>2, Zenon DEF Writable
<1>4. TLVIs(Byte, f.tag, f.value)
  BY <1>3, TLVWritten, Zenon
<1> QED
  BY <1>1, <1>4, Zenon DEF TLVIs

\* Texts of no fields,
LEMMA TextEmpty == Text(<<>>) = <<>>
<1>1. [i \in DOMAIN <<>> |-> TLV(<<>>[i].tag, <<>>[i].value)] = <<>>
  OBVIOUS
<1> QED
  BY <1>1, FlattenNone DEF Text

\* their parts,
LEMMA TextPieces ==
  ASSUME NEW fs \in Seq(Entry)
  PROVE  [i \in DOMAIN fs |-> TLV(fs[i].tag, fs[i].value)] \in Seq(Seq(Byte))
<1> DEFINE ps == [i \in DOMAIN fs |-> TLV(fs[i].tag, fs[i].value)]
           n == Len(fs)
<1>1. n \in Nat /\ DOMAIN fs = 1 .. n /\ \A i \in 1 .. n : fs[i] \in Entry
  OBVIOUS
<1>2. \A i \in 1 .. n : TLV(fs[i].tag, fs[i].value) \in Seq(Byte)
  BY <1>1, EntryTLV
<1>3. ps \in [1 .. n -> Seq(Byte)]
  BY <1>1, <1>2
<1> HIDE DEF n, ps
<1>4. ps \in Seq(Seq(Byte))
  BY <1>1, <1>3, IsASeq, SeqDef
<1> QED
  BY <1>4 DEF ps

\* their bytes,
LEMMA TextType ==
  ASSUME NEW fs \in Seq(Entry)
  PROVE  Text(fs) \in Seq(Byte)
BY TextPieces, FlattenType DEF Text

\* and of one field more.
LEMMA TextAppend ==
  ASSUME NEW fs \in Seq(Entry), NEW f \in Entry
  PROVE  Text(Append(fs, f)) = Text(fs) \o TLV(f.tag, f.value)
<1> DEFINE gs == Append(fs, f)
           ps == [i \in DOMAIN fs |-> TLV(fs[i].tag, fs[i].value)]
           qs == [i \in DOMAIN gs |-> TLV(gs[i].tag, gs[i].value)]
           x == TLV(f.tag, f.value)
           n == Len(fs)
<1>1. /\ n \in Nat /\ gs \in Seq(Entry) /\ Len(gs) = n + 1 /\ gs[n + 1] = f
      /\ \A i \in 1 .. n : gs[i] = fs[i]
  BY AppendFacts
<1>2. /\ DOMAIN fs = 1 .. n /\ DOMAIN gs = 1 .. n + 1
  <2> HIDE DEF gs
  <2> QED
    BY <1>1
<1>3. ps \in Seq(Seq(Byte)) /\ qs \in Seq(Seq(Byte)) /\ x \in Seq(Byte)
  BY <1>1, TextPieces, EntryTLV
<1>4. /\ Len(ps) = n /\ \A i \in 1 .. n : ps[i] = TLV(fs[i].tag, fs[i].value)
  <2>1. DOMAIN ps = 1 .. n /\ \A i \in 1 .. n : ps[i] = TLV(fs[i].tag, fs[i].value)
    BY <1>2, Zenon
  <2> HIDE DEF ps
  <2> QED
    BY <1>1, <1>3, <2>1
<1>5. /\ Len(qs) = n + 1 /\ \A i \in 1 .. n + 1 : qs[i] = TLV(gs[i].tag, gs[i].value)
  <2>1. DOMAIN qs = 1 .. n + 1 /\ \A i \in 1 .. n + 1 : qs[i] = TLV(gs[i].tag, gs[i].value)
    BY <1>2, Zenon
  <2> HIDE DEF qs
  <2> QED
    BY <1>1, <1>3, <2>1
<1>6. \A i \in 1 .. n : qs[i] = ps[i]
  <2>1. \A i \in 1 .. n : i \in 1 .. n + 1
    BY <1>1
  <2> HIDE DEF gs, ps, qs
  <2> QED
    BY <1>1, <1>4, <1>5, <2>1, Zenon
<1>7. qs[n + 1] = x
  <2>1. n + 1 \in 1 .. n + 1
    BY <1>1
  <2> HIDE DEF gs, ps, qs
  <2> QED
    BY <1>1, <1>5, <2>1, Zenon
<1> HIDE DEF gs, ps, qs, x, n
<1>8. qs = Append(ps, x)
  BY <1>1, <1>3, <1>4, <1>5, <1>6, <1>7
<1>9. FlattenSeq(qs) = FlattenSeq(ps) \o x
  BY <1>3, <1>8, FlattenType, FlattenAppend
<1>10. Text(gs) = FlattenSeq(qs) /\ Text(fs) = FlattenSeq(ps)
  BY Zenon DEF Text, qs, ps
<1> QED
  BY <1>9, <1>10, Zenon DEF gs, x

\* The same with hypotheses and conclusion under names.
LastField(fs, f) == fs \in Seq(Entry) /\ f \in Entry
WritesLast(fs, f) == Text(Append(fs, f)) = Text(fs) \o TLV(f.tag, f.value)

\* The last field of a text is written at its end.
LEMMA TextWritesLast ==
  ASSUME NEW fs, NEW f, LastField(fs, f)
  PROVE  WritesLast(fs, f)
BY TextAppend, Zenon DEF LastField, WritesLast

-----------------------------------------------------------------------------
(* From the beginning of a text on.                                        *)

\* From the beginning of the text to the offset k these fields are read, and
\* then what is read from there.
Leads(text, k, fields) ==
  /\ text \in Seq(Byte) /\ k \in 0 .. Len(text) /\ fields \in Seq(Field)
  /\ Scan(text)[0].fields = fields \o Scan(text)[k].fields
  /\ Scan(text)[0].end = Scan(text)[k].end
  /\ Scan(text)[0].at = Scan(text)[k].at

\* The length of one.
LEMMA BytesJoined ==
  ASSUME NEW a \in Seq(Byte), NEW b \in Seq(Byte), NEW c, c = a \o b
  PROVE  Len(c) = Len(a) + Len(b)
OBVIOUS

\* An element between two sequences belongs to either.
LEMMA AppendThenMore ==
  ASSUME NEW T, NEW a \in Seq(T), NEW x \in T, NEW b \in Seq(T)
  PROVE  Append(a, x) \in Seq(T) /\ a \o (<<x>> \o b) = Append(a, x) \o b
<1>1. <<x>> \in Seq(T) /\ Append(a, x) = a \o <<x>> /\ Append(a, x) \in Seq(T)
  BY AppendIsConcat
<1> QED
  BY <1>1, ConcatAssociative

\* Nothing is read up to the beginning of the text,
LEMMA LeadsFrom ==
  ASSUME NEW text \in Seq(Byte)
  PROVE  Leads(text, 0, <<>>)
<1>1. 0 \in 0 .. Len(text) /\ <<>> \in Seq(Field)
  OBVIOUS
<1>2. Scan(text)[0].fields \in Seq(Field)
  BY <1>1, ScanType, ResultFields
<1>3. <<>> \o Scan(text)[0].fields = Scan(text)[0].fields
  BY <1>2, ConcatEmptySeq
<1> QED
  BY <1>1, <1>3, Zenon DEF Leads

\* and a field that stands there next is read next.
LEMMA LeadsOn ==
  ASSUME NEW text, NEW k, NEW fields, NEW tag, NEW n, NEW value,
         Leads(text, k, fields), StandsAt(text, k, tag, n, value)
  PROVE  Leads(text, k + (4 + n), Append(fields, Item(tag, value)))
<1>1. /\ text \in Seq(Byte) /\ k \in 0 .. Len(text) /\ fields \in Seq(Field)
      /\ Scan(text)[0].fields = fields \o Scan(text)[k].fields
      /\ Scan(text)[0].end = Scan(text)[k].end
      /\ Scan(text)[0].at = Scan(text)[k].at
  BY Zenon DEF Leads
<1>2. n \in 0 .. 99 /\ tag \in 0 .. 99 /\ value \in Seq(Byte) /\ k + (4 + n) <= Len(text)
  BY Zenon DEF StandsAt
<1>3. k + (4 + n) \in 0 .. Len(text)
  BY <1>1, <1>2
<1> DEFINE r == Scan(text)[k + (4 + n)]
           item == Item(tag, value)
<1>4. Scan(text)[k] = [r EXCEPT !.fields = <<item>> \o @]
  <2>1. IsRead(text, k, tag, n, value)
    BY ReadField, Zenon
  <2> QED
    BY <2>1, Zenon DEF IsRead, Ahead, Item
<1>5. item \in Field
  BY <1>2, ItemType
<1>6. r \in Result
  BY <1>1, <1>3, ScanType
<1> HIDE DEF r, item
<1>7. /\ Scan(text)[k].fields = <<item>> \o r.fields
      /\ Scan(text)[k].end = r.end /\ Scan(text)[k].at = r.at
  BY <1>4, <1>6 DEF Result
<1>8. r.fields \in Seq(Field)
  BY <1>6, ResultFields
<1>9. Append(fields, item) \in Seq(Field)
      /\ fields \o (<<item>> \o r.fields) = Append(fields, item) \o r.fields
  <2> DEFINE b == r.fields
  <2>1. b \in Seq(Field)
    BY <1>8
  <2> HIDE DEF b
  <2>2. Append(fields, item) \in Seq(Field)
        /\ fields \o (<<item>> \o b) = Append(fields, item) \o b
    <3>1. fields \in Seq(Field)
      BY <1>1
    <3> QED
      BY <1>5, <2>1, <3>1, AppendThenMore
  <2> QED
    BY <2>2 DEF b
<1>10. /\ Scan(text)[0].fields = Append(fields, item) \o r.fields
       /\ Scan(text)[0].end = r.end /\ Scan(text)[0].at = r.at
  BY <1>1, <1>7, <1>9, Zenon
<1> QED
  BY <1>1, <1>3, <1>9, <1>10, Zenon DEF Leads, r, item

\* What is read of fields are fields,
LEMMA ItemsType ==
  ASSUME NEW gs \in Seq(Entry)
  PROVE  Items(gs) \in Seq(Field)
<1> DEFINE n == Len(gs)
<1>1. n \in Nat /\ DOMAIN gs = 1 .. n /\ \A i \in 1 .. n : gs[i] \in Entry
  OBVIOUS
<1>2. \A i \in 1 .. n : Item(gs[i].tag, gs[i].value) \in Field
  BY <1>1, EntryTLV, ItemType
<1>3. Items(gs) \in [1 .. n -> Field]
  BY <1>1, <1>2, Zenon DEF Items
<1> HIDE DEF n
<1> QED
  BY <1>1, <1>3, IsASeq, SeqDef

\* t is s with one more element.
OneMore(T, s, x, t, n) ==
  /\ n \in Nat /\ s \in Seq(T) /\ Len(s) = n /\ x \in T
  /\ t \in Seq(T) /\ Len(t) = n + 1 /\ (\A i \in 1 .. n : t[i] = s[i]) /\ t[n + 1] = x

\* Append is that.
LEMMA AppendIs ==
  ASSUME NEW T, NEW s, NEW x, NEW t, NEW n, OneMore(T, s, x, t, n)
  PROVE  Append(s, x) = t
<1> DEFINE u == Append(s, x)
<1>0. /\ n \in Nat /\ s \in Seq(T) /\ Len(s) = n /\ x \in T
      /\ t \in Seq(T) /\ Len(t) = n + 1 /\ (\A i \in 1 .. n : t[i] = s[i]) /\ t[n + 1] = x
  BY Zenon DEF OneMore
<1>1. u \in Seq(T) /\ Len(u) = n + 1 /\ u[n + 1] = x /\ \A i \in 1 .. n : u[i] = s[i]
  BY <1>0, AppendFacts
<1> HIDE DEF u
<1>2. \A i \in 1 .. n + 1 : i \in 1 .. n \/ i = n + 1
  BY <1>0
<1>3. \A i \in 1 .. Len(u) : u[i] = t[i]
  BY <1>0, <1>1, <1>2
<1>4. u = t
  BY <1>0, <1>1, <1>3, SeqEqual
<1> QED
  BY <1>4 DEF u

\* and of one more, one more.
LEMMA ItemsAppend ==
  ASSUME NEW gs \in Seq(Entry), NEW f \in Entry
  PROVE  Items(Append(gs, f)) = Append(Items(gs), Item(f.tag, f.value))
<1> DEFINE fs == Append(gs, f)
           n == Len(gs)
<1>1. /\ n \in Nat /\ fs \in Seq(Entry) /\ Len(fs) = n + 1 /\ fs[n + 1] = f
      /\ \A i \in 1 .. n : fs[i] = gs[i]
  BY AppendFacts
<1>2. DOMAIN gs = 1 .. n /\ DOMAIN fs = 1 .. n + 1
  <2> HIDE DEF fs
  <2> QED
    BY <1>1
<1>3. DOMAIN Items(gs) = 1 .. n /\ \A i \in 1 .. n : Items(gs)[i] = Item(gs[i].tag, gs[i].value)
  BY <1>2, Zenon DEF Items
<1>4. /\ Items(fs) = [i \in 1 .. n + 1 |-> Items(fs)[i]]
      /\ \A i \in 1 .. n + 1 : Items(fs)[i] = Item(fs[i].tag, fs[i].value)
  <2> HIDE DEF fs
  <2> QED
    BY <1>2, Zenon DEF Items
<1>5. Items(gs) \in Seq(Field)
  BY ItemsType
<1>6. Item(f.tag, f.value) \in Field
  BY EntryTLV, ItemType
<1> DEFINE a == Items(gs)
           x == Item(f.tag, f.value)
           b == Items(fs)
<1>7. /\ \A i \in 1 .. n : b[i] = a[i]
      /\ b[n + 1] = x
  <2>1. n + 1 \in 1 .. n + 1 /\ \A i \in 1 .. n : i \in 1 .. n + 1
    BY <1>1
  <2> HIDE DEF fs, n
  <2> QED
    BY <1>1, <1>3, <1>4, <2>1, Zenon
<1>8. Len(a) = n /\ a \in Seq(Field) /\ x \in Field
  <2> HIDE DEF a, n
  <2> QED
    BY <1>1, <1>3, <1>5, <1>6 DEF a
<1>9. b \in Seq(Field) /\ Len(b) = n + 1
  <2>1. b \in Seq(Field) /\ DOMAIN b = 1 .. n + 1
    BY <1>1, <1>4, ItemsType, Zenon
  <2> HIDE DEF b, n
  <2> QED
    BY <1>1, <2>1
<1> HIDE DEF a, b, x, n
<1>10. OneMore(Field, a, x, b, n)
  BY <1>1, <1>7, <1>8, <1>9, Zenon DEF OneMore
<1> QED
  BY <1>10, AppendIs, Zenon DEF a, b, x, fs

\* Fields that were written are read as they were written, whatever follows.
LEMMA LeadsFurther ==
  ASSUME NEW gs \in Seq(Entry), NEW f \in Entry, NEW rest \in Seq(Byte), NEW text, NEW tail,
         tail = TLV(f.tag, f.value) \o rest, text = Text(gs) \o tail,
         Leads(text, Len(Text(gs)), Items(gs))
  PROVE  Leads(text, Len(Text(Append(gs, f))), Items(Append(gs, f)))
<1> DEFINE pre == Text(gs)
           k == Len(pre)
           n == Len(f.value)
           fs == Append(gs, f)
<1>1. pre \in Seq(Byte) /\ k \in Nat
  BY TextType
<1>2. /\ f.tag \in 0 .. 99 /\ f.value \in Seq(Byte) /\ n <= 99 /\ n \in Nat
      /\ TLV(f.tag, f.value) \in Seq(Byte)
      /\ Len(TLV(f.tag, f.value)) = 4 + n
  BY EntryTLV
<1>3. Embeds(text, pre, f.tag, f.value, rest)
  BY Zenon DEF Embeds
<1>4. StandsAt(text, k, f.tag, n, f.value)
  BY <1>1, <1>2, <1>3, FieldStands
<1>5. Leads(text, k + (4 + n), Append(Items(gs), Item(f.tag, f.value)))
  BY <1>4, LeadsOn
<1>6. Text(fs) = pre \o TLV(f.tag, f.value)
  BY TextAppend
<1>7. Len(Text(fs)) = k + (4 + n)
  <2>1. PICK a, b, c, x : /\ a = pre /\ b = TLV(f.tag, f.value)
                          /\ c = Text(fs) /\ x = 4 + n
    OBVIOUS
  <2>2. a \in Seq(Byte)
    BY <1>1, <2>1, Zenon
  <2>3. b \in Seq(Byte)
    BY <1>2, <2>1, Zenon
  <2>4. c = a \o b /\ Len(b) = x
    BY <1>2, <1>6, <2>1, Zenon
  <2>5. Len(c) = Len(a) + x
    BY <2>2, <2>3, <2>4, BytesJoined, Zenon
  <2> QED
    BY <2>1, <2>5, Zenon
<1>8. Items(fs) = Append(Items(gs), Item(f.tag, f.value))
  BY ItemsAppend
<1> QED
  BY <1>5, <1>7, <1>8, Zenon

\* Whatever follows, the fields at the beginning of a text are read as they were
\* written: by induction on their number.
LEMMA ReadAhead ==
  ASSUME NEW fs \in Seq(Entry), NEW rest \in Seq(Byte), NEW text, text = Text(fs) \o rest
  PROVE  Leads(text, Len(Text(fs)), Items(fs))
<1> DEFINE Right(gs, m) ==
             \A r \in Seq(Byte) : \A t : t = Text(gs) \o r => Leads(t, Len(Text(gs)), Items(gs))
           Bad == {m \in Nat : \E gs \in Seq(Entry) : Len(gs) = m /\ ~ Right(gs, m)}
<1>1. SUFFICES ASSUME Bad # {} PROVE FALSE
  <2>1. Len(fs) \in Nat
    OBVIOUS
  <2>2. Bad = {} => Right(fs, Len(fs))
    <3> HIDE DEF Right
    <3> QED
      BY <2>1, Zenon
  <2> HIDE DEF Bad
  <2> QED
    BY <2>2, Zenon
<1>2. PICK m \in Bad : \A k \in Bad : m <= k
  BY <1>1, Least
<1>3. PICK gs \in Seq(Entry) : Len(gs) = m /\ ~ Right(gs, m)
  <2> HIDE DEF Right
  <2> QED
    BY <1>2
<1>4. gs # <<>>
  <2>1. SUFFICES ASSUME gs = <<>> PROVE Right(gs, m)
    BY <1>3
  <2>2. TAKE r \in Seq(Byte)
  <2>3. TAKE t
  <2>4. HAVE t = Text(gs) \o r
  <2>5. t = r /\ Len(Text(gs)) = 0
    BY <2>1, <2>4, TextEmpty, ConcatEmptySeq, EmptySeq
  <2>6. Items(gs) = <<>>
    BY <2>1 DEF Items
  <2> QED
    BY <2>5, <2>6, LeadsFrom
<1>5. PICK hs \in Seq(Entry), f \in Entry : gs = Append(hs, f) /\ Len(hs) = Len(gs) - 1
  BY <1>4, SplitLast
<1>6. Right(hs, m - 1)
  <2>1. m \in Nat /\ Len(hs) = m - 1 /\ m - 1 \in Nat /\ ~ (m <= m - 1)
    <3>1. m \in Nat /\ Len(hs) \in Nat
      <4> HIDE DEF Right
      <4> QED
        BY <1>2, LenProperties
    <3> QED
      BY <1>3, <1>5, <3>1
  <2>2. m - 1 \notin Bad
    BY <1>2, <2>1
  <2>3. Right(hs, m - 1) <=> Right(hs, Len(hs))
    OBVIOUS
  <2> HIDE DEF Right
  <2> QED
    BY <2>1, <2>2
<1>7. Right(gs, m)
  <2>1. TAKE r \in Seq(Byte)
  <2>2. TAKE t
  <2>3. HAVE t = Text(gs) \o r
  <2>4. PICK tail : tail = TLV(f.tag, f.value) \o r
    OBVIOUS
  <2>5. TLV(f.tag, f.value) \in Seq(Byte) /\ Text(hs) \in Seq(Byte)
    BY EntryTLV, TextType
  <2>6. tail \in Seq(Byte)
    BY <2>4, <2>5, ConcatProperties
  <2>7. Text(gs) = Text(hs) \o TLV(f.tag, f.value)
    BY <1>5, TextAppend
  <2>8. t = Text(hs) \o tail
    <3>1. PICK a, b : a = Text(hs) /\ b = TLV(f.tag, f.value)
      OBVIOUS
    <3>2. a \in Seq(Byte) /\ b \in Seq(Byte)
      BY <2>5, <3>1, Zenon
    <3>3. (a \o b) \o r = a \o (b \o r)
      <4>1. Joins(Byte, a, b, r)
        BY <3>2, Zenon DEF Joins
      <4>2. Associates(a, b, r)
        BY <4>1, JoinAssociates, Zenon
      <4> QED
        BY <4>2, Zenon DEF Associates
    <3> QED
      BY <2>3, <2>4, <2>7, <3>1, <3>3, Zenon
  <2>9. Leads(t, Len(Text(hs)), Items(hs))
    BY <1>6, <2>6, <2>8, Zenon
  <2> QED
    BY <1>5, <2>4, <2>8, <2>9, LeadsFurther
<1> QED
  BY <1>3, <1>7

\* buildEMVCoQRContent and parseEMVCoTLV: a text that was written field by field, each
\* with a value of at most 99 bytes, is read field by field, to its end, on both sides.
THEOREM ReadAll ==
  ASSUME NEW fs \in Seq(Entry)
  PROVE  /\ Text(fs) \in Seq(Byte)
         /\ Fields(Text(fs)).fields = Items(fs) /\ Fields(Text(fs)).end = "done"
         /\ \A reader : Inside(Text(fs), reader) = Items(fs)
<1> DEFINE text == Text(fs)
           n == Len(text)
<1>1. text \in Seq(Byte) /\ n \in Nat
  BY TextType
<1>2. Leads(text, n, Items(fs))
  <2>1. <<>> \in Seq(Byte)
    OBVIOUS
  <2>2. text = Text(fs) \o <<>>
    BY <1>1, ConcatEmptySeq
  <2> QED
    BY <2>1, <2>2, ReadAhead
<1>3. Scan(text)[n] = [fields |-> <<>>, end |-> "done", at |-> n]
  <2>1. n \in 0 .. Len(text) /\ n + 4 > Len(text)
    BY <1>1
  <2>2. Scan(text)[n] = ScanFrom(text, n, Scan(text))
    BY <1>1, <2>1, ScanDef
  <2> HIDE DEF text, n
  <2> QED
    BY <2>1, <2>2, Zenon DEF ScanFrom
<1>4. Items(fs) \in Seq(Field)
  BY ItemsType
<1> HIDE DEF text, n
<1>5. Scan(text)[n].fields = <<>> /\ Scan(text)[n].end = "done"
  BY <1>3
<1>6. Items(fs) \o <<>> = Items(fs)
  BY <1>4, ConcatEmptySeq
<1>7. Fields(text).fields = Items(fs) /\ Fields(text).end = "done"
  BY <1>2, <1>5, <1>6, Zenon DEF Leads, Fields
<1>8. \A reader : Inside(text, reader) = Items(fs)
  <2>1. "done" # "no number"
    OBVIOUS
  <2> QED
    BY <1>7, <2>1, Zenon DEF Inside, FieldsRead, FieldsGuessed, WithGuess
<1> QED
  BY <1>1, <1>7, <1>8 DEF text

-----------------------------------------------------------------------------
\* Finding a field by its tag.
LEMMA SingleMax ==
  ASSUME NEW k \in Int
  PROVE  Max({k}) = k
BY MaxOf

\* Only the k-th field has the tag.
OnlyAt(fields, tag, k) ==
  /\ k \in Int /\ k \in DOMAIN fields
  /\ \A i \in DOMAIN fields : fields[i].tag = Numeral(tag, 2) <=> i = k

\* So its value is what is found.
LEMMA ValueThere ==
  ASSUME NEW fields, NEW tag, NEW k, OnlyAt(fields, tag, k)
  PROVE  Places(fields, tag) = {k} /\ ValueOf(fields, tag) = fields[k].value
<1>0. /\ k \in Int /\ k \in DOMAIN fields
      /\ \A i \in DOMAIN fields : fields[i].tag = Numeral(tag, 2) <=> i = k
  BY Zenon DEF OnlyAt
<1>1. Places(fields, tag) = {k}
  <2> HIDE DEF Numeral
  <2> QED
    BY <1>0 DEF Places
<1>2. {k} # {} /\ Max({k}) = k
  BY <1>0, SingleMax
<1> QED
  BY <1>1, <1>2, Zenon DEF ValueOf

\* Different tags are written differently.
LEMMA TagsDiffer ==
  ASSUME NEW s \in 0 .. 99, NEW t \in 0 .. 99, Numeral(s, 2) = Numeral(t, 2)
  PROVE  s = t
<1>1. s \in Nat /\ t \in Nat /\ s < Tens[2] /\ t < Tens[2]
  BY TensFacts
<1> QED
  BY <1>1, TwoFits, NumeralInjective, Zenon

\* Only the k-th field that is written has the tag.
OnlyEntry(fs, tag, k) ==
  /\ fs \in Seq(Entry) /\ tag \in 0 .. 99 /\ k \in 1 .. Len(fs)
  /\ \A i \in 1 .. Len(fs) : fs[i].tag = tag <=> i = k

\* So it is the only one that is read with it.
LEMMA EntryThere ==
  ASSUME NEW fs, NEW tag, NEW k, OnlyEntry(fs, tag, k)
  PROVE  OnlyAt(Items(fs), tag, k) /\ Items(fs)[k].value = fs[k].value
<1> DEFINE n == Len(fs)
<1>0. /\ fs \in Seq(Entry) /\ tag \in 0 .. 99 /\ k \in 1 .. n
      /\ \A i \in 1 .. n : fs[i].tag = tag <=> i = k
  BY Zenon DEF OnlyEntry
<1>1. n \in Nat /\ DOMAIN fs = 1 .. n /\ k \in Int
  BY <1>0
<1>2. /\ DOMAIN Items(fs) = 1 .. n
      /\ \A i \in 1 .. n : Items(fs)[i] = Item(fs[i].tag, fs[i].value)
  BY <1>1, Zenon DEF Items
<1>3. \A i \in 1 .. n : Items(fs)[i].tag = Numeral(fs[i].tag, 2) /\ Items(fs)[i].value = fs[i].value
  <2> HIDE DEF n, Numeral
  <2> QED
    BY <1>2 DEF Item
<1>4. \A i \in 1 .. n : fs[i].tag \in 0 .. 99
  <2>1. \A i \in 1 .. n : fs[i] \in Entry
    BY <1>0
  <2> QED
    BY <2>1, EntryTLV
<1>5. \A i \in 1 .. n : Numeral(fs[i].tag, 2) = Numeral(tag, 2) <=> i = k
  BY <1>0, <1>4, TagsDiffer, Zenon
<1> HIDE DEF n
<1>6. k \in DOMAIN Items(fs)
  BY <1>0, <1>2, Zenon
<1>7. \A i \in DOMAIN Items(fs) : Items(fs)[i].tag = Numeral(tag, 2) <=> i = k
  <2> TAKE i \in DOMAIN Items(fs)
  <2>1. i \in 1 .. n
    BY <1>2, Zenon
  <2>2. Items(fs)[i].tag = Numeral(fs[i].tag, 2)
    BY <1>3, <2>1, Zenon
  <2> QED
    BY <1>5, <2>1, <2>2, Zenon
<1>8. OnlyAt(Items(fs), tag, k)
  BY <1>1, <1>6, <1>7, Zenon DEF OnlyAt
<1> QED
  BY <1>0, <1>3, <1>8, Zenon

\* A field among the first ones is found, if those behind have other tags.
Behind(fields, front, more, tag) ==
  /\ front \in Seq(Field) /\ more \in Seq(Field) /\ fields = front \o more
  /\ \A j \in 1 .. Len(more) : more[j].tag # Numeral(tag, 2)

\* It is found where it was.
LEMMA FrontThere ==
  ASSUME NEW fields, NEW front, NEW more, NEW tag, NEW k,
         OnlyAt(front, tag, k), Behind(fields, front, more, tag)
  PROVE  OnlyAt(fields, tag, k) /\ fields[k] = front[k]
<1> DEFINE x == Numeral(tag, 2)
           n == Len(front)
           m == Len(more)
<1>1. /\ k \in Int /\ k \in DOMAIN front
      /\ \A i \in DOMAIN front : front[i].tag = x <=> i = k
  BY Zenon DEF OnlyAt
<1>2. /\ front \in Seq(Field) /\ more \in Seq(Field) /\ fields = front \o more
      /\ \A j \in 1 .. m : more[j].tag # x
  BY Zenon DEF Behind
<1> HIDE DEF x
<1>3. /\ fields \in Seq(Field) /\ Len(fields) = n + m /\ n \in Nat /\ m \in Nat
      /\ \A j \in 1 .. n : fields[j] = front[j]
      /\ \A j \in 1 .. m : fields[n + j] = more[j]
  BY <1>2, Joined
<1>4. DOMAIN fields = 1 .. n + m /\ DOMAIN front = 1 .. n
  BY <1>2, <1>3
<1> HIDE DEF n, m
<1>5. k \in 1 .. n /\ k \in 1 .. n + m
  BY <1>1, <1>3, <1>4
<1>6. \A i \in 1 .. n + m : i \in 1 .. n \/ (i - n \in 1 .. m /\ n + (i - n) = i /\ i # k)
  BY <1>3, <1>5
<1>7. \A i \in 1 .. n + m : fields[i].tag = x <=> i = k
  <2> TAKE i \in 1 .. n + m
  <2>1. CASE i \in 1 .. n
    BY <1>1, <1>3, <1>4, <2>1, Zenon
  <2>2. CASE i - n \in 1 .. m /\ n + (i - n) = i /\ i # k
    <3>1. fields[i] = more[i - n]
      BY <1>3, <2>2, Zenon
    <3> QED
      BY <1>2, <2>2, <3>1, Zenon
  <2> QED
    BY <1>6, <2>1, <2>2
<1>8. OnlyAt(fields, tag, k)
  BY <1>1, <1>4, <1>5, <1>7, Zenon DEF OnlyAt, x
<1> QED
  BY <1>3, <1>5, <1>8, Zenon

\* A subfield of a template.
Sub(fields, template, tag, reader) ==
  LET read == [i \in Places(fields, template) |-> Inside(fields[i].value, reader)]
      at == {i \in DOMAIN read : Places(read[i], tag) # {}}
  IN  IF at = {} THEN <<>> ELSE ValueOf(read[Max(at)], tag)

\* What is read of a code, subfield by subfield.
LEMMA DataOf ==
  ASSUME NEW fields, NEW reader
  PROVE  Data(fields, reader) =
           [address |-> Sub(fields, 26, 1, reader), network |-> Sub(fields, 26, 2, reader),
            currency |-> Sub(fields, 26, 3, reader), amount |-> ValueOf(fields, 54),
            memo |-> Sub(fields, 62, 5, reader)]
BY Zenon DEF Data, LastOf, Sub

\* The subfield of the only template with its tag.
LEMMA SubThere ==
  ASSUME NEW fields, NEW template, NEW tag, NEW reader, NEW k \in Int, NEW fs,
         Places(fields, template) = {k}, Inside(fields[k].value, reader) = Items(fs),
         Places(Items(fs), tag) # {}
  PROVE  Sub(fields, template, tag, reader) = ValueOf(Items(fs), tag)
<1> DEFINE read == [i \in Places(fields, template) |-> Inside(fields[i].value, reader)]
           at == {i \in DOMAIN read : Places(read[i], tag) # {}}
<1>1. DOMAIN read = {k} /\ read[k] = Items(fs)
  BY Zenon
<1> HIDE DEF read
<1>2. at = {k}
  BY <1>1
<1> HIDE DEF at
<1>3. Max(at) = k /\ at # {}
  BY <1>2, SingleMax, Zenon
<1>4. Sub(fields, template, tag, reader) = IF at = {} THEN <<>> ELSE ValueOf(read[Max(at)], tag)
  BY Zenon DEF Sub, at, read
<1> QED
  BY <1>1, <1>3, <1>4, Zenon

-----------------------------------------------------------------------------
(* Requests, and the fields of their codes.                                *)

\* Requests that are issued and whose values fit.
RequestType == [address : Seq(Byte), network : Seq(Byte), currency : Seq(Byte),
             amount : Amounts, memo : Seq(Byte)]
Sound(req) ==
  /\ req \in RequestType /\ Fits(req) /\ req.amount.n > 0
  /\ req.address # <<>> /\ req.network # <<>> /\ req.currency # <<>>

\* Making a field.
LEMMA EntryMade ==
  ASSUME NEW tag \in 0 .. 99, NEW v \in Seq(Byte), Len(v) <= 99
  PROVE  [tag |-> tag, value |-> v] \in Entry
BY DEF Entry, Short

\* Fields of constant text,
LEMMA FillType ==
  ASSUME NEW byte \in Byte, NEW n \in 0 .. 99
  PROVE  Fill(byte, n) \in Seq(Byte) /\ Len(Fill(byte, n)) = n
BY DEF Fill

\* and of digits.
LEMMA NumeralShort ==
  ASSUME NEW n \in Nat, NEW w \in 0 .. 6
  PROVE  Numeral(n, w) \in Short
<1>1. w \in 0 .. MaxDigits
  BY CodecAssumption
<1> HIDE DEF Numeral
<1>2. Numeral(n, w) \in Seq(Byte) /\ Len(Numeral(n, w)) = w
  BY <1>1, NumeralType, NumeralText
<1> QED
  BY <1>2 DEF Short

\* One field more makes a text longer by that field.
LEMMA TextLonger ==
  ASSUME NEW fs \in Seq(Entry), NEW f \in Entry, NEW n \in Nat, Len(Text(fs)) = n
  PROVE  Append(fs, f) \in Seq(Entry) /\ Len(Text(Append(fs, f))) = n + (4 + Len(f.value))
<1>1. Text(fs) \in Seq(Byte) /\ TLV(f.tag, f.value) \in Seq(Byte)
      /\ Len(TLV(f.tag, f.value)) = 4 + Len(f.value)
  BY TextType, EntryTLV
<1>2. Text(Append(fs, f)) = Text(fs) \o TLV(f.tag, f.value)
  BY TextAppend
<1>3. Len(Text(Append(fs, f))) = n + (4 + Len(f.value))
  BY <1>1, <1>2, BytesJoined
<1> QED
  BY <1>3, AppendFacts

-----------------------------------------------------------------------------
\* The account's template.
AccountFields(req) ==
  <<[tag |-> 0, value |-> Fill(111, 14)], [tag |-> 1, value |-> req.address],
    [tag |-> 2, value |-> req.network], [tag |-> 3, value |-> req.currency]>>

\* Four elements in every way that the specification has of joining them.
InFour(a, b, c, d) ==
  /\ Append(<<>>, a) = <<a>> /\ Append(<<a>>, b) = <<a, b>>
  /\ Append(<<a, b>>, c) = <<a, b, c>> /\ Append(<<a, b, c>>, d) = <<a, b, c, d>>
  /\ <<a>> \o <<b>> \o <<c>> \o <<d>> = <<a, b, c, d>>

\* Four elements of one set.
Four(T, a, b, c, d) == a \in T /\ b \in T /\ c \in T /\ d \in T

\* They are all the same.
LEMMA Tuples ==
  ASSUME NEW T, NEW a, NEW b, NEW c, NEW d, Four(T, a, b, c, d)
  PROVE  InFour(a, b, c, d)
<1> DEFINE p == <<a>>
           q == <<a, b>>
           r == <<a, b, c>>
           s == <<a, b, c, d>>
<1>0. a \in T /\ b \in T /\ c \in T /\ d \in T
  BY Zenon DEF Four
<1>1. p \in Seq(T) /\ Len(p) = 1 /\ p[1] = a
  BY <1>0
<1>2. q \in Seq(T) /\ Len(q) = 2 /\ q[1] = a /\ q[2] = b
  BY <1>0
<1>3. r \in Seq(T) /\ Len(r) = 3 /\ r[1] = a /\ r[2] = b /\ r[3] = c
  BY <1>0
<1>4. s \in Seq(T) /\ Len(s) = 4 /\ s[1] = a /\ s[2] = b /\ s[3] = c /\ s[4] = d
  BY <1>0
<1>5. Append(<<>>, a) = p
  OBVIOUS
<1> HIDE DEF p, q, r, s
<1>6. OneMore(T, p, b, q, 1) /\ OneMore(T, q, c, r, 2) /\ OneMore(T, r, d, s, 3)
  BY <1>0, <1>1, <1>2, <1>3, <1>4 DEF OneMore
<1>7. Append(p, b) = q /\ Append(q, c) = r /\ Append(r, d) = s
  BY <1>6, AppendIs, Zenon
<1>8. p \o <<b>> = q /\ q \o <<c>> = r /\ r \o <<d>> = s
  <2>1. p \o <<b>> = Append(p, b)
    BY <1>0, <1>1, AppendIsConcat
  <2>2. q \o <<c>> = Append(q, c)
    BY <1>0, <1>2, AppendIsConcat
  <2>3. r \o <<d>> = Append(r, d)
    BY <1>0, <1>3, AppendIsConcat
  <2> QED
    BY <1>7, <2>1, <2>2, <2>3, Zenon
<1> QED
  BY <1>5, <1>7, <1>8, Zenon DEF InFour, p, q, r, s

\* The length of four fields.
AreFour(fs, a, b, c, d, n) ==
  /\ Four(Entry, a, b, c, d) /\ fs = <<a, b, c, d>>
  /\ n = 16 + Len(a.value) + Len(b.value) + Len(c.value) + Len(d.value)

\* It is the length of their text.
LEMMA FourEntries ==
  ASSUME NEW fs, NEW a, NEW b, NEW c, NEW d, NEW n, AreFour(fs, a, b, c, d, n)
  PROVE  fs \in Seq(Entry) /\ Len(Text(fs)) = n
<1>0. a \in Entry /\ b \in Entry /\ c \in Entry /\ d \in Entry
  BY Zenon DEF AreFour, Four
<1>1. /\ Append(<<>>, a) = <<a>> /\ Append(<<a>>, b) = <<a, b>>
      /\ Append(<<a, b>>, c) = <<a, b, c>> /\ Append(<<a, b, c>>, d) = <<a, b, c, d>>
  <2>1. InFour(a, b, c, d)
    BY Tuples, Zenon DEF AreFour
  <2> QED
    BY <2>1, Zenon DEF InFour
<1>2. Len(Text(<<>>)) = 0
  BY TextEmpty, EmptySeq
<1>3. \A e \in Entry : Len(e.value) \in Nat
  BY EntryTLV, LenProperties
<1> DEFINE la == Len(a.value)
           lb == Len(b.value)
           lc == Len(c.value)
           ld == Len(d.value)
<1>4. la \in Nat /\ lb \in Nat /\ lc \in Nat /\ ld \in Nat
  BY <1>0, <1>3
<1> HIDE DEF la, lb, lc, ld
<1>5. <<a>> \in Seq(Entry) /\ Len(Text(<<a>>)) = 4 + la
  <2>1. Append(<<>>, a) \in Seq(Entry) /\ Len(Text(Append(<<>>, a))) = 0 + (4 + Len(a.value))
    <3>1. <<>> \in Seq(Entry) /\ 0 \in Nat
      OBVIOUS
    <3> QED
      BY <1>0, <1>2, <3>1, TextLonger, Zenon
  <2>2. 0 + (4 + la) = 4 + la
    BY <1>4
  <2> QED
    BY <1>1, <2>1, <2>2, Zenon DEF la
<1>6. <<a, b>> \in Seq(Entry) /\ Len(Text(<<a, b>>)) = 8 + la + lb
  <2>1. 4 + la \in Nat
    BY <1>4
  <2>2. Append(<<a>>, b) \in Seq(Entry) /\ Len(Text(Append(<<a>>, b))) = (4 + la) + (4 + Len(b.value))
    BY <1>0, <1>5, <2>1, TextLonger
  <2>3. (4 + la) + (4 + lb) = 8 + la + lb
    BY <1>4
  <2> QED
    BY <1>1, <2>2, <2>3, Zenon DEF lb
<1>7. <<a, b, c>> \in Seq(Entry) /\ Len(Text(<<a, b, c>>)) = 12 + la + lb + lc
  <2>1. 8 + la + lb \in Nat
    BY <1>4
  <2>2. Append(<<a, b>>, c) \in Seq(Entry)
        /\ Len(Text(Append(<<a, b>>, c))) = (8 + la + lb) + (4 + Len(c.value))
    BY <1>0, <1>6, <2>1, TextLonger
  <2>3. (8 + la + lb) + (4 + lc) = 12 + la + lb + lc
    BY <1>4
  <2> QED
    BY <1>1, <2>2, <2>3, Zenon DEF lc
<1>8. <<a, b, c, d>> \in Seq(Entry) /\ Len(Text(<<a, b, c, d>>)) = 16 + la + lb + lc + ld
  <2>1. 12 + la + lb + lc \in Nat
    BY <1>4
  <2>2. Append(<<a, b, c>>, d) \in Seq(Entry)
        /\ Len(Text(Append(<<a, b, c>>, d))) = (12 + la + lb + lc) + (4 + Len(d.value))
    BY <1>0, <1>7, <2>1, TextLonger
  <2>3. (12 + la + lb + lc) + (4 + ld) = 16 + la + lb + lc + ld
    BY <1>4
  <2> QED
    BY <1>1, <2>2, <2>3, Zenon DEF ld
<1>9. fs = <<a, b, c, d>> /\ n = 16 + la + lb + lc + ld
  BY Zenon DEF AreFour, la, lb, lc, ld
<1> QED
  BY <1>8, <1>9, Zenon

\* The account's template is a text of four fields, and short enough.
LEMMA AccountOf ==
  ASSUME NEW req, Sound(req)
  PROVE  /\ AccountFields(req) \in Seq(Entry) /\ Account(req) = Text(AccountFields(req))
         /\ Account(req) \in Seq(Byte) /\ Len(Account(req)) <= 99
<1>1. /\ req \in RequestType
      /\ Len(req.address) + Len(req.network) + Len(req.currency) <= 69
      /\ req.address # <<>> /\ req.network # <<>> /\ req.currency # <<>>
  BY Zenon DEF Sound, Fits
<1>2. PICK x, y, z : x = req.address /\ y = req.network /\ z = req.currency
  OBVIOUS
<1>3. x \in Seq(Byte) /\ y \in Seq(Byte) /\ z \in Seq(Byte)
  BY <1>1, <1>2 DEF RequestType
<1>4. /\ Len(x) \in Nat /\ Len(y) \in Nat /\ Len(z) \in Nat /\ Len(x) + Len(y) + Len(z) <= 69
      /\ x # <<>> /\ y # <<>> /\ z # <<>>
  <2>1. Len(x) \in Nat /\ Len(y) \in Nat /\ Len(z) \in Nat
    BY <1>3, LenProperties
  <2> QED
    BY <1>1, <1>2, <2>1, Zenon
<1>5. PICK lx, ly, lz : lx = Len(x) /\ ly = Len(y) /\ lz = Len(z)
  OBVIOUS
<1>6. lx \in 0 .. 99 /\ ly \in 0 .. 99 /\ lz \in 0 .. 99 /\ lx + ly + lz <= 69
  <2>1. lx \in Nat /\ ly \in Nat /\ lz \in Nat /\ lx + ly + lz <= 69
    BY <1>4, <1>5, Zenon
  <2> QED
    BY <2>1
<1>7. Fill(111, 14) \in Seq(Byte) /\ Len(Fill(111, 14)) = 14
  <2>1. 111 \in Byte /\ 14 \in 0 .. 99
    BY DEF Byte
  <2> HIDE DEF Fill
  <2> QED
    BY <2>1, FillType, ZenonT(60)
<1> DEFINE a == [tag |-> 0, value |-> Fill(111, 14)]
           b == [tag |-> 1, value |-> x]
           c == [tag |-> 2, value |-> y]
           d == [tag |-> 3, value |-> z]
<1>8. a \in Entry /\ b \in Entry /\ c \in Entry /\ d \in Entry
  <2>1. Len(x) <= 99 /\ Len(y) <= 99 /\ Len(z) <= 99
    BY <1>5, <1>6
  <2>2. 0 \in 0 .. 99 /\ 1 \in 0 .. 99 /\ 2 \in 0 .. 99 /\ 3 \in 0 .. 99 /\ 14 <= 99
    OBVIOUS
  <2> HIDE DEF Fill
  <2> QED
    BY <1>3, <1>7, <2>1, <2>2, EntryMade, Zenon
<1>17. Four(Entry, a, b, c, d)
  BY <1>8, Zenon DEF Four
<1>9. Len(a.value) = 14 /\ Len(b.value) = lx /\ Len(c.value) = ly /\ Len(d.value) = lz
  BY <1>5, <1>7
<1>10. AccountFields(req) = <<a, b, c, d>>
  BY <1>2, Zenon DEF AccountFields
<1>11. Account(req) = Text(<<a, b, c, d>>)
  <2>1. Account(req) = Text(Always(0, Fill(111, 14)) \o Always(1, x) \o Always(2, y) \o Always(3, z))
    BY <1>2, <1>4, Zenon DEF Account, Optional
  <2>2. /\ Always(0, Fill(111, 14)) = <<a>> /\ Always(1, x) = <<b>>
        /\ Always(2, y) = <<c>> /\ Always(3, z) = <<d>>
    BY Zenon DEF Always
  <2> HIDE DEF a, b, c, d
  <2>3. <<a>> \o <<b>> \o <<c>> \o <<d>> = <<a, b, c, d>>
    <3>1. InFour(a, b, c, d)
      BY <1>17, Tuples, Zenon
    <3> QED
      BY <3>1, Zenon DEF InFour
  <2> QED
    BY <2>1, <2>2, <2>3, Zenon
<1> HIDE DEF a, b, c, d
<1>12. PICK n : n = 16 + 14 + lx + ly + lz
  OBVIOUS
<1>13. n <= 99
  BY <1>6, <1>12
<1>14. AreFour(AccountFields(req), a, b, c, d, n)
  BY <1>9, <1>10, <1>12, <1>17, Zenon DEF AreFour
<1>15. AccountFields(req) \in Seq(Entry) /\ Len(Text(AccountFields(req))) = n
  BY <1>14, FourEntries, Zenon
<1>16. Text(AccountFields(req)) \in Seq(Byte)
  BY <1>15, TextType
<1> QED
  BY <1>10, <1>11, <1>13, <1>15, <1>16, Zenon

\* The fields that are the same in every code, and the amount.
Nine(fs, a, b, c, d, e, f, g, h, i) ==
  /\ fs = <<a, b, c, d, e, f, g, h, i>>
  /\ a \in Entry /\ b \in Entry /\ c \in Entry /\ d \in Entry /\ e \in Entry
  /\ f \in Entry /\ g \in Entry /\ h \in Entry /\ i \in Entry
  /\ a.tag = 0 /\ b.tag = 1 /\ c.tag = 26 /\ d.tag = 52 /\ e.tag = 53
  /\ f.tag = 54 /\ g.tag = 58 /\ h.tag = 59 /\ i.tag = 60

\* Only the third is an account and only the sixth an amount.
Found(fs, account, amount) ==
  /\ OnlyEntry(fs, 26, 3) /\ fs[3] = account
  /\ OnlyEntry(fs, 54, 6) /\ fs[6] = amount

\* In the nine fields of every code the account is the third, and the amount the sixth.
LEMMA NineOnly ==
  ASSUME NEW fs, NEW a, NEW b, NEW c, NEW d, NEW e, NEW f, NEW g, NEW h, NEW i,
         Nine(fs, a, b, c, d, e, f, g, h, i)
  PROVE  Found(fs, c, f)
<1>1. fs \in Seq(Entry)
  BY DEF Nine
<1>2. /\ Len(fs) = 9 /\ fs[1] = a /\ fs[2] = b /\ fs[3] = c /\ fs[4] = d /\ fs[5] = e
      /\ fs[6] = f /\ fs[7] = g /\ fs[8] = h /\ fs[9] = i
  BY DEF Nine
<1>3. \A j \in 1 .. Len(fs) : (fs[j].tag = 26 <=> j = 3) /\ (fs[j].tag = 54 <=> j = 6)
  <2> TAKE j \in 1 .. Len(fs)
  <2>1. j \in {1, 2, 3, 4, 5, 6, 7, 8, 9}
    BY <1>2
  <2> QED
    BY <1>2, <2>1 DEF Nine
<1>4. 26 \in 0 .. 99 /\ 54 \in 0 .. 99 /\ 3 \in 1 .. Len(fs) /\ 6 \in 1 .. Len(fs)
  BY <1>2
<1>5. OnlyEntry(fs, 26, 3) /\ OnlyEntry(fs, 54, 6)
  BY <1>1, <1>3, <1>4, Zenon DEF OnlyEntry
<1> QED
  BY <1>2, <1>5, Zenon DEF Found

\* An amount is written in digits and a point,
LEMMA ShowText ==
  ASSUME NEW a \in Amounts, a.n > 0
  PROVE  Show(a) \in Seq(46 .. 57)
<1>1. a \in Decimal /\ a.n < Tens[MaxDigits]
  BY ReadShow
<1>2. \E whole, width, fraction : Written(Show(a), Normal(a), whole, width, fraction)
  BY <1>1, ShowWritten
<1> QED
  BY <1>2, Zenon DEF Written

\* so these are the first fields of every code.
LEMMA FixedFacts ==
  ASSUME NEW req, Sound(req)
  PROVE  /\ OnlyEntry(Fixed(req), 26, 3) /\ Fixed(req)[3].value = Account(req)
         /\ OnlyEntry(Fixed(req), 54, 6) /\ Fixed(req)[6].value = Show(req.amount)
<1> DEFINE a == [tag |-> 0, value |-> Numeral(1, 2)]
           b == [tag |-> 1, value |-> Numeral(12, 2)]
           c == [tag |-> 26, value |-> Account(req)]
           d == [tag |-> 52, value |-> Numeral(0, 4)]
           e == [tag |-> 53, value |-> Numeral(840, 3)]
           f == [tag |-> 54, value |-> Show(req.amount)]
           g == [tag |-> 58, value |-> Fill(85, 2)]
           h == [tag |-> 59, value |-> Fill(67, 11)]
           i == [tag |-> 60, value |-> Fill(78, 8)]
<1>1. a \in Entry /\ b \in Entry /\ d \in Entry /\ e \in Entry
  <2> HIDE DEF Numeral
  <2>1. Numeral(1, 2) \in Short
    BY NumeralShort
  <2>2. Numeral(12, 2) \in Short
    BY NumeralShort
  <2>3. Numeral(0, 4) \in Short
    BY NumeralShort
  <2>4. Numeral(840, 3) \in Short
    BY NumeralShort
  <2> QED
    BY <2>1, <2>2, <2>3, <2>4 DEF Entry
<1>2. g \in Entry /\ h \in Entry /\ i \in Entry
  <2>1. Fill(85, 2) \in Short /\ Fill(67, 11) \in Short /\ Fill(78, 8) \in Short
    BY DEF Fill, Short, Byte
  <2> HIDE DEF Fill
  <2> QED
    BY <2>1 DEF Entry
<1>3. c \in Entry
  <2>1. Account(req) \in Seq(Byte) /\ Len(Account(req)) <= 99
    BY AccountOf
  <2>2. Account(req) \in Short
    BY <2>1 DEF Short
  <2> HIDE DEF Account
  <2> QED
    BY <2>2 DEF Entry
<1>4. f \in Entry
  <2>1. req \in RequestType /\ req.amount.n > 0 /\ Len(Show(req.amount)) <= 99
    BY Zenon DEF Sound, Fits
  <2>2. req.amount \in Amounts
    BY <2>1 DEF RequestType
  <2>3. Show(req.amount) \in Seq(46 .. 57)
    BY <2>1, <2>2, ShowText
  <2>4. 46 .. 57 \subseteq Byte
    BY DEF Byte
  <2>5. Show(req.amount) \in Seq(Byte)
    BY <2>3, <2>4, SeqMonotonic
  <2>6. Show(req.amount) \in Short
    BY <2>1, <2>5 DEF Short
  <2> QED
    BY <2>6 DEF Entry
<1>5. /\ a.tag = 0 /\ b.tag = 1 /\ c.tag = 26 /\ d.tag = 52 /\ e.tag = 53
      /\ f.tag = 54 /\ g.tag = 58 /\ h.tag = 59 /\ i.tag = 60
      /\ c.value = Account(req) /\ f.value = Show(req.amount)
  OBVIOUS
<1>6. Fixed(req) = <<a, b, c, d, e, f, g, h, i>>
  BY Zenon DEF Fixed
<1> HIDE DEF a, b, c, d, e, f, g, h, i
<1>7. Nine(Fixed(req), a, b, c, d, e, f, g, h, i)
  BY <1>1, <1>2, <1>3, <1>4, <1>5, <1>6, Zenon DEF Nine
<1>8. Found(Fixed(req), c, f)
  BY <1>7, NineOnly, Zenon
<1> QED
  BY <1>5, <1>8, Zenon DEF Found

\* Fields behind that have other tags.
Apart(fs, gs, t, tag) ==
  gs \in Seq(Entry) /\ t = fs \o gs /\ \A j \in 1 .. Len(gs) : gs[j].tag # tag

Keeps(t, fs, tag, k) == OnlyEntry(t, tag, k) /\ t[k] = fs[k]

\* The k-th field stays the only one with its tag.
LEMMA StaysOnly ==
  ASSUME NEW fs, NEW gs, NEW t, NEW tag, NEW k, OnlyEntry(fs, tag, k), Apart(fs, gs, t, tag)
  PROVE  Keeps(t, fs, tag, k)
<1> DEFINE n == Len(fs)
           m == Len(gs)
<1>1. /\ fs \in Seq(Entry) /\ tag \in 0 .. 99 /\ k \in 1 .. n
      /\ \A i \in 1 .. n : fs[i].tag = tag <=> i = k
  BY Zenon DEF OnlyEntry
<1>2. gs \in Seq(Entry) /\ \A j \in 1 .. m : gs[j].tag # tag
  BY Zenon DEF Apart
<1>3. t = fs \o gs
  BY Zenon DEF Apart
<1>4. /\ t \in Seq(Entry) /\ Len(t) = n + m /\ n \in Nat /\ m \in Nat
      /\ \A j \in 1 .. n : t[j] = fs[j]
      /\ \A j \in 1 .. m : t[n + j] = gs[j]
  BY <1>1, <1>2, <1>3, Joined
<1> HIDE DEF n, m
<1>5. \A i \in 1 .. n + m : i \in 1 .. n \/ (i - n \in 1 .. m /\ n + (i - n) = i /\ i # k)
  BY <1>1, <1>4
<1>6. \A i \in 1 .. n + m : t[i].tag = tag <=> i = k
  <2> TAKE i \in 1 .. n + m
  <2>1. CASE i \in 1 .. n
    BY <1>1, <1>4, <2>1, Zenon
  <2>2. CASE i - n \in 1 .. m /\ n + (i - n) = i /\ i # k
    <3>1. t[i] = gs[i - n]
      BY <1>4, <2>2, Zenon
    <3> QED
      BY <1>2, <2>2, <3>1, Zenon
  <2> QED
    BY <1>5, <2>1, <2>2
<1>7. k \in 1 .. n + m
  BY <1>1, <1>4
<1>8. OnlyEntry(t, tag, k)
  BY <1>1, <1>4, <1>6, <1>7, Zenon DEF OnlyEntry
<1> QED
  BY <1>1, <1>4, <1>8, Zenon DEF Keeps

-----------------------------------------------------------------------------
\* The memo's template.
MemoEntry(req) == [tag |-> 62, value |-> Text(Always(5, req.memo))]

\* A memo that is not empty becomes a template with one subfield.
LEMMA MemoOf ==
  ASSUME NEW req, Sound(req)
  PROVE  /\ req.memo = <<>> => Memo(req) = <<>>
         /\ req.memo # <<>> => /\ Memo(req) = <<MemoEntry(req)>> /\ MemoEntry(req) \in Entry
                               /\ MemoEntry(req).tag = 62
                               /\ Text(Always(5, req.memo)) = TLV(5, req.memo)
                               /\ Len(req.memo) <= 95 /\ req.memo \in Seq(Byte)
<1>1. CASE req.memo = <<>>
  <2>1. Optional(5, req.memo) = <<>>
    BY <1>1, Zenon DEF Optional
  <2>2. Memo(req) = <<>>
    BY <2>1, TextEmpty, Zenon DEF Memo, Optional
  <2> QED
    BY <1>1, <2>2
<1>2. CASE req.memo # <<>>
  <2>1. Optional(5, req.memo) = Always(5, req.memo)
    BY <1>2, Zenon DEF Optional
  <2>2. req.memo \in Seq(Byte) /\ Len(req.memo) <= 95
    <3>1. req \in RequestType /\ Len(req.memo) <= 95
      BY Zenon DEF Sound, Fits
    <3> QED
      BY <3>1 DEF RequestType
  <2> DEFINE f == [tag |-> 5, value |-> req.memo]
             l == Len(req.memo)
  <2>3. f \in Entry /\ f.tag = 5 /\ f.value = req.memo
    <3>1. l \in Nat /\ l <= 95
      BY <2>2, LenProperties
    <3>2. l <= 99
      BY <3>1
    <3>3. req.memo \in Short
      BY <2>2, <3>2 DEF Short
    <3> QED
      BY <3>3 DEF Entry
  <2>4. Always(5, req.memo) = <<f>>
    BY Zenon DEF Always
  <2> HIDE DEF f
  <2>5. Text(<<f>>) = TLV(5, req.memo) /\ Text(<<f>>) \in Seq(Byte)
        /\ Len(Text(<<f>>)) = 4 + l
    <3>1. Append(<<>>, f) = <<f>> /\ <<>> \in Seq(Entry)
      OBVIOUS
    <3>2. Text(Append(<<>>, f)) = Text(<<>>) \o TLV(f.tag, f.value)
      BY <2>3, <3>1, TextAppend
    <3>3. TLV(f.tag, f.value) \in Seq(Byte) /\ Len(TLV(f.tag, f.value)) = 4 + Len(f.value)
      BY <2>3, EntryTLV
    <3>4. <<>> \o TLV(f.tag, f.value) = TLV(f.tag, f.value)
      BY <3>3, ConcatEmptySeq
    <3> QED
      BY <2>3, <3>1, <3>2, <3>3, <3>4, TextEmpty, Zenon
  <2>6. l \in Nat /\ l <= 95
    BY <2>2, LenProperties
  <2> DEFINE v == Text(Always(5, req.memo))
  <2>7. v \in Seq(Byte) /\ Len(v) = 4 + l /\ v = TLV(5, req.memo)
    BY <2>4, <2>5, Zenon
  <2> HIDE DEF v, l
  <2>8. v # <<>> /\ v \in Short
    <3>1. Len(v) <= 99 /\ Len(v) # 0
      BY <2>6, <2>7
    <3> QED
      BY <2>7, <3>1, EmptySeq DEF Short
  <2>9. Memo(req) = <<MemoEntry(req)>>
    <3>1. Memo(req) = Always(62, v)
      BY <2>1, <2>8, Zenon DEF Memo, Optional, v
    <3> QED
      BY <3>1, Zenon DEF Always, MemoEntry, v
  <2>10. MemoEntry(req) = [tag |-> 62, value |-> v]
    BY Zenon DEF MemoEntry, v
  <2>11. MemoEntry(req) \in Entry /\ MemoEntry(req).tag = 62
    BY <2>8, <2>10 DEF Entry
  <2> QED
    BY <1>2, <2>2, <2>7, <2>9, <2>11, Zenon DEF v
<1> QED
  BY <1>1, <1>2

\* So it adds no second account and no second amount,
LEMMA MemoType ==
  ASSUME NEW req, Sound(req)
  PROVE  Memo(req) \in Seq(Entry) /\ \A j \in 1 .. Len(Memo(req)) : Memo(req)[j].tag = 62
<1>1. CASE req.memo = <<>>
  <2>1. Memo(req) = <<>>
    BY <1>1, MemoOf
  <2> QED
    BY <2>1
<1>2. CASE req.memo # <<>>
  <2> DEFINE f == MemoEntry(req)
  <2>1. Memo(req) = <<f>> /\ f \in Entry /\ f.tag = 62
    BY <1>2, MemoOf
  <2> HIDE DEF f
  <2> QED
    BY <2>1
<1> QED
  BY <1>1, <1>2

\* The checksum is a field like any other.
CrcEntry == [tag |-> 63, value |-> CrcText]

\* nor does the checksum.
LEMMA CrcOf ==
  /\ CrcEntry \in Entry /\ CrcEntry.tag = 63 /\ CrcEntry.value = CrcText
  /\ CrcText \in Seq(48 .. 57 \cup 65 .. 70) /\ CrcText \in Seq(Byte) /\ Len(CrcText) = 4
<1>1. CrcText \in Seq(48 .. 57 \cup 65 .. 70) /\ Len(CrcText) = 4
  <2> DEFINE S == 48 .. 57 \cup 65 .. 70
  <2>1. CrcText \in [1 .. 4 -> S]
    BY CodecAssumption
  <2> HIDE DEF S
  <2>2. CrcText \in Seq(S)
    BY <2>1, SeqDef
  <2>3. Len(CrcText) = 4
    BY <2>1, <2>2
  <2> QED
    BY <2>2, <2>3 DEF S
<1>2. 48 .. 57 \cup 65 .. 70 \subseteq Byte
  BY DEF Byte
<1>3. CrcText \in Seq(Byte)
  BY <1>1, <1>2, SeqMonotonic
<1>4. CrcText \in Short
  <2>1. Len(CrcText) <= 99
    BY <1>1
  <2> QED
    BY <1>3, <2>1, Zenon DEF Short
<1> QED
  BY <1>1, <1>3, <1>4 DEF CrcEntry, Entry

\* All fields of a code.
All(req) == (Fixed(req) \o Memo(req)) \o <<CrcEntry>>

\* The text of a code is the text of these fields, and only one of them is the
\* account and only one the amount.
LEMMA AllFacts ==
  ASSUME NEW req, Sound(req)
  PROVE  /\ All(req) \in Seq(Entry) /\ Body(req) \o CrcText = Text(All(req))
         /\ OnlyEntry(All(req), 26, 3) /\ All(req)[3].value = Account(req)
         /\ OnlyEntry(All(req), 54, 6) /\ All(req)[6].value = Show(req.amount)
<1> DEFINE fs == Fixed(req)
           ms == Memo(req)
           cs == <<CrcEntry>>
           gs == fs \o ms
<1>1. OnlyEntry(fs, 26, 3) /\ OnlyEntry(fs, 54, 6)
      /\ fs[3].value = Account(req) /\ fs[6].value = Show(req.amount)
  BY FixedFacts
<1>2. fs \in Seq(Entry)
  BY <1>1, Zenon DEF OnlyEntry
<1>3. ms \in Seq(Entry) /\ \A j \in 1 .. Len(ms) : ms[j].tag = 62
  BY MemoType
<1>4. cs \in Seq(Entry) /\ \A j \in 1 .. Len(cs) : cs[j].tag = 63
  BY CrcOf
<1> HIDE DEF fs, ms, cs
<1>5. gs = fs \o ms /\ All(req) = gs \o cs
  BY Zenon DEF All, fs, ms, cs
<1> HIDE DEF gs
<1>6. /\ Apart(fs, ms, gs, 26) /\ Apart(gs, cs, All(req), 26)
      /\ Apart(fs, ms, gs, 54) /\ Apart(gs, cs, All(req), 54)
  <2>1. \A j \in 1 .. Len(ms) : ms[j].tag # 26 /\ ms[j].tag # 54
    BY <1>3
  <2>2. \A j \in 1 .. Len(cs) : cs[j].tag # 26 /\ cs[j].tag # 54
    BY <1>4
  <2> QED
    BY <1>3, <1>4, <1>5, <2>1, <2>2, Zenon DEF Apart
<1>7. Keeps(gs, fs, 26, 3) /\ Keeps(gs, fs, 54, 6)
  BY <1>1, <1>6, StaysOnly, Zenon
<1>8. Keeps(All(req), gs, 26, 3) /\ Keeps(All(req), gs, 54, 6)
  <2>1. OnlyEntry(gs, 26, 3) /\ OnlyEntry(gs, 54, 6)
    BY <1>7, Zenon DEF Keeps
  <2> QED
    BY <1>6, <2>1, StaysOnly, Zenon
<1>9. /\ OnlyEntry(gs, 26, 3)
      /\ OnlyEntry(All(req), 26, 3) /\ All(req)[3] = fs[3]
      /\ OnlyEntry(All(req), 54, 6) /\ All(req)[6] = fs[6]
  BY <1>7, <1>8, Zenon DEF Keeps
<1>10. gs \in Seq(Entry) /\ All(req) \in Seq(Entry)
  BY <1>9, Zenon DEF OnlyEntry
<1>11. Body(req) \o CrcText = Text(All(req))
  <2> DEFINE t == Text(gs)
             x == Numeral(63, 2)
             y == LengthOf(4)
             z == CrcText
  <2>1. All(req) = Append(gs, CrcEntry)
    <3>1. CrcEntry \in Entry
      BY CrcOf
    <3>2. Append(gs, CrcEntry) = gs \o <<CrcEntry>>
      BY <1>10, <3>1, AppendIsConcat
    <3> QED
      BY <1>5, <3>2, Zenon DEF cs
  <2>2. Text(All(req)) = t \o TLV(63, z)
    <3>1. Text(Append(gs, CrcEntry)) = Text(gs) \o TLV(CrcEntry.tag, CrcEntry.value)
      BY <1>10, CrcOf, TextAppend
    <3> QED
      BY <2>1, <3>1, CrcOf, Zenon
  <2>3. TLV(63, z) = (x \o y) \o z
    BY CrcOf, Zenon DEF TLV
  <2>4. Body(req) = (t \o x) \o y
    BY <1>5, Zenon DEF Body, fs, ms
  <2>5. t \in Seq(Byte) /\ x \in Seq(Byte) /\ y \in Seq(Byte) /\ z \in Seq(Byte)
    <3>1. x \in Short
      <4> HIDE DEF Numeral
      <4> QED
        BY NumeralShort
    <3>2. y \in Short
      <4>1. LengthOf(4) = Numeral(4, 2)
        BY TwoDigits
      <4>2. Numeral(4, 2) \in Short
        <5> HIDE DEF Numeral
        <5> QED
          BY NumeralShort
      <4> QED
        BY <4>1, <4>2
    <3>3. t \in Seq(Byte)
      BY <1>10, TextType
    <3>4. \A v \in Short : v \in Seq(Byte)
      BY DEF Short
    <3> QED
      BY <3>1, <3>2, <3>3, <3>4, CrcOf, Zenon
  <2> HIDE DEF t, x, y, z
  <2>6. ((t \o x) \o y) \o z = t \o ((x \o y) \o z)
    <3>1. PICK p, q : p = x \o y /\ q = t \o x
      OBVIOUS
    <3>2. p \in Seq(Byte) /\ q \in Seq(Byte)
      BY <2>5, <3>1, ConcatProperties
    <3>3. q \o y = t \o p
      <4>1. Joins(Byte, t, x, y)
        BY <2>5, Zenon DEF Joins
      <4>2. Associates(t, x, y)
        BY <4>1, JoinAssociates, Zenon
      <4> QED
        BY <3>1, <4>2, Zenon DEF Associates
    <3>4. (t \o p) \o z = t \o (p \o z)
      <4>1. Joins(Byte, t, p, z)
        BY <2>5, <3>2, Zenon DEF Joins
      <4>2. Associates(t, p, z)
        BY <4>1, JoinAssociates, Zenon
      <4> QED
        BY <4>2, Zenon DEF Associates
    <3> QED
      BY <3>1, <3>3, <3>4, Zenon
  <2> QED
    BY <2>2, <2>3, <2>4, <2>6, Zenon DEF z
<1> QED
  BY <1>1, <1>9, <1>10, <1>11, Zenon

-----------------------------------------------------------------------------
\* What was written of a request is what the server reads.
LEMMA AccountRead ==
  ASSUME NEW req, Sound(req), NEW fields, NEW reader, NEW k,
         OnlyAt(fields, 26, k), fields[k].value = Account(req)
  PROVE  /\ Sub(fields, 26, 1, reader) = req.address
         /\ Sub(fields, 26, 2, reader) = req.network
         /\ Sub(fields, 26, 3, reader) = req.currency
<1> DEFINE fs == AccountFields(req)
<1>1. fs \in Seq(Entry) /\ Account(req) = Text(fs)
  BY AccountOf
<1>2. Inside(fields[k].value, reader) = Items(fs)
  BY <1>1, ReadAll
<1>3. Places(fields, 26) = {k} /\ k \in Int
  <2>1. k \in Int
    BY Zenon DEF OnlyAt
  <2> QED
    BY <2>1, ValueThere
<1>4. /\ OnlyEntry(fs, 1, 2) /\ fs[2].value = req.address
      /\ OnlyEntry(fs, 2, 3) /\ fs[3].value = req.network
      /\ OnlyEntry(fs, 3, 4) /\ fs[4].value = req.currency
  <2>1. /\ Len(fs) = 4 /\ fs[1].tag = 0 /\ fs[2].tag = 1 /\ fs[3].tag = 2 /\ fs[4].tag = 3
        /\ fs[2].value = req.address /\ fs[3].value = req.network /\ fs[4].value = req.currency
    BY DEF AccountFields
  <2> HIDE DEF fs
  <2>2. \A j \in 1 .. Len(fs) : j \in {1, 2, 3, 4}
    BY <2>1
  <2>3. \A j \in 1 .. Len(fs) : /\ fs[j].tag = 1 <=> j = 2
                                /\ fs[j].tag = 2 <=> j = 3
                                /\ fs[j].tag = 3 <=> j = 4
    BY <2>1, <2>2
  <2>4. /\ 1 \in 0 .. 99 /\ 2 \in 0 .. 99 /\ 3 \in 0 .. 99
        /\ 2 \in 1 .. Len(fs) /\ 3 \in 1 .. Len(fs) /\ 4 \in 1 .. Len(fs)
    BY <2>1
  <2> QED
    BY <1>1, <2>1, <2>3, <2>4, Zenon DEF OnlyEntry
<1> HIDE DEF fs
<1>5. \A tag, j : OnlyEntry(fs, tag, j) => Sub(fields, 26, tag, reader) = fs[j].value
  <2> TAKE tag, j
  <2> HAVE OnlyEntry(fs, tag, j)
  <2>1. OnlyAt(Items(fs), tag, j) /\ Items(fs)[j].value = fs[j].value
    BY EntryThere
  <2>2. Places(Items(fs), tag) = {j} /\ ValueOf(Items(fs), tag) = fs[j].value
    BY <2>1, ValueThere, Zenon
  <2>3. Places(Items(fs), tag) # {}
    BY <2>2
  <2>4. Sub(fields, 26, tag, reader) = ValueOf(Items(fs), tag)
    BY <1>2, <1>3, <2>3, SubThere
  <2> QED
    BY <2>2, <2>4, Zenon
<1> QED
  BY <1>4, <1>5, Zenon

\* The account and the amount are read where they were written.
LEMMA BothThere ==
  ASSUME NEW fs, NEW account, NEW amount,
         OnlyEntry(fs, 26, 3), fs[3].value = account, OnlyEntry(fs, 54, 6), fs[6].value = amount
  PROVE  /\ OnlyAt(Items(fs), 26, 3) /\ Items(fs)[3].value = account
         /\ OnlyAt(Items(fs), 54, 6) /\ Items(fs)[6].value = amount
<1>1. OnlyAt(Items(fs), 26, 3) /\ Items(fs)[3].value = fs[3].value
  BY EntryThere
<1>2. OnlyAt(Items(fs), 54, 6) /\ Items(fs)[6].value = fs[6].value
  BY EntryThere
<1> QED
  BY <1>1, <1>2, Zenon

\* The server reads address, network, currency and amount of every request that fits, as
\* they were written, whatever its memo.
THEOREM ServerReads ==
  ASSUME NEW req, Sound(req)
  PROVE  /\ Parse(Payload(req)).address = req.address
         /\ Parse(Payload(req)).network = req.network
         /\ Parse(Payload(req)).currency = req.currency
         /\ Parse(Payload(req)).amount = Show(req.amount)
<1> DEFINE text == Body(req) \o CrcText
           fs == All(req)
           fields == Items(fs)
<1>1. fs \in Seq(Entry) /\ text = Text(fs)
  BY AllFacts
<1>2. Fields(text).fields = fields /\ Fields(text).end = "done"
  BY <1>1, ReadAll
<1>3. Parse(Payload(req)) = Data(fields, "server")
  <2>1. Payload(req).body = Body(req) /\ Payload(req).crc = Body(req)
    BY DEF Payload
  <2> QED
    BY <1>2, <2>1, Zenon DEF Parse
<1>4. /\ OnlyAt(fields, 26, 3) /\ fields[3].value = Account(req)
      /\ OnlyAt(fields, 54, 6) /\ fields[6].value = Show(req.amount)
  <2>1. /\ OnlyEntry(fs, 26, 3) /\ fs[3].value = Account(req)
        /\ OnlyEntry(fs, 54, 6) /\ fs[6].value = Show(req.amount)
    BY AllFacts
  <2> QED
    BY <2>1, BothThere
<1> HIDE DEF fields, text, fs
<1>5. /\ Sub(fields, 26, 1, "server") = req.address
      /\ Sub(fields, 26, 2, "server") = req.network
      /\ Sub(fields, 26, 3, "server") = req.currency
  BY <1>4, AccountRead, Zenon
<1>6. ValueOf(fields, 54) = Show(req.amount)
  BY <1>4, ValueThere, Zenon
<1>7. Data(fields, "server") =
        [address |-> Sub(fields, 26, 1, "server"), network |-> Sub(fields, 26, 2, "server"),
         currency |-> Sub(fields, 26, 3, "server"), amount |-> ValueOf(fields, 54),
         memo |-> Sub(fields, 62, 5, "server")]
  BY DataOf
<1> QED
  BY <1>3, <1>5, <1>6, <1>7

-----------------------------------------------------------------------------
(* The page's units.                                                       *)

\* The page's count of a text depends on its count of shorter beginnings only.
Gone(text, i) == {j \in 1 .. i : Uncounted(text, j)}

\* The last byte that is not counted.
LEMMA GoneMax ==
  ASSUME NEW text, NEW i \in Nat, Gone(text, i) # {}
  PROVE  /\ Max(Gone(text, i)) \in 1 .. i /\ Uncounted(text, Max(Gone(text, i)))
         /\ \A j \in 1 .. i : Uncounted(text, j) => j <= Max(Gone(text, i))
<1> DEFINE S == Gone(text, i)
<1>1. S \in SUBSET Int /\ S # {} /\ i \in Int /\ \A x \in S : x <= i
  BY DEF Gone
<1>2. \A j : j \in S <=> j \in 1 .. i /\ Uncounted(text, j)
  BY DEF Gone
<1> HIDE DEF S
<1>3. Max(S) \in S /\ \A x \in S : x <= Max(S)
  BY <1>1, MaxOf
<1> QED
  BY <1>2, <1>3 DEF S

\* One step of the count.
LEMMA UnitsOfDef ==
  ASSUME NEW text, NEW i, NEW g
  PROVE  UnitsOf(text, i, g) =
           IF Gone(text, i) = {} THEN SubSeq(text, 1, i)
           ELSE g[Max(Gone(text, i)) - 1] \o SubSeq(text, Max(Gone(text, i)) + 1, i)
BY Zenon DEF UnitsOf, Gone

\* It depends on no count but that of a shorter beginning.
LEMMA UnitsLocal ==
  ASSUME NEW text, NEW i \in Nat, NEW g, NEW h, \A j \in 0 .. i - 1 : g[j] = h[j]
  PROVE  UnitsOf(text, i, g) = UnitsOf(text, i, h)
<1>1. CASE Gone(text, i) = {}
  BY <1>1, UnitsOfDef, Zenon
<1>2. CASE Gone(text, i) # {}
  <2>1. Max(Gone(text, i)) - 1 \in 0 .. i - 1
    BY <1>2, GoneMax
  <2>2. g[Max(Gone(text, i)) - 1] = h[Max(Gone(text, i)) - 1]
    BY <2>1
  <2> QED
    BY <1>2, <2>2, UnitsOfDef, Zenon
<1> QED
  BY <1>1, <1>2

\* The count up to every offset,
UnitsUpTo(text) == CHOOSE u : u = [i \in 0 .. Len(text) |-> UnitsOf(text, i, u)]

\* which exists, by induction on the offset.
LEMMA UnitsDef ==
  ASSUME NEW text \in Seq(Byte)
  PROVE  /\ Units(text) = UnitsUpTo(text)[Len(text)]
         /\ \A i \in 0 .. Len(text) : UnitsUpTo(text)[i] = UnitsOf(text, i, UnitsUpTo(text))
<1> DEFINE n == Len(text)
           Upto(m, g) == g = [i \in 0 .. m |-> UnitsOf(text, i, g)]
           Bad == {m \in 0 .. n : ~ \E g : Upto(m, g)}
<1>1. n \in Nat
  OBVIOUS
<1>2. /\ Bad \in SUBSET Nat /\ Bad \subseteq 0 .. n
      /\ \A m \in 0 .. n : m \in Bad <=> ~ \E g : Upto(m, g)
  <2> HIDE DEF Upto
  <2> QED
    BY <1>1
<1> HIDE DEF Bad
<1>3. ASSUME NEW m \in Nat, NEW g, Upto(m, g)
      PROVE  \E h : Upto(m + 1, h)
  <2> DEFINE h == [i \in 0 .. m + 1 |-> IF i = m + 1 THEN UnitsOf(text, i, g) ELSE g[i]]
  <2>1. \A i \in 0 .. m : i # m + 1 /\ i \in 0 .. m + 1
    OBVIOUS
  <2>2. \A i \in 0 .. m : h[i] = g[i]
    BY <2>1, Zenon
  <2>3. \A i \in 0 .. m : g[i] = UnitsOf(text, i, g)
    BY <1>3, Zenon
  <2>4. \A i \in 0 .. m + 1 : h[i] = UnitsOf(text, i, g)
    <3> TAKE i \in 0 .. m + 1
    <3>1. i = m + 1 \/ i \in 0 .. m
      OBVIOUS
    <3>2. h[i] = IF i = m + 1 THEN UnitsOf(text, i, g) ELSE g[i]
      BY Zenon
    <3> QED
      BY <2>3, <3>1, <3>2, Zenon
  <2>5. \A i \in 0 .. m + 1 : UnitsOf(text, i, g) = UnitsOf(text, i, h)
    <3> HIDE DEF h
    <3> TAKE i \in 0 .. m + 1
    <3>1. i \in Nat /\ \A j \in 0 .. i - 1 : j \in 0 .. m
      OBVIOUS
    <3>2. \A j \in 0 .. i - 1 : g[j] = h[j]
      BY <2>2, <3>1, Zenon
    <3> QED
      BY <3>1, <3>2, UnitsLocal
  <2>6. h = [i \in 0 .. m + 1 |-> h[i]]
    BY Zenon
  <2> HIDE DEF h
  <2>7. \A i \in 0 .. m + 1 : h[i] = UnitsOf(text, i, h)
    BY <2>4, <2>5, Zenon
  <2>8. Upto(m + 1, h)
    BY <2>6, <2>7, Zenon
  <2> QED
    BY <2>8
<1>4. Bad = {}
  <2>1. SUFFICES ASSUME Bad # {} PROVE FALSE
    OBVIOUS
  <2>2. PICK m \in Bad : \A k \in Bad : m <= k
    BY <1>2, <2>1, Least
  <2>3. m # 0
    <3> DEFINE g == [i \in 0 .. 0 |-> UnitsOf(text, i, <<>>)]
    <3>1. \A i \in 0 .. 0 : UnitsOf(text, i, <<>>) = UnitsOf(text, i, g)
      <4> HIDE DEF g
      <4> TAKE i \in 0 .. 0
      <4>1. i \in Nat /\ \A j \in 0 .. i - 1 : <<>>[j] = g[j]
        OBVIOUS
      <4> QED
        BY <4>1, UnitsLocal
    <3>2. Upto(0, g)
      BY <3>1, Zenon
    <3>3. 0 \in 0 .. n
      BY <1>1
    <3> HIDE DEF Upto, g
    <3> QED
      BY <1>2, <2>2, <3>2, <3>3
  <2>4. m - 1 \in Nat /\ m - 1 \in 0 .. n /\ m - 1 \notin Bad /\ m - 1 + 1 = m
    BY <1>1, <1>2, <2>2, <2>3
  <2> HIDE DEF Upto
  <2>5. PICK g : Upto(m - 1, g)
    BY <1>2, <2>4
  <2>6. \E h : Upto(m - 1 + 1, h)
    BY <1>3, <2>4, <2>5
  <2> QED
    BY <1>2, <2>2, <2>4, <2>6
<1>5. \E g : Upto(n, g)
  <2>1. n \in 0 .. n /\ n \notin Bad
    BY <1>1, <1>4
  <2> HIDE DEF Upto
  <2> QED
    BY <1>2, <2>1
<1> DEFINE f == UnitsUpTo(text)
<1>6. Upto(n, f)
  BY <1>5, Zenon DEF UnitsUpTo
<1>7. Units(text) = f[n]
  BY Zenon DEF Units, UnitsUpTo
<1> HIDE DEF f
<1>8. \A i \in 0 .. n : f[i] = UnitsOf(text, i, f)
  BY <1>6, Zenon
<1> QED
  BY <1>7, <1>8, Zenon DEF f

\* ASCII.
Plain == 0 .. 127

\* A text whose bytes outside m are characters of their own.
Mixed(text, a, m, b) ==
  a \in Seq(Plain) /\ m \in Seq(Byte) /\ b \in Seq(Plain) /\ text = a \o (m \o b)

\* ASCII is bytes.
LEMMA PlainBytes ==
  ASSUME NEW s \in Seq(Plain)
  PROVE  s \in Seq(Byte)
<1>1. Plain \subseteq Byte
  BY DEF Plain, Byte
<1> QED
  BY <1>1, SeqMonotonic

\* Where the bytes of a text of two parts are.
TwoParts(t, a, b) == a \in Seq(Byte) /\ b \in Seq(Byte) /\ t = a \o b

TwoPartsAt(t, a, b, la, lb) ==
  /\ t \in Seq(Byte) /\ Len(t) = la + lb
  /\ la = Len(a) /\ lb = Len(b) /\ la \in Nat /\ lb \in Nat
  /\ \A j \in 1 .. la : t[j] = a[j]
  /\ \A j \in 1 .. lb : t[la + j] = b[j]

\* They are there.
LEMMA TwoPartsFacts ==
  ASSUME NEW t, NEW a, NEW b, TwoParts(t, a, b)
  PROVE  TwoPartsAt(t, a, b, Len(a), Len(b))
<1>1. a \in Seq(Byte) /\ b \in Seq(Byte) /\ t = a \o b
  BY Zenon DEF TwoParts
<1>2. /\ t \in Seq(Byte) /\ Len(t) = Len(a) + Len(b)
      /\ Len(a) \in Nat /\ Len(b) \in Nat
      /\ \A j \in 1 .. Len(a) : t[j] = a[j]
      /\ \A j \in 1 .. Len(b) : t[Len(a) + j] = b[j]
  BY <1>1, Joined
<1> QED
  BY <1>2, Zenon DEF TwoPartsAt

\* And of a mixed text.
MixedAt(text, a, m, b, la, lm, lb) ==
  /\ la = Len(a) /\ lm = Len(m) /\ lb = Len(b) /\ la \in Nat /\ lm \in Nat /\ lb \in Nat
  /\ text \in Seq(Byte) /\ Len(text) = la + (lm + lb)
  /\ a \in Seq(Byte) /\ m \in Seq(Byte) /\ b \in Seq(Byte)
  /\ \A j \in 1 .. la : text[j] = a[j] /\ text[j] \in Plain
  /\ \A j \in 1 .. lm : text[la + j] = m[j]
  /\ \A j \in 1 .. lb : text[la + (lm + j)] = b[j] /\ text[la + (lm + j)] \in Plain

\* They are there, in a mixed text.
LEMMA MixedFacts ==
  ASSUME NEW text, NEW a, NEW m, NEW b, Mixed(text, a, m, b)
  PROVE  \E la, lm, lb : MixedAt(text, a, m, b, la, lm, lb)
<1>1. a \in Seq(Byte) /\ b \in Seq(Byte)
  BY PlainBytes, Zenon DEF Mixed
<1>2. m \in Seq(Byte)
  BY Zenon DEF Mixed
<1>3. PICK t, la, lm, lb, lt :
        t = m \o b /\ la = Len(a) /\ lm = Len(m) /\ lb = Len(b) /\ lt = Len(t)
  OBVIOUS
<1>4. text = a \o t
  BY <1>3, Zenon DEF Mixed
<1>5. TwoPartsAt(t, m, b, lm, lb)
  <2>1. TwoParts(t, m, b)
    BY <1>1, <1>2, <1>3, Zenon DEF TwoParts
  <2> QED
    BY <1>3, <2>1, TwoPartsFacts, Zenon
<1>6. TwoPartsAt(text, a, t, la, lt)
  <2>1. t \in Seq(Byte)
    BY <1>5, Zenon DEF TwoPartsAt
  <2>2. TwoParts(text, a, t)
    BY <1>1, <1>4, <2>1, Zenon DEF TwoParts
  <2> QED
    BY <1>3, <2>2, TwoPartsFacts, Zenon
<1>7. lm \in Nat /\ lb \in Nat /\ la \in Nat /\ lt = lm + lb
  BY <1>3, <1>5, <1>6, Zenon DEF TwoPartsAt
<1>8. (\A j \in 1 .. lm : j \in 1 .. lt) /\ (\A j \in 1 .. lb : lm + j \in 1 .. lt)
  BY <1>7
<1>9. (\A j \in 1 .. lm : text[la + j] = t[j]) /\ (\A j \in 1 .. lb : text[la + (lm + j)] = t[lm + j])
  BY <1>6, <1>8, Zenon DEF TwoPartsAt
<1>10. (\A j \in 1 .. lm : text[la + j] = m[j]) /\ (\A j \in 1 .. lb : text[la + (lm + j)] = b[j])
  BY <1>5, <1>9, Zenon DEF TwoPartsAt
<1>11. (\A j \in 1 .. la : a[j] \in Plain) /\ (\A j \in 1 .. lb : b[j] \in Plain)
  <2>1. a \in Seq(Plain) /\ b \in Seq(Plain)
    BY Zenon DEF Mixed
  <2> QED
    BY <1>3, <2>1
<1>12. text \in Seq(Byte) /\ Len(text) = la + lt /\ \A j \in 1 .. la : text[j] = a[j]
  BY <1>6, Zenon DEF TwoPartsAt
<1>13. MixedAt(text, a, m, b, la, lm, lb)
  <2>1. Len(text) = la + (lm + lb)
    BY <1>7, <1>12, Zenon
  <2> QED
    BY <1>1, <1>2, <1>3, <1>7, <1>10, <1>11, <1>12, <2>1, Zenon DEF MixedAt
<1> QED
  BY <1>13

\* Only bytes of m may be uncounted.
LEMMA GoneInside ==
  ASSUME NEW text, NEW a, NEW m, NEW b, NEW la, NEW lm, NEW lb,
         MixedAt(text, a, m, b, la, lm, lb), NEW j \in 1 .. Len(text), Uncounted(text, j)
  PROVE  j \in la + 1 .. la + lm
<1>1. text[j] \in 128 .. 191
  BY Zenon DEF Uncounted
<1>2. la \in Nat /\ lm \in Nat /\ lb \in Nat /\ j \in 1 .. la + (lm + lb)
  BY Zenon DEF MixedAt
<1>3. /\ \A i \in 1 .. la : text[i] \in Plain
      /\ \A i \in 1 .. lb : text[la + (lm + i)] \in Plain
  BY Zenon DEF MixedAt
<1>4. text[j] \notin Plain
  <2> DEFINE x == text[j]
  <2>1. x \in 128 .. 191
    BY <1>1
  <2> HIDE DEF x
  <2>2. x \notin Plain
    BY <2>1 DEF Plain
  <2> QED
    BY <2>2 DEF x
<1>5. ~ (j \in 1 .. la)
  BY <1>3, <1>4, Zenon
<1>6. ASSUME j > la + lm PROVE FALSE
  <2>1. PICK i : i = (j - la) - lm
    OBVIOUS
  <2>2. i \in 1 .. lb /\ la + (lm + i) = j
    BY <1>2, <1>6, <2>1
  <2> QED
    BY <1>3, <1>4, <2>2, Zenon
<1> QED
  BY <1>2, <1>5, <1>6

\* What is cut out of a text.
LEMMA Cut ==
  ASSUME NEW text \in Seq(Byte), NEW p \in 0 .. Len(text), NEW q \in p .. Len(text)
  PROVE  /\ SubSeq(text, p + 1, q) \in Seq(Byte) /\ Len(SubSeq(text, p + 1, q)) = q - p
         /\ \A j \in 1 .. q - p : SubSeq(text, p + 1, q)[j] = text[p + j]
OBVIOUS

\* A beginning of the text is a and something, a rest of it something and b.
BeginsWith(text, a, la, i) ==
  \E x \in Seq(Byte) : SubSeq(text, 1, i) = a \o x /\ Len(x) = i - la
EndsWith(text, b, p, q) ==
  \E y \in Seq(Byte) : SubSeq(text, p + 1, Len(text)) = y \o b /\ Len(y) = q - p

\* Up to an offset in m the text is a and something of m.
LEMMA CutMixed ==
  ASSUME NEW text, NEW a, NEW m, NEW b, NEW la, NEW lm, NEW lb,
         MixedAt(text, a, m, b, la, lm, lb), NEW i \in la .. la + lm
  PROVE  BeginsWith(text, a, la, i)
<1>1. la = Len(a)
  BY Zenon DEF MixedAt
<1>2. /\ la \in Nat /\ lm \in Nat /\ lb \in Nat
      /\ Len(text) = la + (lm + lb)
  BY Zenon DEF MixedAt
<1>3. text \in Seq(Byte) /\ a \in Seq(Byte) /\ \A j \in 1 .. la : text[j] = a[j]
  BY Zenon DEF MixedAt
<1> DEFINE s == SubSeq(text, 0 + 1, i)
           x == SubSeq(text, la + 1, i)
           t == a \o x
<1>4. s \in Seq(Byte) /\ Len(s) = i - 0 /\ \A j \in 1 .. i - 0 : s[j] = text[0 + j]
  <2>1. 0 \in 0 .. Len(text) /\ i \in 0 .. Len(text)
    BY <1>2
  <2> QED
    BY <1>3, <2>1, Cut
<1>5. x \in Seq(Byte) /\ Len(x) = i - la /\ \A j \in 1 .. i - la : x[j] = text[la + j]
  <2>1. la \in 0 .. Len(text) /\ i \in la .. Len(text)
    BY <1>2
  <2> QED
    BY <1>3, <2>1, Cut
<1> HIDE DEF s, x
<1>6. /\ t \in Seq(Byte) /\ Len(t) = la + (i - la)
      /\ \A j \in 1 .. la : t[j] = a[j]
      /\ \A j \in 1 .. i - la : t[la + j] = x[j]
  <2>1. TwoParts(t, a, x)
    BY <1>3, <1>5, Zenon DEF TwoParts
  <2>2. TwoPartsAt(t, a, x, Len(a), Len(x))
    BY <2>1, TwoPartsFacts, Zenon
  <2> QED
    BY <1>1, <1>5, <2>2, Zenon DEF TwoPartsAt
<1> HIDE DEF t
<1>7. Len(s) = i /\ Len(t) = i
  BY <1>2, <1>4, <1>6
<1>8. \A j \in 1 .. i : s[j] = t[j]
  <2> TAKE j \in 1 .. i
  <2>1. s[j] = text[j]
    BY <1>2, <1>4
  <2>2. CASE j \in 1 .. la
    BY <1>3, <1>6, <2>1, <2>2, Zenon
  <2>3. CASE j - la \in 1 .. i - la /\ la + (j - la) = j
    BY <1>5, <1>6, <2>1, <2>3, Zenon
  <2> QED
    BY <1>2, <2>2, <2>3
<1>9. s = t
  BY <1>4, <1>6, <1>7, <1>8, SeqEqual
<1>10. SubSeq(text, 1, i) = a \o x /\ Len(x) = i - la
  <2>1. 0 + 1 = 1
    OBVIOUS
  <2> QED
    BY <1>1, <1>5, <1>9, <2>1 DEF s, t
<1> QED
  BY <1>5, <1>10, Zenon DEF BeginsWith

\* From an offset in m the text is something of m and b.
LEMMA RestMixed ==
  ASSUME NEW text, NEW a, NEW m, NEW b, NEW la, NEW lm, NEW lb,
         MixedAt(text, a, m, b, la, lm, lb), NEW p \in la .. la + lm
  PROVE  EndsWith(text, b, p, la + lm)
<1>1. lb = Len(b)
  BY Zenon DEF MixedAt
<1>2. PICK n, q : n = Len(text) /\ q = la + lm
  OBVIOUS
<1>3. /\ la \in Nat /\ lm \in Nat /\ lb \in Nat /\ p \in la .. q
      /\ n = la + (lm + lb) /\ q = la + lm
  BY <1>2, Zenon DEF MixedAt
<1>4. /\ text \in Seq(Byte) /\ b \in Seq(Byte)
      /\ \A j \in 1 .. lb : text[la + (lm + j)] = b[j]
  BY Zenon DEF MixedAt
<1> DEFINE s == SubSeq(text, p + 1, n)
           y == SubSeq(text, p + 1, q)
           t == y \o b
<1>5. s \in Seq(Byte) /\ Len(s) = n - p /\ \A j \in 1 .. n - p : s[j] = text[p + j]
  <2>1. p \in 0 .. Len(text) /\ n \in p .. Len(text)
    BY <1>2, <1>3
  <2> QED
    BY <1>4, <2>1, Cut
<1>6. y \in Seq(Byte) /\ Len(y) = q - p /\ \A j \in 1 .. q - p : y[j] = text[p + j]
  <2>1. p \in 0 .. Len(text) /\ q \in p .. Len(text)
    BY <1>2, <1>3
  <2> QED
    BY <1>4, <2>1, Cut
<1> HIDE DEF s, y
<1>7. /\ t \in Seq(Byte) /\ Len(t) = (q - p) + lb
      /\ \A j \in 1 .. q - p : t[j] = y[j]
      /\ \A j \in 1 .. lb : t[(q - p) + j] = b[j]
  <2>1. TwoParts(t, y, b)
    BY <1>4, <1>6, Zenon DEF TwoParts
  <2>2. TwoPartsAt(t, y, b, Len(y), Len(b))
    BY <2>1, TwoPartsFacts, Zenon
  <2> QED
    BY <1>1, <1>6, <2>2, Zenon DEF TwoPartsAt
<1> HIDE DEF t
<1>8. Len(s) = n - p /\ Len(t) = n - p
  BY <1>3, <1>5, <1>7
<1>9. \A j \in 1 .. n - p : s[j] = t[j]
  <2> TAKE j \in 1 .. n - p
  <2>1. s[j] = text[p + j]
    BY <1>5
  <2>2. CASE j \in 1 .. q - p
    BY <1>6, <1>7, <2>1, <2>2, Zenon
  <2>3. CASE ~ (j \in 1 .. q - p)
    <3>1. PICK k : k = j - (q - p)
      OBVIOUS
    <3>2. k \in 1 .. lb /\ (q - p) + k = j /\ la + (lm + k) = p + j
      BY <1>3, <2>3, <3>1
    <3> QED
      BY <1>4, <1>7, <2>1, <3>2, Zenon
  <2> QED
    BY <2>2, <2>3
<1>10. s = t
  BY <1>5, <1>7, <1>8, <1>9, SeqEqual
<1>11. SubSeq(text, p + 1, Len(text)) = y \o b /\ Len(y) = (la + lm) - p
  BY <1>2, <1>6, <1>10 DEF s, t
<1> QED
  BY <1>6, <1>11, Zenon DEF EndsWith

\* Counted up to an offset in m: a, and no more of m than stands there.
Kept(text, a, la, i) ==
  \E x \in Seq(Byte) : UnitsUpTo(text)[i] = a \o x /\ Len(x) <= i - la

\* It is, if it is for every smaller offset,
LEMMA KeptOn ==
  ASSUME NEW text, NEW a, NEW m, NEW b, NEW la, NEW lm, NEW lb,
         MixedAt(text, a, m, b, la, lm, lb), NEW i \in la .. la + lm,
         \A j \in la .. i - 1 : Kept(text, a, la, j)
  PROVE  Kept(text, a, la, i)
<1>1. /\ la \in Nat /\ lm \in Nat /\ lb \in Nat
      /\ Len(text) = la + (lm + lb)
  BY Zenon DEF MixedAt
<1>2. text \in Seq(Byte) /\ a \in Seq(Byte)
  BY Zenon DEF MixedAt
<1>3. i \in Nat /\ i \in 0 .. Len(text)
  BY <1>1
<1>4. UnitsUpTo(text)[i] = UnitsOf(text, i, UnitsUpTo(text))
  BY <1>2, <1>3, UnitsDef
<1>5. CASE Gone(text, i) = {}
  <2>1. PICK x \in Seq(Byte) : SubSeq(text, 1, i) = a \o x /\ Len(x) = i - la
    <3>1. BeginsWith(text, a, la, i)
      BY CutMixed, Zenon
    <3> QED
      BY <3>1, Zenon DEF BeginsWith
  <2>2. UnitsUpTo(text)[i] = a \o x
    BY <1>4, <1>5, <2>1, UnitsOfDef, Zenon
  <2>3. Len(x) <= i - la
    BY <1>1, <1>3, <2>1
  <2> QED
    BY <2>2, <2>3 DEF Kept
<1>6. CASE Gone(text, i) # {}
  <2>1. PICK p : p = Max(Gone(text, i))
    OBVIOUS
  <2>2. p \in 1 .. i /\ Uncounted(text, p)
    BY <1>3, <1>6, <2>1, GoneMax, Zenon
  <2>3. p \in la + 1 .. la + lm
    <3>1. p \in 1 .. Len(text)
      BY <1>1, <1>3, <2>2
    <3> QED
      BY <2>2, <3>1, GoneInside, Zenon
  <2>4. p - 1 \in la .. i - 1
    BY <1>1, <2>2, <2>3
  <2>5. PICK x \in Seq(Byte) : UnitsUpTo(text)[p - 1] = a \o x /\ Len(x) <= p - 1 - la
    BY <2>4 DEF Kept
  <2> DEFINE s == SubSeq(text, p + 1, i)
  <2>6. s \in Seq(Byte) /\ Len(s) = i - p
    <3>1. p \in 0 .. Len(text) /\ i \in p .. Len(text)
      BY <1>1, <1>3, <2>2
    <3> QED
      BY <1>2, <3>1, Cut
  <2>7. UnitsUpTo(text)[i] = (a \o x) \o s
    BY <1>4, <1>6, <2>1, <2>5, UnitsOfDef, Zenon
  <2> HIDE DEF s
  <2>8. (a \o x) \o s = a \o (x \o s)
    <3>1. Joins(Byte, a, x, s)
      BY <1>2, <2>6, Zenon DEF Joins
    <3>2. Associates(a, x, s)
      BY <3>1, JoinAssociates, Zenon
    <3> QED
      BY <3>2, Zenon DEF Associates
  <2>9. PICK y, lx, ls, ly : y = x \o s /\ lx = Len(x) /\ ls = Len(s) /\ ly = Len(y)
    OBVIOUS
  <2>10. y \in Seq(Byte) /\ ly = lx + ls /\ lx \in Nat /\ ls \in Nat
    <3>1. TwoParts(y, x, s)
      BY <2>6, <2>9, Zenon DEF TwoParts
    <3>2. TwoPartsAt(y, x, s, lx, ls)
      BY <2>9, <3>1, TwoPartsFacts, Zenon
    <3> QED
      BY <2>9, <3>2, Zenon DEF TwoPartsAt
  <2>11. ly <= i - la
    <3>1. lx <= p - 1 - la /\ ls = i - p
      BY <2>5, <2>6, <2>9, Zenon
    <3> QED
      BY <1>1, <1>3, <2>2, <2>10, <3>1
  <2>12. UnitsUpTo(text)[i] = a \o y
    BY <2>7, <2>8, <2>9, Zenon
  <2>13. Len(y) <= i - la
    BY <2>9, <2>11, Zenon
  <2> QED
    BY <2>10, <2>12, <2>13, Zenon DEF Kept
<1> QED
  BY <1>5, <1>6

\* so by induction it is for every one.
LEMMA KeptAll ==
  ASSUME NEW text, NEW a, NEW m, NEW b, NEW la, NEW lm, NEW lb,
         MixedAt(text, a, m, b, la, lm, lb)
  PROVE  \A i \in la .. la + lm : Kept(text, a, la, i)
<1> DEFINE Bad == {i \in la .. la + lm : ~ Kept(text, a, la, i)}
<1>1. la \in Nat /\ lm \in Nat
  BY Zenon DEF MixedAt
<1>2. /\ Bad \in SUBSET Nat
      /\ \A i : i \in Bad <=> i \in la .. la + lm /\ ~ Kept(text, a, la, i)
  BY <1>1
<1> HIDE DEF Bad
<1>3. Bad = {}
  <2>1. SUFFICES ASSUME Bad # {} PROVE FALSE
    OBVIOUS
  <2>2. PICK i \in Bad : \A k \in Bad : i <= k
    BY <1>2, <2>1, Least
  <2>3. \A j \in la .. i - 1 : Kept(text, a, la, j)
    <3> TAKE j \in la .. i - 1
    <3>1. j \in la .. la + lm /\ ~ (i <= j)
      BY <1>1, <1>2, <2>2
    <3> QED
      BY <1>2, <2>2, <3>1
  <2> QED
    BY <1>2, <2>2, <2>3, KeptOn, Zenon
<1> QED
  BY <1>2, <1>3

\* What the page counts of a mixed text: all of it, and less of m.
PageCounts(text, a, b, lm) ==
  \E x \in Seq(Byte) : Units(text) = a \o (x \o b) /\ Len(x) <= lm

\* The page counts a and b in full.
LEMMA UnitsMixed ==
  ASSUME NEW text, NEW a, NEW m, NEW b, NEW la, NEW lm, NEW lb,
         MixedAt(text, a, m, b, la, lm, lb), text = a \o (m \o b)
  PROVE  PageCounts(text, a, b, lm)
<1> USE DEF PageCounts
<1> DEFINE n == Len(text)
<1>1. /\ la \in Nat /\ lm \in Nat /\ lb \in Nat
      /\ n = la + (lm + lb)
  BY Zenon DEF MixedAt
<1>2. text \in Seq(Byte) /\ a \in Seq(Byte) /\ m \in Seq(Byte) /\ b \in Seq(Byte) /\ Len(m) = lm
  BY Zenon DEF MixedAt
<1>3. n \in Nat /\ n \in 0 .. Len(text)
  BY <1>1
<1>4. Units(text) = UnitsOf(text, n, UnitsUpTo(text))
  BY <1>2, <1>3, UnitsDef
<1>5. CASE Gone(text, n) = {}
  <2>1. SubSeq(text, 1, n) = text
    BY <1>2
  <2>2. Units(text) = a \o (m \o b)
    BY <1>4, <1>5, <2>1, UnitsOfDef, Zenon
  <2>3. lm <= lm
    BY <1>1
  <2> QED
    BY <1>2, <2>2, <2>3, Zenon
<1>6. CASE Gone(text, n) # {}
  <2>1. PICK p : p = Max(Gone(text, n))
    OBVIOUS
  <2>2. p \in 1 .. n /\ Uncounted(text, p)
    BY <1>3, <1>6, <2>1, GoneMax, Zenon
  <2>3. p \in la + 1 .. la + lm
    BY <2>2, GoneInside, Zenon
  <2>4. p - 1 \in la .. la + lm /\ p \in la .. la + lm
    BY <1>1, <2>3
  <2>5. PICK x \in Seq(Byte) : UnitsUpTo(text)[p - 1] = a \o x /\ Len(x) <= p - 1 - la
    <3>1. Kept(text, a, la, p - 1)
      BY <2>4, KeptAll
    <3> QED
      BY <3>1 DEF Kept
  <2>6. PICK y \in Seq(Byte) : SubSeq(text, p + 1, n) = y \o b /\ Len(y) = (la + lm) - p
    <3>1. EndsWith(text, b, p, la + lm)
      BY <2>4, RestMixed, Zenon
    <3> QED
      BY <3>1, Zenon DEF EndsWith
  <2>7. Units(text) = (a \o x) \o (y \o b)
    BY <1>4, <1>6, <2>1, <2>5, <2>6, UnitsOfDef, Zenon
  <2>8. PICK z, r, lx, ly, lz :
          z = x \o y /\ r = y \o b /\ lx = Len(x) /\ ly = Len(y) /\ lz = Len(z)
    OBVIOUS
  <2>9. z \in Seq(Byte) /\ lz = lx + ly /\ lx \in Nat /\ ly \in Nat
    <3>1. TwoParts(z, x, y)
      BY <2>8, Zenon DEF TwoParts
    <3>2. TwoPartsAt(z, x, y, lx, ly)
      BY <2>8, <3>1, TwoPartsFacts, Zenon
    <3> QED
      BY <2>8, <3>2, Zenon DEF TwoPartsAt
  <2>10. r \in Seq(Byte)
    <3>1. TwoParts(r, y, b)
      BY <1>2, <2>8, Zenon DEF TwoParts
    <3> QED
      BY <3>1, TwoPartsFacts, Zenon DEF TwoPartsAt
  <2>11. (a \o x) \o r = a \o (x \o r)
    <3>1. Joins(Byte, a, x, r)
      BY <1>2, <2>10, Zenon DEF Joins
    <3>2. Associates(a, x, r)
      BY <3>1, JoinAssociates, Zenon
    <3> QED
      BY <3>2, Zenon DEF Associates
  <2>12. x \o r = z \o b
    <3>1. Joins(Byte, x, y, b)
      BY <1>2, Zenon DEF Joins
    <3>2. Associates(x, y, b)
      BY <3>1, JoinAssociates, Zenon
    <3> QED
      BY <2>8, <3>2, Zenon DEF Associates
  <2>13. Units(text) = a \o (z \o b)
    BY <2>7, <2>8, <2>11, <2>12, Zenon
  <2>14. lz <= lm
    <3>1. lx <= p - 1 - la /\ ly = (la + lm) - p
      BY <2>5, <2>6, <2>8, Zenon
    <3> QED
      BY <1>1, <2>3, <2>9, <3>1
  <2>15. Len(z) <= lm
    BY <2>8, <2>14, Zenon
  <2> QED
    BY <2>9, <2>13, <2>15, Zenon
<1> QED
  BY <1>5, <1>6

-----------------------------------------------------------------------------
(* What the page reads of a code.                                          *)

\* Texts of fields in ASCII.
PlainEntry == [tag : 0 .. 99, value : {v \in Seq(Plain) : Len(v) <= 99}]

\* They are in ASCII.
LEMMA PlainText ==
  ASSUME NEW fs \in Seq(PlainEntry)
  PROVE  Text(fs) \in Seq(Plain)
<1> DEFINE ps == [i \in DOMAIN fs |-> TLV(fs[i].tag, fs[i].value)]
           n == Len(fs)
<1>1. n \in Nat /\ DOMAIN fs = 1 .. n /\ \A i \in 1 .. n : fs[i] \in PlainEntry
  OBVIOUS
<1>2. \A f \in PlainEntry : f.tag \in 0 .. 99 /\ f.value \in Seq(Plain) /\ Len(f.value) <= 99
  BY DEF PlainEntry
<1>3. 48 .. 57 \subseteq Plain
  BY DEF Plain
<1>4. \A i \in 1 .. n : TLV(fs[i].tag, fs[i].value) \in Seq(Plain)
  <2> TAKE i \in 1 .. n
  <2>1. fs[i] \in PlainEntry
    BY <1>1
  <2>2. fs[i].tag \in 0 .. 99 /\ fs[i].value \in Seq(Plain) /\ Len(fs[i].value) <= 99
    BY <1>2, <2>1, Zenon
  <2> QED
    <3>1. Writable(Plain, fs[i].tag, fs[i].value)
      BY <1>3, <2>2, Zenon DEF Writable
    <3>2. TLVIs(Plain, fs[i].tag, fs[i].value)
      BY <3>1, TLVWritten, Zenon
    <3> QED
      BY <3>2, Zenon DEF TLVIs
<1>5. ps \in [1 .. n -> Seq(Plain)]
  BY <1>1, <1>4
<1> HIDE DEF n, ps
<1>6. ps \in Seq(Seq(Plain))
  BY <1>1, <1>5, IsASeq, SeqDef
<1> QED
  BY <1>6, FlattenType DEF Text, ps

\* Requests that are in ASCII, but for the memo.
PlainRequest(req) ==
  /\ req.address \in Seq(Plain) /\ req.network \in Seq(Plain) /\ req.currency \in Seq(Plain)

\* Making such a field.
LEMMA PlainMade ==
  ASSUME NEW tag \in 0 .. 99, NEW v \in Seq(Plain), Len(v) <= 99
  PROVE  [tag |-> tag, value |-> v] \in PlainEntry
BY DEF PlainEntry

\* Digits are ASCII,
LEMMA PlainNumeral ==
  ASSUME NEW n \in Nat, NEW w \in 0 .. 6
  PROVE  Numeral(n, w) \in Seq(Plain) /\ Len(Numeral(n, w)) <= 99
<1>1. w \in 0 .. MaxDigits
  BY CodecAssumption
<1>2. Numeral(n, w) \in Seq(48 .. 57) /\ Len(Numeral(n, w)) = w
  BY <1>1, NumeralType
<1>3. 48 .. 57 \subseteq Plain
  BY DEF Plain
<1>4. Numeral(n, w) \in Seq(Plain)
  BY <1>2, <1>3, SeqMonotonic
<1> QED
  BY <1>2, <1>4

\* so is an account,
LEMMA PlainAccount ==
  ASSUME NEW req, Sound(req), PlainRequest(req)
  PROVE  Account(req) \in Seq(Plain) /\ Len(Account(req)) <= 99
<1> DEFINE a == [tag |-> 0, value |-> Fill(111, 14)]
           b == [tag |-> 1, value |-> req.address]
           c == [tag |-> 2, value |-> req.network]
           d == [tag |-> 3, value |-> req.currency]
<1>1. a \in PlainEntry
  <2>1. Fill(111, 14) \in Seq(Plain) /\ Len(Fill(111, 14)) <= 99
    BY DEF Fill, Plain
  <2> HIDE DEF Fill
  <2> QED
    BY <2>1, PlainMade
<1>2. b \in PlainEntry /\ c \in PlainEntry /\ d \in PlainEntry
  <2>1. /\ req.address \in Seq(Plain) /\ req.network \in Seq(Plain) /\ req.currency \in Seq(Plain)
    BY Zenon DEF PlainRequest
  <2>2. Len(req.address) + Len(req.network) + Len(req.currency) <= 69
    BY Zenon DEF Sound, Fits
  <2>3. /\ Len(req.address) \in Nat /\ Len(req.network) \in Nat /\ Len(req.currency) \in Nat
    <3>1. \A v \in Seq(Plain) : Len(v) \in Nat
      BY LenProperties
    <3> QED
      BY <2>1, <3>1, Zenon
  <2>4. Len(req.address) <= 99 /\ Len(req.network) <= 99 /\ Len(req.currency) <= 99
    <3>1. PICK x, y, z : x = Len(req.address) /\ y = Len(req.network) /\ z = Len(req.currency)
      OBVIOUS
    <3>2. x \in Nat /\ y \in Nat /\ z \in Nat /\ x + y + z <= 69
      BY <2>2, <2>3, <3>1, Zenon
    <3>3. x <= 99 /\ y <= 99 /\ z <= 99
      BY <3>2
    <3> QED
      BY <3>1, <3>3, Zenon
  <2> QED
    BY <2>1, <2>4, PlainMade
<1> HIDE DEF a, b, c, d
<1>3. AccountFields(req) = <<a, b, c, d>>
  BY Zenon DEF AccountFields, a, b, c, d
<1>4. AccountFields(req) \in Seq(PlainEntry)
  BY <1>1, <1>2, <1>3
<1>5. Account(req) = Text(AccountFields(req)) /\ Len(Account(req)) <= 99
  BY AccountOf
<1> QED
  BY <1>4, <1>5, PlainText

\* so are the first nine fields.
LEMMA PlainFixed ==
  ASSUME NEW req, Sound(req), PlainRequest(req)
  PROVE  Fixed(req) \in Seq(PlainEntry)
<1> DEFINE a == [tag |-> 0, value |-> Numeral(1, 2)]
           b == [tag |-> 1, value |-> Numeral(12, 2)]
           c == [tag |-> 26, value |-> Account(req)]
           d == [tag |-> 52, value |-> Numeral(0, 4)]
           e == [tag |-> 53, value |-> Numeral(840, 3)]
           f == [tag |-> 54, value |-> Show(req.amount)]
           g == [tag |-> 58, value |-> Fill(85, 2)]
           h == [tag |-> 59, value |-> Fill(67, 11)]
           i == [tag |-> 60, value |-> Fill(78, 8)]
<1>1. a \in PlainEntry /\ b \in PlainEntry /\ d \in PlainEntry /\ e \in PlainEntry
  <2> HIDE DEF Numeral
  <2>1. Numeral(1, 2) \in Seq(Plain) /\ Len(Numeral(1, 2)) <= 99
    BY PlainNumeral
  <2>2. Numeral(12, 2) \in Seq(Plain) /\ Len(Numeral(12, 2)) <= 99
    BY PlainNumeral
  <2>3. Numeral(0, 4) \in Seq(Plain) /\ Len(Numeral(0, 4)) <= 99
    BY PlainNumeral
  <2>4. Numeral(840, 3) \in Seq(Plain) /\ Len(Numeral(840, 3)) <= 99
    BY PlainNumeral
  <2> QED
    BY <2>1, <2>2, <2>3, <2>4, PlainMade
<1>2. g \in PlainEntry /\ h \in PlainEntry /\ i \in PlainEntry
  <2>1. /\ Fill(85, 2) \in Seq(Plain) /\ Len(Fill(85, 2)) <= 99
        /\ Fill(67, 11) \in Seq(Plain) /\ Len(Fill(67, 11)) <= 99
        /\ Fill(78, 8) \in Seq(Plain) /\ Len(Fill(78, 8)) <= 99
    BY DEF Fill, Plain
  <2> HIDE DEF Fill
  <2> QED
    BY <2>1, PlainMade
<1>3. c \in PlainEntry
  BY PlainAccount, PlainMade
<1>4. f \in PlainEntry
  <2>1. req \in RequestType /\ req.amount.n > 0 /\ Len(Show(req.amount)) <= 99
    BY Zenon DEF Sound, Fits
  <2>2. req.amount \in Amounts
    BY <2>1 DEF RequestType
  <2>3. Show(req.amount) \in Seq(46 .. 57)
    BY <2>1, <2>2, ShowText
  <2>4. 46 .. 57 \subseteq Plain
    BY DEF Plain
  <2>5. Show(req.amount) \in Seq(Plain)
    BY <2>3, <2>4, SeqMonotonic
  <2> QED
    BY <2>1, <2>5, PlainMade
<1>5. Fixed(req) = <<a, b, c, d, e, f, g, h, i>>
  BY Zenon DEF Fixed
<1> HIDE DEF a, b, c, d, e, f, g, h, i
<1> QED
  BY <1>1, <1>2, <1>3, <1>4, <1>5

\* Fields that are neither the account nor the amount.
Foreign(tag) == tag # Numeral(26, 2) /\ tag # Numeral(54, 2)

\* Neither "2" nor "5".
OtherFirst(text, i) == text[i + 1] # 50 /\ text[i + 1] # 53

\* A tag that begins with another digit than theirs is foreign.
LEMMA ForeignTag ==
  ASSUME NEW text \in Seq(Byte), NEW i \in Nat, i + 4 <= Len(text), OtherFirst(text, i)
  PROVE  Foreign(SubSeq(text, i + 1, i + 2)) /\ SubSeq(text, i + 1, i + 2) \in Seq(Byte)
<1> DEFINE s == SubSeq(text, i + 1, i + 2)
<1>1. s \in Seq(Byte) /\ s[1] = text[i + 1]
  <2>1. i \in 0 .. Len(text) /\ i + 2 \in i .. Len(text) /\ 1 \in 1 .. (i + 2) - i
    OBVIOUS
  <2>2. /\ SubSeq(text, i + 1, i + 2) \in Seq(Byte)
        /\ \A j \in 1 .. (i + 2) - i : SubSeq(text, i + 1, i + 2)[j] = text[i + j]
    BY <2>1, Cut
  <2> QED
    BY <2>1, <2>2
<1> HIDE DEF s
<1>2. Numeral(26, 2)[1] = 50 /\ Numeral(54, 2)[1] = 53
  <2>1. 2 \in 0 .. MaxDigits /\ 26 \in Nat /\ 54 \in Nat /\ 1 \in 1 .. 2
    BY TwoFits
  <2>2. /\ Numeral(26, 2)[1] = 48 + ((26 \div Tens[2 - 1]) % 10)
        /\ Numeral(54, 2)[1] = 48 + ((54 \div Tens[2 - 1]) % 10)
    BY <2>1, NumeralType
  <2>3. Tens[2 - 1] = 10
    BY TensFacts
  <2> QED
    BY <2>2, <2>3
<1>3. s # Numeral(26, 2) /\ s # Numeral(54, 2)
  <2>1. s[1] # 50 /\ s[1] # 53
    BY <1>1, Zenon DEF OtherFirst
  <2> HIDE DEF Numeral
  <2> QED
    BY <1>2, <2>1, Zenon
<1> QED
  BY <1>1, <1>3, Zenon DEF Foreign, s

\* From an offset on only foreign fields are read, the one that is guessed included.
Harmless(text, r) ==
  /\ r \in Result
  /\ \A j \in 1 .. Len(r.fields) : Foreign(r.fields[j].tag)
  /\ r.end = "no number" =>
       /\ r.at \in Nat /\ r.at + 4 <= Len(text)
       /\ SubSeq(text, r.at + 1, r.at + 2) \in Seq(Byte) /\ Foreign(SubSeq(text, r.at + 1, r.at + 2))

\* That is so at the end,
LEMMA HarmlessEnd ==
  ASSUME NEW text \in Seq(Byte), NEW i \in 0 .. Len(text), i + 4 > Len(text)
  PROVE  Harmless(text, Scan(text)[i])
<1>1. Scan(text)[i] = [fields |-> <<>>, end |-> "done", at |-> i]
  <2>1. Scan(text)[i] = ScanFrom(text, i, Scan(text))
    BY ScanDef
  <2> QED
    BY <2>1, Zenon DEF ScanFrom
<1>2. Scan(text)[i] \in Result
  BY ScanType
<1>3. Len(<<>>) = 0 /\ "done" # "no number" /\ 1 .. 0 = {}
  OBVIOUS
<1>4. Scan(text)[i].fields = <<>> /\ Scan(text)[i].end = "done"
  BY <1>1
<1>5. \A j \in 1 .. Len(Scan(text)[i].fields) : FALSE
  BY <1>3, <1>4
<1> QED
  BY <1>2, <1>3, <1>4, <1>5, Zenon DEF Harmless

\* and before a field that is foreign, if it is so behind it.
LEMMA HarmlessOn ==
  ASSUME NEW text \in Seq(Byte), NEW i \in Nat, i + 4 <= Len(text), OtherFirst(text, i),
         \A next \in (i + 4) .. Len(text) :
           next = i + 4 + NumberAt(text, i + 3) => Harmless(text, Scan(text)[next])
  PROVE  Harmless(text, Scan(text)[i])
<1> DEFINE length == NumberAt(text, i + 3)
           next == i + 4 + length
           tag == SubSeq(text, i + 1, i + 2)
           r == Scan(text)[i]
<1>1. r = ScanFrom(text, i, Scan(text)) /\ r \in Result
  <2>1. i \in 0 .. Len(text)
    OBVIOUS
  <2> QED
    BY <2>1, ScanDef, ScanType
<1>2. Foreign(tag) /\ tag \in Seq(Byte)
  BY ForeignTag
<1>3. ~ (i + 4 > Len(text))
  OBVIOUS
<1>4. CASE length = NoNumber
  <2>1. r = [fields |-> <<>>, end |-> "no number", at |-> i]
    BY <1>1, <1>3, <1>4, Zenon DEF ScanFrom
  <2> HIDE DEF r
  <2>2. r.fields = <<>> /\ r.at = i
    BY <2>1
  <2>3. \A j \in 1 .. Len(r.fields) : FALSE
    <3>1. r.fields = <<>>
      BY <2>2
    <3>2. \A j \in 1 .. Len(<<>>) : FALSE
      OBVIOUS
    <3> QED
      BY <3>1, <3>2, Zenon
  <2> QED
    BY <1>1, <1>2, <2>2, <2>3, Zenon DEF Harmless, r
<1>5. CASE length # NoNumber /\ next > Len(text)
  <2>1. r = [fields |-> <<>>, end |-> "truncated", at |-> i]
    BY <1>1, <1>3, <1>5, Zenon DEF ScanFrom
  <2> HIDE DEF r
  <2>2. r.fields = <<>> /\ r.end # "no number"
    BY <2>1
  <2>3. \A j \in 1 .. Len(r.fields) : FALSE
    <3>1. r.fields = <<>>
      BY <2>2
    <3>2. \A j \in 1 .. Len(<<>>) : FALSE
      OBVIOUS
    <3> QED
      BY <3>1, <3>2, Zenon
  <2> QED
    BY <1>1, <2>2, <2>3, Zenon DEF Harmless, r
<1>6. CASE length # NoNumber /\ ~ (next > Len(text))
  <2> DEFINE field == [tag |-> tag, value |-> SubSeq(text, i + 5, next)]
             q == Scan(text)[next]
  <2>1. r = [q EXCEPT !.fields = <<field>> \o @]
    BY <1>1, <1>3, <1>6, Zenon DEF ScanFrom
  <2>2. length \in Nat
    <3>1. i + 3 \in 1 .. Len(text) - 1
      OBVIOUS
    <3>2. length \in 0 .. 99 \cup {NoNumber}
      BY <3>1, NumberType
    <3>3. length # NoNumber
      BY <1>6
    <3> HIDE DEF length
    <3> QED
      BY <3>2, <3>3
  <2>3. next \in (i + 4) .. Len(text)
    BY <1>6, <2>2
  <2>4. Harmless(text, q)
    BY <2>3, Zenon
  <2>5. q \in Result /\ q.fields \in Seq(Field)
    <3>1. q \in Result
      BY <2>4, Zenon DEF Harmless
    <3> QED
      BY <3>1, ResultFields
  <2>6. field \in Field /\ field.tag = tag
    <3>1. SubSeq(text, i + 5, next) \in Seq(Byte)
      <4>1. (i + 4) + 1 = i + 5 /\ i + 4 \in 0 .. Len(text)
        OBVIOUS
      <4>2. SubSeq(text, (i + 4) + 1, next) \in Seq(Byte)
        BY <2>3, <4>1, Cut
      <4> QED
        BY <4>1, <4>2
    <3> HIDE DEF tag, next
    <3> QED
      BY <1>2, <3>1 DEF Field
  <2> HIDE DEF field, q, r, tag, next, length
  <2>7. r.fields = <<field>> \o q.fields /\ r.end = q.end /\ r.at = q.at
    BY <2>1, <2>5 DEF Result
  <2>8. \A j \in 1 .. Len(r.fields) : Foreign(r.fields[j].tag)
    <3>1. \A j \in 1 .. Len(q.fields) : Foreign(q.fields[j].tag)
      BY <2>4, Zenon DEF Harmless
    <3>2. PICK qs : qs = q.fields
      OBVIOUS
    <3>3. PICK rs : rs = <<field>> \o qs
      OBVIOUS
    <3>4. qs \in Seq(Field)
      BY <2>5, <3>2
    <3>5. \A j \in 1 .. Len(rs) :
            \/ j = 1 /\ rs[j] = field
            \/ j - 1 \in 1 .. Len(qs) /\ rs[j] = qs[j - 1]
      <4>1. PICK f : f = <<field>>
        OBVIOUS
      <4>2. f \in Seq(Field) /\ Len(f) = 1 /\ f[1] = field
        BY <2>6, <4>1
      <4>3. /\ rs \in Seq(Field) /\ Len(rs) = 1 + Len(qs) /\ Len(qs) \in Nat
            /\ rs[1] = field /\ \A j \in 1 .. Len(qs) : rs[1 + j] = qs[j]
        <5>1. /\ rs \in Seq(Field) /\ Len(rs) = Len(f) + Len(qs)
              /\ Len(f) \in Nat /\ Len(qs) \in Nat
              /\ \A j \in 1 .. Len(f) : rs[j] = f[j]
              /\ \A j \in 1 .. Len(qs) : rs[Len(f) + j] = qs[j]
          BY <3>3, <3>4, <4>1, <4>2, Joined
        <5> QED
          BY <4>2, <5>1
      <4> QED
        BY <4>3
    <3>6. \A j \in 1 .. Len(rs) : Foreign(rs[j].tag)
      BY <1>2, <2>6, <3>1, <3>2, <3>5, Zenon
    <3> QED
      BY <2>7, <3>2, <3>3, <3>6, Zenon
  <2> QED
    BY <1>1, <2>4, <2>7, <2>8, Zenon DEF Harmless, r, q
<1> QED
  BY <1>4, <1>5, <1>6, Zenon

\* The page reads these fields first, and then foreign ones.
Guesses(text, front, more) ==
  /\ FieldsGuessed(text) = front \o more /\ front \in Seq(Field) /\ more \in Seq(Field)
  /\ \A j \in 1 .. Len(more) : Foreign(more[j].tag)

\* It does if what follows is harmless.
LEMMA GuessedFrom ==
  ASSUME NEW text, NEW k, NEW front,
         Leads(text, k, front), Harmless(text, Scan(text)[k])
  PROVE  \E more : Guesses(text, front, more)
<1> DEFINE r == Scan(text)[k]
           tag == SubSeq(text, r.at + 1, r.at + 2)
           guess == [tag |-> tag, value |-> SubSeq(text, 1, r.at + 4)]
           fs == r.fields
<1>1. /\ text \in Seq(Byte) /\ front \in Seq(Field)
      /\ Fields(text).fields = front \o fs /\ Fields(text).end = r.end /\ Fields(text).at = r.at
  BY Zenon DEF Leads, Fields
<1>2. r \in Result /\ \A j \in 1 .. Len(fs) : Foreign(fs[j].tag)
  BY Zenon DEF Harmless
<1>3. fs \in Seq(Field) /\ r.at \in Nat
  BY <1>2, ResultFields
<1>4. CASE r.end = "no number"
  <2>1. tag \in Seq(Byte) /\ Foreign(tag)
    BY <1>4, Zenon DEF Harmless
  <2>2. guess \in Field /\ guess.tag = tag
    <3>1. SubSeq(text, 1, r.at + 4) \in Seq(Byte)
      <4>1. r.at + 4 <= Len(text) /\ r.at \in Nat
        BY <1>4, Zenon DEF Harmless
      <4> HIDE DEF r
      <4>2. 0 \in 0 .. Len(text) /\ r.at + 4 \in 0 .. Len(text) /\ 0 + 1 = 1
        BY <1>1, <4>1
      <4>3. SubSeq(text, 0 + 1, r.at + 4) \in Seq(Byte)
        BY <1>1, <4>2, Cut
      <4> QED
        BY <4>2, <4>3
    <3> HIDE DEF tag, r
    <3> QED
      BY <2>1, <3>1 DEF Field
  <2>3. FieldsGuessed(text) = Append(front \o fs, guess)
    BY <1>1, <1>4, Zenon DEF FieldsGuessed, WithGuess
  <2> HIDE DEF guess, fs, r, tag
  <2>4. PICK more : more = Append(fs, guess)
    OBVIOUS
  <2>5. more \in Seq(Field) /\ FieldsGuessed(text) = front \o more
    <3>1. more = fs \o <<guess>> /\ more \in Seq(Field) /\ <<guess>> \in Seq(Field)
      BY <1>3, <2>2, <2>4, AppendIsConcat
    <3>2. front \in Seq(Field)
      BY <1>1
    <3>3. front \o fs \in Seq(Field)
      BY <1>3, <3>2, ConcatProperties
    <3>4. Append(front \o fs, guess) = (front \o fs) \o <<guess>>
      BY <2>2, <3>3, AppendIsConcat
    <3>5. (front \o fs) \o <<guess>> = front \o (fs \o <<guess>>)
      BY <1>3, <3>1, <3>2, ConcatAssociative
    <3> QED
      BY <2>3, <3>1, <3>4, <3>5
  <2>6. \A j \in 1 .. Len(more) : (j \in 1 .. Len(fs) /\ more[j] = fs[j]) \/ more[j] = guess
    BY <1>3, <2>2, <2>4
  <2>7. \A j \in 1 .. Len(more) : Foreign(more[j].tag)
    BY <1>2, <2>1, <2>2, <2>6, Zenon
  <2> QED
    BY <1>1, <2>5, <2>7, Zenon DEF Guesses
<1>5. CASE r.end # "no number"
  <2>1. FieldsGuessed(text) = front \o fs
    BY <1>1, <1>5, Zenon DEF FieldsGuessed, WithGuess
  <2> QED
    BY <1>1, <1>2, <1>3, <2>1, Zenon DEF Guesses
<1> QED
  BY <1>4, <1>5

\* What the page finds where the template of the memo begins, if the text is
\* d units shorter there than it was written.
Left(u, k, l, lx) ==
  /\ u \in Seq(Byte) /\ k \in Nat /\ l \in Nat /\ lx \in Nat
  /\ l <= 95 /\ lx <= l /\ l # lx + 4
  /\ Len(u) = k + 16 + lx
  /\ u[k + 1] = 54 /\ NumberAt(u, k + 3) = 4 + l
  /\ u[k + 8 + lx + 1] = 54 /\ u[k + 8 + lx + 2] = 51
  /\ u[k + 8 + lx + 3] = 48 /\ u[k + 8 + lx + 4] = 52

\* All of it is harmless: the first digit of the tag there is "6", or one of "63" and "04",
\* the tag and the length of the checksum, and one field later there is no other.
LEMMA LeftHarmless ==
  ASSUME NEW u, NEW k, NEW l, NEW lx, Left(u, k, l, lx)
  PROVE  Harmless(u, Scan(u)[k])
<1>1. /\ u \in Seq(Byte) /\ k \in Nat /\ l \in Nat /\ lx \in Nat
      /\ l <= 95 /\ lx <= l /\ l # lx + 4
  BY Zenon DEF Left
<1>2. PICK n : n = Len(u)
  OBVIOUS
<1>3. n = k + 16 + lx /\ n \in Nat
  BY <1>1, <1>2 DEF Left
<1>4. /\ u[k + 1] = 54 /\ NumberAt(u, k + 3) = 4 + l
      /\ u[k + 8 + lx + 1] = 54 /\ u[k + 8 + lx + 2] = 51
      /\ u[k + 8 + lx + 3] = 48 /\ u[k + 8 + lx + 4] = 52
  BY Zenon DEF Left
<1>5. \A i \in 0 .. n : i + 4 > n => Harmless(u, Scan(u)[i])
  BY <1>1, <1>2, HarmlessEnd
<1> DEFINE i == k + (8 + l)
<1>6. i \in Nat
  BY <1>1
<1>7. ASSUME i <= n PROVE Harmless(u, Scan(u)[i])
  <2>1. CASE i + 4 > n
    <3>1. i \in 0 .. n
      BY <1>3, <1>6, <1>7
    <3> QED
      BY <1>5, <2>1, <3>1
  <2>2. CASE i + 4 <= n
    <3>1. l \in {lx, lx + 1, lx + 2, lx + 3}
      BY <1>1, <1>3, <2>2
    <3>2. OtherFirst(u, i)
      <4>1. /\ l = lx => i + 1 = k + 8 + lx + 1
            /\ l = lx + 1 => i + 1 = k + 8 + lx + 2
            /\ l = lx + 2 => i + 1 = k + 8 + lx + 3
            /\ l = lx + 3 => i + 1 = k + 8 + lx + 4
        BY <1>1
      <4>2. PICK c : c = u[i + 1]
        OBVIOUS
      <4> HIDE DEF i
      <4>3. c \in {54, 51, 48, 52}
        BY <1>4, <3>1, <4>1, <4>2
      <4>4. c # 50 /\ c # 53
        BY <4>3
      <4> QED
        BY <4>2, <4>4, Zenon DEF OtherFirst
    <3>3. l = lx => NumberAt(u, i + 3) = 4
      <4> HAVE l = lx
      <4>1. i + 3 = k + 8 + lx + 3 /\ (i + 3) + 1 = k + 8 + lx + 4
        BY <1>1
      <4>2. u[i + 3] = 48 /\ u[(i + 3) + 1] = 52
        BY <1>4, <4>1
      <4> HIDE DEF i
      <4>3. PICK j, a, b : j = i + 3 /\ a = u[j] /\ b = u[j + 1]
        OBVIOUS
      <4>4. a = 48 /\ b = 52
        BY <4>2, <4>3
      <4>5. NumberAt(u, j) = IF ~ (a \in 48 .. 57) THEN -1
                             ELSE IF b \in 48 .. 57 THEN 10 * (a - 48) + b - 48 ELSE a - 48
        BY <4>3, Zenon DEF NumberAt, IsDigit, NoNumber
      <4>6. NumberAt(u, j) = 4
        BY <4>4, <4>5
      <4> QED
        BY <4>3, <4>6
    <3>4. ASSUME NEW next \in (i + 4) .. Len(u), next = i + 4 + NumberAt(u, i + 3)
          PROVE  Harmless(u, Scan(u)[next])
      <4>1. next \in 0 .. n /\ next + 4 > n
        <5>1. l = lx => next = i + 8
          BY <1>6, <3>3, <3>4
        <5>2. next \in Nat /\ next >= i + 4 /\ next <= n
          BY <1>2, <1>6
        <5> QED
          BY <1>1, <1>3, <3>1, <5>1, <5>2
      <4> QED
        BY <1>5, <4>1
    <3>5. i + 4 <= Len(u)
      BY <1>2, <2>2
    <3> HIDE DEF i
    <3> QED
      BY <1>1, <1>6, <3>2, <3>4, <3>5, HarmlessOn
  <2> QED
    BY <1>3, <1>6, <2>1, <2>2
<1>8. OtherFirst(u, k)
  BY <1>4 DEF OtherFirst
<1>9. ASSUME NEW next \in (k + 4) .. Len(u), next = k + 4 + NumberAt(u, k + 3)
      PROVE  Harmless(u, Scan(u)[next])
  <2>1. next = i /\ i <= n
    <3>1. next = k + 4 + (4 + l)
      BY <1>4, <1>9
    <3> QED
      BY <1>1, <1>2, <1>3, <3>1
  <2> QED
    BY <1>7, <2>1
<1>10. k + 4 <= Len(u)
  BY <1>1, <1>2, <1>3
<1> QED
  BY <1>1, <1>8, <1>9, <1>10, HarmlessOn

\* A template before the value in it: tag and length, twice.
Header(h, l) ==
  /\ h \in Seq(Plain) /\ Len(h) = 8
  /\ h[1] = 54 /\ h[3] = Numeral(4 + l, 2)[1] /\ h[4] = Numeral(4 + l, 2)[2]

\* Four digits of two times two.
TwoPlain(t, a, b) ==
  a \in Seq(Plain) /\ b \in Seq(Plain) /\ Len(a) = 2 /\ Len(b) = 2 /\ t = a \o b
TwoPlainAt(t, a, b) ==
  t \in Seq(Plain) /\ Len(t) = 4 /\ t[1] = a[1] /\ t[3] = b[1] /\ t[4] = b[2]

\* They are there.
LEMMA TwoPlainFacts ==
  ASSUME NEW t, NEW a, NEW b, TwoPlain(t, a, b)
  PROVE  TwoPlainAt(t, a, b)
<1>1. a \in Seq(Plain) /\ b \in Seq(Plain) /\ Len(a) = 2 /\ Len(b) = 2 /\ t = a \o b
  BY DEF TwoPlain
<1>2. /\ t \in Seq(Plain) /\ Len(t) = Len(a) + Len(b)
      /\ \A j \in 1 .. Len(a) : t[j] = a[j]
      /\ \A j \in 1 .. Len(b) : t[Len(a) + j] = b[j]
  <2>1. a \in Seq(Plain) /\ b \in Seq(Plain)
    BY <1>1
  <2>2. t = a \o b
    BY <1>1
  <2> QED
    BY <2>1, <2>2, Joined
<1>3. 1 \in 1 .. 2 /\ 2 \in 1 .. 2 /\ 2 + 1 = 3 /\ 2 + 2 = 4
  OBVIOUS
<1> QED
  BY <1>1, <1>2, <1>3 DEF TwoPlainAt

\* The memo's template begins with such a header, and then comes the memo.
Headed(m, l) == \E h : Header(h, l) /\ TLV(62, TLV(5, m)) = h \o m

\* The memo's template begins like that.
LEMMA MemoHeader ==
  ASSUME NEW m \in Seq(Byte), NEW l \in 0 .. 95, l = Len(m)
  PROVE  Headed(m, l)
<1> DEFINE p == Numeral(62, 2)
           q == Numeral(4 + l, 2)
           r == Numeral(5, 2)
           s == Numeral(l, 2)
<1>1. /\ p \in Seq(Plain) /\ q \in Seq(Plain) /\ r \in Seq(Plain) /\ s \in Seq(Plain)
      /\ Len(p) = 2 /\ Len(q) = 2 /\ Len(r) = 2 /\ Len(s) = 2
  <2>1. \A n \in Nat : Numeral(n, 2) \in Seq(Plain) /\ Len(Numeral(n, 2)) = 2
    <3> TAKE n \in Nat
    <3>1. Numeral(n, 2) \in Seq(48 .. 57) /\ Len(Numeral(n, 2)) = 2
      BY TwoFits, NumeralType
    <3>2. 48 .. 57 \subseteq Plain
      BY DEF Plain
    <3>3. Numeral(n, 2) \in Seq(Plain)
      BY <3>1, <3>2, SeqMonotonic
    <3> QED
      BY <3>1, <3>3
  <2>2. 62 \in Nat /\ 4 + l \in Nat /\ 5 \in Nat /\ l \in Nat
    OBVIOUS
  <2> QED
    BY <2>1, <2>2, Zenon
<1>2. p[1] = 54
  <2>1. 62 \in Nat /\ 1 \in 1 .. 2
    OBVIOUS
  <2>2. p[1] = 48 + ((62 \div Tens[2 - 1]) % 10)
    BY <2>1, TwoFits, NumeralType
  <2>3. Tens[2 - 1] = 10
    BY TensFacts
  <2> QED
    BY <2>2, <2>3
<1> DEFINE v == TLV(5, m)
<1>3. v \in Seq(Byte) /\ Len(v) = 4 + l
  <2>1. PICK w, n : w = m /\ n = l
    OBVIOUS
  <2>2. w \in Seq(Byte) /\ Len(w) <= 99 /\ Len(w) = n
    <3>1. n \in 0 .. 95 /\ Len(w) = n /\ w \in Seq(Byte)
      BY <2>1, Zenon
    <3> QED
      BY <3>1
  <2> DEFINE f == [tag |-> 5, value |-> w]
  <2>3. f \in Entry
    <3>1. 5 \in 0 .. 99
      OBVIOUS
    <3> QED
      BY <2>2, <3>1, EntryMade, Zenon
  <2>4. f.tag = 5 /\ f.value = w
    OBVIOUS
  <2> HIDE DEF f
  <2>5. TLV(f.tag, f.value) \in Seq(Byte) /\ Len(TLV(f.tag, f.value)) = 4 + Len(f.value)
    BY <2>3, EntryTLV, Zenon
  <2> QED
    BY <2>1, <2>2, <2>4, <2>5, Zenon
<1>4. v = (r \o s) \o m /\ TLV(62, v) = (p \o q) \o v
  <2>1. l \in 0 .. 99 /\ 4 + l \in 0 .. 99
    <3>1. \A n \in 0 .. 95 : n \in 0 .. 99 /\ 4 + n \in 0 .. 99
      OBVIOUS
    <3> QED
      BY <3>1, Zenon
  <2>2. LengthOf(l) = s /\ LengthOf(4 + l) = q
    BY <2>1, TwoDigits
  <2>3. TLV(5, m) = (r \o LengthOf(Len(m))) \o m /\ TLV(62, v) = (p \o LengthOf(Len(v))) \o v
    BY Zenon DEF TLV
  <2> HIDE DEF p, q, r, s
  <2> QED
    BY <1>3, <2>2, <2>3, Zenon
<1> HIDE DEF p, r, s, v
<1>5. q[1] = Numeral(4 + l, 2)[1] /\ q[2] = Numeral(4 + l, 2)[2]
  OBVIOUS
<1> HIDE DEF q
<1>6. PICK x, y, h : x = p \o q /\ y = r \o s /\ h = x \o y
  OBVIOUS
<1>7. /\ x \in Seq(Plain) /\ Len(x) = 4 /\ x[1] = p[1] /\ x[3] = q[1] /\ x[4] = q[2]
  <2>1. TwoPlain(x, p, q)
    BY <1>1, <1>6, Zenon DEF TwoPlain
  <2> QED
    BY <2>1, TwoPlainFacts, Zenon DEF TwoPlainAt
<1>11. y \in Seq(Plain) /\ Len(y) = 4
  <2>1. TwoPlain(y, r, s)
    BY <1>1, <1>6, Zenon DEF TwoPlain
  <2> QED
    BY <2>1, TwoPlainFacts, Zenon DEF TwoPlainAt
<1>8. h \in Seq(Plain) /\ Len(h) = 8 /\ h[1] = x[1] /\ h[3] = x[3] /\ h[4] = x[4]
  <2>1. /\ h \in Seq(Plain) /\ Len(h) = Len(x) + Len(y)
        /\ \A j \in 1 .. Len(x) : h[j] = x[j]
    <3>1. x \in Seq(Plain) /\ y \in Seq(Plain)
      BY <1>7, <1>11
    <3> QED
      BY <1>6, <3>1, Joined
  <2>2. 1 \in 1 .. 4 /\ 3 \in 1 .. 4 /\ 4 \in 1 .. 4
    OBVIOUS
  <2> QED
    BY <1>7, <1>11, <2>1, <2>2
<1>9. Header(h, l)
  BY <1>2, <1>5, <1>7, <1>8, Zenon DEF Header
<1>10. TLV(62, v) = h \o m
  <2>1. x \in Seq(Byte) /\ y \in Seq(Byte)
    BY <1>7, <1>11, PlainBytes
  <2>2. (x \o y) \o m = x \o (y \o m)
    <3>1. Joins(Byte, x, y, m)
      BY <2>1, Zenon DEF Joins
    <3>2. Associates(x, y, m)
      BY <3>1, JoinAssociates, Zenon
    <3> QED
      BY <3>2, Zenon DEF Associates
  <2> QED
    BY <1>4, <1>6, <2>2, Zenon
<1> QED
  BY <1>9, <1>10, Zenon DEF Headed, v

\* The last field, whose value is the checksum.
Trailer(b) ==
  /\ b = TLV(63, CrcText) /\ b \in Seq(Plain) /\ Len(b) = 8
  /\ b[1] = 54 /\ b[2] = 51 /\ b[3] = 48 /\ b[4] = 52

\* The checksum's field is that.
LEMMA CrcTrailer == Trailer(TLV(63, CrcText))
<1> DEFINE b == TLV(63, CrcText)
<1>1. /\ b \in Seq(Plain) /\ Len(b) = 4 + Len(CrcText)
      /\ \A j \in 1 .. 2 : b[j] = Numeral(63, 2)[j]
      /\ \A j \in 1 .. 2 : b[2 + j] = Numeral(Len(CrcText), 2)[j]
  <2>1. CrcText \in Seq(48 .. 57 \cup 65 .. 70) /\ Len(CrcText) = 4
    BY CrcOf
  <2>2. 48 .. 57 \cup 65 .. 70 \subseteq Plain /\ 48 .. 57 \subseteq Plain
    BY DEF Plain
  <2>3. CrcText \in Seq(Plain)
    BY <2>1, <2>2, SeqMonotonic
  <2>4. 63 \in 0 .. 99 /\ Len(CrcText) <= 99
    BY <2>1
  <2> QED
    <3>1. Writable(Plain, 63, CrcText)
      BY <2>2, <2>3, <2>4, Zenon DEF Writable
    <3>2. TLVIs(Plain, 63, CrcText)
      BY <3>1, TLVWritten, Zenon
    <3> QED
      BY <3>2, Zenon DEF TLVIs
<1>2. Len(CrcText) = 4
  BY CrcOf
<1> HIDE DEF b
<1>3. /\ Numeral(63, 2)[1] = 48 + ((63 \div Tens[2 - 1]) % 10)
      /\ Numeral(63, 2)[2] = 48 + ((63 \div Tens[2 - 2]) % 10)
      /\ Numeral(4, 2)[1] = 48 + ((4 \div Tens[2 - 1]) % 10)
      /\ Numeral(4, 2)[2] = 48 + ((4 \div Tens[2 - 2]) % 10)
  <2>1. 63 \in Nat /\ 4 \in Nat /\ 1 \in 1 .. 2 /\ 2 \in 1 .. 2
    OBVIOUS
  <2> QED
    BY <2>1, TwoFits, NumeralType
<1>4. Tens[2 - 1] = 10 /\ Tens[2 - 2] = 1
  BY TensFacts
<1>5. /\ Numeral(63, 2)[1] = 54 /\ Numeral(63, 2)[2] = 51
      /\ Numeral(4, 2)[1] = 48 /\ Numeral(4, 2)[2] = 52
  BY <1>3, <1>4
<1>6. b[1] = 54 /\ b[2] = 51 /\ b[2 + 1] = 48 /\ b[2 + 2] = 52
  <2>1. 1 \in 1 .. 2 /\ 2 \in 1 .. 2
    OBVIOUS
  <2> HIDE DEF Numeral
  <2>2. \A j \in 1 .. 2 : b[2 + j] = Numeral(4, 2)[j]
    BY <1>1, <1>2
  <2> QED
    BY <1>1, <1>5, <2>1, <2>2, ZenonT(60)
<1>7. 2 + 1 = 3 /\ 2 + 2 = 4 /\ 4 + 4 = 8
  OBVIOUS
<1> QED
  BY <1>1, <1>2, <1>6, <1>7, Zenon DEF Trailer, b

\* The text of a code with a memo, as it was written.
CodeAt(req, text, front, h, m, b, l) ==
  /\ text = Body(req) \o CrcText /\ front = Text(Fixed(req)) /\ m = req.memo /\ l = Len(m)
  /\ Header(h, l) /\ Trailer(b) /\ front \in Seq(Plain) /\ m \in Seq(Byte) /\ l \in 0 .. 95
  /\ text = front \o (h \o (m \o b))

\* The memo is not longer than its length field can say.
LEMMA MemoLength ==
  ASSUME NEW n \in Nat, n <= 95
  PROVE  n \in 0 .. 95
OBVIOUS

\* A code with a memo has such a text.
LEMMA CodeText ==
  ASSUME NEW req, Sound(req), PlainRequest(req), req.memo # <<>>
  PROVE  \E text, front, h, m, b, l : CodeAt(req, text, front, h, m, b, l)
<1> DEFINE fs == Fixed(req)
           e == MemoEntry(req)
<1>1. /\ Memo(req) = <<e>> /\ e \in Entry /\ e.tag = 62
      /\ Text(Always(5, req.memo)) = TLV(5, req.memo)
      /\ Len(req.memo) <= 95 /\ req.memo \in Seq(Byte)
  BY MemoOf
<1>2. e.value = TLV(5, req.memo)
  <2>1. e.value = Text(Always(5, req.memo))
    BY DEF MemoEntry
  <2> QED
    BY <1>1, <2>1, Zenon
<1>3. fs \in Seq(Entry) /\ CrcEntry \in Entry /\ CrcEntry.tag = 63 /\ CrcEntry.value = CrcText
  <2>1. fs \in Seq(Entry)
    BY FixedFacts DEF OnlyEntry
  <2> QED
    BY <2>1, CrcOf
<1> HIDE DEF fs, e
<1>4. PICK gs : gs = Append(fs, e)
  OBVIOUS
<1>5. gs \in Seq(Entry) /\ gs = fs \o <<e>>
  BY <1>1, <1>3, <1>4, AppendIsConcat, AppendFacts
<1>6. All(req) = Append(gs, CrcEntry)
  <2>1. All(req) = gs \o <<CrcEntry>>
    BY <1>1, <1>5, Zenon DEF All, fs
  <2>2. Append(gs, CrcEntry) = gs \o <<CrcEntry>>
    BY <1>3, <1>5, AppendIsConcat
  <2> QED
    BY <2>1, <2>2
<1>7. Text(gs) = Text(fs) \o TLV(62, TLV(5, req.memo))
  <2>1. Text(Append(fs, e)) = Text(fs) \o TLV(e.tag, e.value)
    <3>1. LastField(fs, e)
      BY <1>1, <1>3, Zenon DEF LastField
    <3>2. WritesLast(fs, e)
      BY <3>1, TextWritesLast, Zenon
    <3> QED
      BY <3>2, Zenon DEF WritesLast
  <2> QED
    BY <1>1, <1>2, <1>4, <2>1, Zenon
<1>8. Text(All(req)) = Text(gs) \o TLV(63, CrcText)
  <2>1. Text(Append(gs, CrcEntry)) = Text(gs) \o TLV(CrcEntry.tag, CrcEntry.value)
    <3>1. LastField(gs, CrcEntry)
      BY <1>3, <1>5, Zenon DEF LastField
    <3>2. WritesLast(gs, CrcEntry)
      BY <3>1, TextWritesLast, Zenon
    <3> QED
      BY <3>2, Zenon DEF WritesLast
  <2> QED
    BY <1>3, <1>6, <2>1, Zenon
<1>9. PICK m, l : m = req.memo /\ l = Len(req.memo)
  OBVIOUS
<1>10. m \in Seq(Byte) /\ l = Len(m) /\ l \in 0 .. 95
  <2>1. m \in Seq(Byte) /\ l = Len(m) /\ l <= 95
    BY <1>1, <1>9, Zenon
  <2>2. l \in Nat
    BY <2>1, LenProperties
  <2>3. l \in 0 .. 95
    BY <2>1, <2>2, MemoLength, Zenon
  <2> QED
    BY <2>1, <2>3, Zenon
<1>11. PICK h : Header(h, l) /\ TLV(62, TLV(5, m)) = h \o m
  <2>1. Headed(m, l)
    BY <1>10, MemoHeader, Zenon
  <2> QED
    BY <2>1, Zenon DEF Headed
<1>12. PICK text, front, b : text = Body(req) \o CrcText /\ front = Text(fs) /\ b = TLV(63, CrcText)
  OBVIOUS
<1>13. text = (front \o (h \o m)) \o b
  <2>1. text = Text(All(req))
    BY <1>12, AllFacts, Zenon
  <2> QED
    BY <1>7, <1>8, <1>9, <1>11, <1>12, <2>1, Zenon
<1>14. Trailer(b)
  BY <1>12, CrcTrailer, Zenon
<1>15. front \in Seq(Plain)
  <2>1. fs \in Seq(PlainEntry)
    BY PlainFixed DEF fs
  <2> QED
    BY <1>12, <2>1, PlainText
<1>16. h \in Seq(Byte) /\ b \in Seq(Byte) /\ front \in Seq(Byte)
  <2>1. h \in Seq(Plain) /\ b \in Seq(Plain)
    BY <1>11, <1>14, Zenon DEF Header, Trailer
  <2> QED
    BY <1>15, <2>1, PlainBytes
<1>17. text = front \o (h \o (m \o b))
  <2>1. PICK v : v = h \o m
    OBVIOUS
  <2>2. TwoParts(v, h, m)
    BY <1>10, <1>16, <2>1, Zenon DEF TwoParts
  <2>3. v \in Seq(Byte)
    BY <2>2, TwoPartsFacts, Zenon DEF TwoPartsAt
  <2>4. (front \o v) \o b = front \o (v \o b)
    <3>1. Joins(Byte, front, v, b)
      BY <1>16, <2>3, Zenon DEF Joins
    <3>2. Associates(front, v, b)
      BY <3>1, JoinAssociates, Zenon
    <3> QED
      BY <3>2, Zenon DEF Associates
  <2>5. (h \o m) \o b = h \o (m \o b)
    <3>1. Joins(Byte, h, m, b)
      BY <1>10, <1>16, Zenon DEF Joins
    <3>2. Associates(h, m, b)
      BY <3>1, JoinAssociates, Zenon
    <3> QED
      BY <3>2, Zenon DEF Associates
  <2> QED
    BY <1>13, <2>1, <2>4, <2>5, Zenon
<1>18. CodeAt(req, text, front, h, m, b, l)
  BY <1>9, <1>10, <1>11, <1>12, <1>14, <1>15, <1>17, Zenon DEF CodeAt, fs
<1> QED
  BY <1>18, Zenon

\* Three parts behind each other, byte by byte.
LaidOut(u, front, h, x, b, k, lx) ==
  /\ front \in Seq(Byte) /\ h \in Seq(Byte) /\ x \in Seq(Byte) /\ b \in Seq(Byte)
  /\ Len(front) = k /\ Len(h) = 8 /\ Len(x) = lx /\ Len(b) = 8
  /\ u = front \o (h \o (x \o b))
LaidOutAt(u, front, h, x, b, k, lx) ==
  /\ u \in Seq(Byte) /\ k \in Nat /\ lx \in Nat /\ Len(u) = k + (8 + (lx + 8))
  /\ \A j \in 1 .. 8 : u[k + j] = h[j]
  /\ \A j \in 1 .. 8 : u[k + (8 + (lx + j))] = b[j]
  /\ h \o (x \o b) \in Seq(Byte)
  /\ u = (front \o h) \o (x \o b)

\* They are there.
LEMMA LayOut ==
  ASSUME NEW u, NEW front, NEW h, NEW x, NEW b, NEW k, NEW lx,
         LaidOut(u, front, h, x, b, k, lx)
  PROVE  LaidOutAt(u, front, h, x, b, k, lx)
<1>1. PICK r, s, ls, lr : r = x \o b /\ s = h \o r /\ lr = Len(r) /\ ls = Len(s)
  OBVIOUS
<1>2. /\ front \in Seq(Byte) /\ h \in Seq(Byte) /\ x \in Seq(Byte) /\ b \in Seq(Byte)
      /\ Len(front) = k /\ Len(h) = 8 /\ Len(x) = lx /\ Len(b) = 8
      /\ u = front \o s
  BY <1>1, Zenon DEF LaidOut
<1>3. TwoPartsAt(r, x, b, lx, 8)
  <2>1. TwoParts(r, x, b)
    BY <1>1, <1>2, Zenon DEF TwoParts
  <2> QED
    BY <1>2, <2>1, TwoPartsFacts, Zenon
<1>4. TwoPartsAt(s, h, r, 8, lr)
  <2>1. r \in Seq(Byte)
    BY <1>3, Zenon DEF TwoPartsAt
  <2>2. TwoParts(s, h, r)
    BY <1>1, <1>2, <2>1, Zenon DEF TwoParts
  <2> QED
    BY <1>1, <1>2, <2>2, TwoPartsFacts, Zenon
<1>5. TwoPartsAt(u, front, s, k, ls)
  <2>1. s \in Seq(Byte)
    BY <1>4, Zenon DEF TwoPartsAt
  <2>2. TwoParts(u, front, s)
    BY <1>2, <2>1, Zenon DEF TwoParts
  <2> QED
    BY <1>1, <1>2, <2>2, TwoPartsFacts, Zenon
<1>6. lr = lx + 8 /\ ls = 8 + lr /\ lx \in Nat /\ k \in Nat
  BY <1>1, <1>3, <1>4, <1>5, Zenon DEF TwoPartsAt
<1>7. /\ \A j \in 1 .. 8 : j \in 1 .. ls /\ lx + j \in 1 .. lr /\ 8 + (lx + j) \in 1 .. ls
  BY <1>6
<1>8. \A j \in 1 .. 8 : u[k + j] = s[j] /\ u[k + (8 + (lx + j))] = s[8 + (lx + j)]
  BY <1>5, <1>7, Zenon DEF TwoPartsAt
<1>9. \A j \in 1 .. 8 : s[j] = h[j] /\ s[8 + (lx + j)] = r[lx + j] /\ r[lx + j] = b[j]
  BY <1>3, <1>4, <1>7, Zenon DEF TwoPartsAt
<1>10. u \in Seq(Byte) /\ Len(u) = k + (8 + (lx + 8)) /\ s \in Seq(Byte)
  BY <1>4, <1>5, <1>6, Zenon DEF TwoPartsAt
<1>11. u = (front \o h) \o r
  <2>1. r \in Seq(Byte)
    BY <1>3, Zenon DEF TwoPartsAt
  <2>2. (front \o h) \o r = front \o (h \o r)
    <3>1. Joins(Byte, front, h, r)
      BY <1>2, <2>1, Zenon DEF Joins
    <3>2. Associates(front, h, r)
      BY <3>1, JoinAssociates, Zenon
    <3> QED
      BY <3>2, Zenon DEF Associates
  <2> QED
    BY <1>1, <1>2, <2>2, Zenon
<1>12. \A j \in 1 .. 8 : u[k + j] = h[j] /\ u[k + (8 + (lx + j))] = b[j]
  BY <1>8, <1>9
<1> QED
  BY <1>1, <1>6, <1>10, <1>11, <1>12, Zenon DEF LaidOutAt

\* The amount and the account are where they were written, among fields of
\* which no other has their tags.
PageFinds(req, fields) ==
  /\ OnlyAt(fields, 26, 3) /\ fields[3].value = Account(req)
  /\ OnlyAt(fields, 54, 6) /\ fields[6].value = Show(req.amount)

\* They are if the fields written first are read first, and then only foreign ones.
LEMMA FoundAhead ==
  ASSUME NEW req, Sound(req), NEW text, NEW more, Guesses(text, Items(Fixed(req)), more)
  PROVE  PageFinds(req, FieldsGuessed(text))
<1> DEFINE fields == FieldsGuessed(text)
           front == Items(Fixed(req))
<1>1. /\ OnlyEntry(Fixed(req), 26, 3) /\ Fixed(req)[3].value = Account(req)
      /\ OnlyEntry(Fixed(req), 54, 6) /\ Fixed(req)[6].value = Show(req.amount)
  BY FixedFacts
<1>2. /\ OnlyAt(front, 26, 3) /\ front[3].value = Account(req)
      /\ OnlyAt(front, 54, 6) /\ front[6].value = Show(req.amount)
  BY <1>1, BothThere
<1> HIDE DEF front, fields
<1>3. Behind(fields, front, more, 26) /\ Behind(fields, front, more, 54)
  BY Zenon DEF Guesses, Behind, Foreign, fields, front
<1>4. OnlyAt(fields, 26, 3) /\ fields[3] = front[3] /\ OnlyAt(fields, 54, 6) /\ fields[6] = front[6]
  <2>1. OnlyAt(fields, 26, 3) /\ fields[3] = front[3]
    BY <1>2, <1>3, FrontThere
  <2>2. OnlyAt(fields, 54, 6) /\ fields[6] = front[6]
    BY <1>2, <1>3, FrontThere
  <2> QED
    BY <2>1, <2>2, Zenon
<1> QED
  BY <1>2, <1>4, Zenon DEF PageFinds, fields

\* A code without a memo: what was written.
LEMMA NoMemoFound ==
  ASSUME NEW req, Sound(req), PlainRequest(req), req.memo = <<>>
  PROVE  PageFinds(req, FieldsGuessed(Units(Body(req) \o CrcText)))
<1> DEFINE text == Body(req) \o CrcText
           fs == All(req)
<1>1. /\ fs \in Seq(Entry) /\ text = Text(fs)
      /\ OnlyEntry(fs, 26, 3) /\ fs[3].value = Account(req)
      /\ OnlyEntry(fs, 54, 6) /\ fs[6].value = Show(req.amount)
  BY AllFacts
<1>2. fs \in Seq(PlainEntry)
  <2>1. Memo(req) = <<>>
    BY MemoOf
  <2>2. Fixed(req) \in Seq(PlainEntry)
    BY PlainFixed
  <2>3. Fixed(req) \o <<>> = Fixed(req)
    BY <2>2, ConcatEmptySeq
  <2>4. CrcEntry \in PlainEntry
    <3>1. CrcText \in Seq(48 .. 57 \cup 65 .. 70) /\ Len(CrcText) = 4
      BY CrcOf
    <3>2. 48 .. 57 \cup 65 .. 70 \subseteq Plain
      BY DEF Plain
    <3>3. CrcText \in Seq(Plain)
      BY <3>1, <3>2, SeqMonotonic
    <3>4. 63 \in 0 .. 99 /\ Len(CrcText) <= 99
      BY <3>1
    <3> QED
      BY <3>3, <3>4, PlainMade DEF CrcEntry
  <2>5. <<CrcEntry>> \in Seq(PlainEntry)
    BY <2>4
  <2>6. fs = Fixed(req) \o <<CrcEntry>>
    BY <2>1, <2>3, Zenon DEF All
  <2> QED
    BY <2>2, <2>5, <2>6, ConcatProperties
<1>3. text \in Seq(Plain)
  BY <1>1, <1>2, PlainText
<1>4. Units(text) = text
  <2>1. PICK t, e : t = text /\ e = <<>>
    OBVIOUS
  <2> HIDE DEF text
  <2>2. t \in Seq(Plain)
    BY <1>3, <2>1
  <2>3. t \in Seq(Byte) /\ e \in Seq(Byte) /\ e \in Seq(Plain)
    BY <2>1, <2>2, PlainBytes
  <2>4. t = t \o (e \o e)
    <3>1. e \o e = e
      BY <2>1
    <3>2. t \o e = t
      BY <2>1, <2>3, ConcatEmptySeq
    <3> QED
      BY <3>1, <3>2
  <2>5. Mixed(t, t, e, e)
    BY <2>2, <2>3, <2>4, Zenon DEF Mixed
  <2>6. PICK la, lm, lb : MixedAt(t, t, e, e, la, lm, lb)
    BY <2>5, MixedFacts, Zenon
  <2>7. PICK x \in Seq(Byte) : Units(t) = t \o (x \o e) /\ Len(x) <= lm
    <3>1. PageCounts(t, t, e, lm)
      BY <2>4, <2>6, UnitsMixed, Zenon
    <3> QED
      BY <3>1, Zenon DEF PageCounts
  <2>8. lm = 0
    <3>1. lm = Len(e)
      BY <2>6, Zenon DEF MixedAt
    <3> QED
      BY <2>1, <3>1
  <2>9. x = <<>>
    <3>1. Len(x) \in Nat /\ Len(x) <= 0
      BY <2>7, <2>8, LenProperties
    <3>2. Len(x) = 0
      BY <3>1
    <3> QED
      BY <3>2, EmptySeq
  <2>10. Units(t) = t \o (e \o e)
    BY <2>1, <2>7, <2>9, Zenon
  <2> QED
    BY <2>1, <2>4, <2>10, Zenon
<1>5. FieldsGuessed(text) = Items(fs)
  <2>1. Inside(text, "page") = Items(fs)
    BY <1>1, ReadAll
  <2>2. "page" # "server"
    OBVIOUS
  <2> QED
    BY <2>1, <2>2, Zenon DEF Inside
<1> HIDE DEF fs, text
<1>6. /\ OnlyAt(Items(fs), 26, 3) /\ Items(fs)[3].value = Account(req)
      /\ OnlyAt(Items(fs), 54, 6) /\ Items(fs)[6].value = Show(req.amount)
  BY <1>1, BothThere
<1> QED
  BY <1>4, <1>5, <1>6, Zenon DEF PageFinds, text

\* A code with a memo: the text of the memo is shorter for the page, which
\* does harm only if it is short of exactly four.
LEMMA MemoFound ==
  ASSUME NEW req, Sound(req), PlainRequest(req), req.memo # <<>>, Shortfall(req) # 4
  PROVE  PageFinds(req, FieldsGuessed(Units(Body(req) \o CrcText)))
<1>1. PICK text, front, h, m, b, l : CodeAt(req, text, front, h, m, b, l)
  BY CodeText, Zenon
<1>2. /\ text = Body(req) \o CrcText /\ front = Text(Fixed(req)) /\ l = Len(m)
      /\ Header(h, l) /\ Trailer(b) /\ front \in Seq(Plain) /\ m \in Seq(Byte) /\ l \in 0 .. 95
      /\ text = front \o (h \o (m \o b))
  BY <1>1, Zenon DEF CodeAt
<1>3. /\ h \in Seq(Plain) /\ b \in Seq(Plain) /\ Len(h) = 8 /\ Len(b) = 8
      /\ h \in Seq(Byte) /\ b \in Seq(Byte) /\ front \in Seq(Byte)
  <2>1. h \in Seq(Plain) /\ b \in Seq(Plain) /\ Len(h) = 8 /\ Len(b) = 8
    BY <1>2, Zenon DEF Header, Trailer
  <2>2. front \in Seq(Plain)
    BY <1>2
  <2> QED
    BY <2>1, <2>2, PlainBytes
<1>4. PICK k, a : k = Len(front) /\ a = front \o h
  OBVIOUS
<1>5. LaidOutAt(text, front, h, m, b, k, l)
  <2>1. LaidOut(text, front, h, m, b, k, l)
    BY <1>2, <1>3, <1>4, Zenon DEF LaidOut
  <2> QED
    BY <2>1, LayOut, Zenon
<1>6. a \in Seq(Plain)
  <2>1. front \in Seq(Plain)
    BY <1>2
  <2> QED
    BY <1>3, <1>4, <2>1, ConcatProperties
<1>7. text = a \o (m \o b)
  BY <1>4, <1>5, Zenon DEF LaidOutAt
<1>8. PICK la, lm, lb : MixedAt(text, a, m, b, la, lm, lb)
  <2>1. Mixed(text, a, m, b)
    BY <1>2, <1>3, <1>6, <1>7, Zenon DEF Mixed
  <2> QED
    BY <2>1, MixedFacts, Zenon
<1>9. lm = l
  BY <1>2, <1>8, Zenon DEF MixedAt
<1>10. PICK x \in Seq(Byte) : Units(text) = a \o (x \o b) /\ Len(x) <= lm
  <2>1. PageCounts(text, a, b, lm)
    BY <1>7, <1>8, UnitsMixed, Zenon
  <2> QED
    BY <2>1, Zenon DEF PageCounts
<1>11. PICK u, lx : u = Units(text) /\ lx = Len(x)
  OBVIOUS
<1>12. u = front \o (h \o (x \o b))
  <2>1. PICK r : r = x \o b
    OBVIOUS
  <2>2. TwoParts(r, x, b)
    BY <1>3, <2>1, Zenon DEF TwoParts
  <2>3. r \in Seq(Byte)
    BY <2>2, TwoPartsFacts, Zenon DEF TwoPartsAt
  <2>4. (front \o h) \o r = front \o (h \o r)
    <3>1. Joins(Byte, front, h, r)
      BY <1>3, <2>3, Zenon DEF Joins
    <3>2. Associates(front, h, r)
      BY <3>1, JoinAssociates, Zenon
    <3> QED
      BY <3>2, Zenon DEF Associates
  <2> QED
    BY <1>4, <1>10, <1>11, <2>1, <2>4, Zenon
<1>13. LaidOutAt(u, front, h, x, b, k, lx)
  <2>1. LaidOut(u, front, h, x, b, k, lx)
    BY <1>3, <1>4, <1>11, <1>12, Zenon DEF LaidOut
  <2> QED
    BY <2>1, LayOut, Zenon
<1>14. Left(u, k, l, lx)
  <2>1. u \in Seq(Byte) /\ k \in Nat /\ lx \in Nat /\ Len(u) = k + (8 + (lx + 8))
    BY <1>13, Zenon DEF LaidOutAt
  <2>2. l \in Nat /\ l <= 95 /\ lx <= l
    <3>1. l \in 0 .. 95 /\ lx <= l
      BY <1>2, <1>9, <1>10, <1>11, Zenon
    <3> QED
      BY <3>1
  <2>3. l # lx + 4
    <3>1. Len(text) - Len(u) # 4
      BY <1>2, <1>11, Zenon DEF Shortfall
    <3>2. Len(text) = k + (8 + (l + 8))
      BY <1>5, Zenon DEF LaidOutAt
    <3> QED
      BY <2>1, <2>2, <3>1, <3>2
  <2>4. Len(u) = k + 16 + lx
    BY <2>1
  <2>5. \A j \in 1 .. 8 : u[k + j] = h[j] /\ u[k + (8 + (lx + j))] = b[j]
    BY <1>13, Zenon DEF LaidOutAt
  <2>6. /\ u[k + 1] = h[1] /\ u[k + 3] = h[3] /\ u[k + 4] = h[4]
        /\ u[k + (8 + (lx + 1))] = b[1] /\ u[k + (8 + (lx + 2))] = b[2]
        /\ u[k + (8 + (lx + 3))] = b[3] /\ u[k + (8 + (lx + 4))] = b[4]
    <3>1. 1 \in 1 .. 8 /\ 2 \in 1 .. 8 /\ 3 \in 1 .. 8 /\ 4 \in 1 .. 8
      OBVIOUS
    <3> QED
      BY <2>5, <3>1, Zenon
  <2>7. /\ k + (8 + (lx + 1)) = k + 8 + lx + 1 /\ k + (8 + (lx + 2)) = k + 8 + lx + 2
        /\ k + (8 + (lx + 3)) = k + 8 + lx + 3 /\ k + (8 + (lx + 4)) = k + 8 + lx + 4
    BY <2>1
  <2>8. h[1] = 54 /\ h[3] = Numeral(4 + l, 2)[1] /\ h[4] = Numeral(4 + l, 2)[2]
    BY <1>2, Zenon DEF Header
  <2>9. b[1] = 54 /\ b[2] = 51 /\ b[3] = 48 /\ b[4] = 52
    BY <1>2, Zenon DEF Trailer
  <2>10. NumberAt(u, k + 3) = 4 + l
    <3>1. k + 3 \in Nat /\ (k + 3) + 1 = k + 4 /\ 4 + l \in 0 .. 99
      BY <2>1, <2>2
    <3> HIDE DEF Numeral
    <3>2. u[k + 3] = Numeral(4 + l, 2)[1] /\ u[(k + 3) + 1] = Numeral(4 + l, 2)[2]
      BY <2>6, <2>8, <3>1, Zenon
    <3> QED
      BY <3>1, <3>2, TwoDigitNumber, Zenon
  <2>11. /\ u[k + 1] = 54
         /\ u[k + 8 + lx + 1] = 54 /\ u[k + 8 + lx + 2] = 51
         /\ u[k + 8 + lx + 3] = 48 /\ u[k + 8 + lx + 4] = 52
    BY <2>6, <2>7, <2>8, <2>9, Zenon
  <2> QED
    BY <2>1, <2>2, <2>3, <2>4, <2>10, <2>11, Zenon DEF Left
<1>15. Harmless(u, Scan(u)[k])
  BY <1>14, LeftHarmless, Zenon
<1>16. Leads(u, k, Items(Fixed(req)))
  <2>1. Fixed(req) \in Seq(Entry)
    BY FixedFacts DEF OnlyEntry
  <2>2. PICK rest : rest = h \o (x \o b)
    OBVIOUS
  <2>3. rest \in Seq(Byte)
    BY <1>13, <2>2, Zenon DEF LaidOutAt
  <2>4. u = Text(Fixed(req)) \o rest
    BY <1>2, <1>12, <2>2, Zenon
  <2>5. Leads(u, Len(Text(Fixed(req))), Items(Fixed(req)))
    BY <2>1, <2>3, <2>4, ReadAhead
  <2> QED
    BY <1>2, <1>4, <2>5, Zenon
<1>17. PICK more : Guesses(u, Items(Fixed(req)), more)
  BY <1>15, <1>16, GuessedFrom, Zenon
<1>18. PageFinds(req, FieldsGuessed(u))
  BY <1>17, FoundAhead, Zenon
<1> QED
  BY <1>2, <1>11, <1>18, Zenon

\* An amount is not written as nothing.
LEMMA ShowNotEmpty ==
  ASSUME NEW a \in Amounts, a.n > 0
  PROVE  Show(a) # <<>>
<1>1. a \in Decimal /\ a.n < Tens[MaxDigits]
  BY ReadShow
<1>2. PICK whole, width, fraction : Written(Show(a), Normal(a), whole, width, fraction)
  BY <1>1, ShowWritten
<1>3. PICK p, s : p = Normal(a).places /\ s = Show(a)
  OBVIOUS
<1>4. p \in Nat
  BY <1>1, <1>3, NormalFacts DEF Decimal
<1>5. width \in 1 .. MaxDigits /\ Len(s) = IF p = 0 THEN width ELSE width + 1 + p
  BY <1>2, <1>3, Zenon DEF Written
<1>6. Len(s) # 0
  BY <1>4, <1>5, CodecAssumption
<1>7. Len(<<>>) = 0
  OBVIOUS
<1>8. s # <<>>
  BY <1>6, <1>7, Zenon
<1> QED
  BY <1>3, <1>8, Zenon

\* So does the page, which counts UTF-16 units, the address and the amount of every
\* request whose memo is not short of exactly four units.
THEOREM PageReads ==
  ASSUME NEW req, Sound(req), PlainRequest(req), Shortfall(req) # 4
  PROVE  /\ Preview(Payload(req)).address = req.address
         /\ Preview(Payload(req)).amount = Show(req.amount)
<1> DEFINE fields == FieldsGuessed(Units(Body(req) \o CrcText))
           data == Data(fields, "page")
<1>1. PageFinds(req, fields)
  <2> HIDE DEF fields
  <2>1. CASE req.memo = <<>>
    BY <2>1, NoMemoFound DEF fields
  <2>2. CASE req.memo # <<>>
    BY <2>2, MemoFound DEF fields
  <2> QED
    BY <2>1, <2>2
<1>2. Payload(req).body = Body(req)
  BY DEF Payload
<1>3. Preview(Payload(req)) =
        IF data.address = <<>> \/ data.amount = <<>> THEN Unreadable ELSE data
  BY <1>2, Zenon DEF Preview, Complete
<1> HIDE DEF fields
<1>4. /\ OnlyAt(fields, 26, 3) /\ fields[3].value = Account(req)
      /\ OnlyAt(fields, 54, 6) /\ fields[6].value = Show(req.amount)
  BY <1>1, Zenon DEF PageFinds
<1>5. Sub(fields, 26, 1, "page") = req.address
  <2>1. OnlyAt(fields, 26, 3) /\ fields[3].value = Account(req)
    BY <1>4
  <2> QED
    BY <2>1, AccountRead, Zenon
<1>6. ValueOf(fields, 54) = Show(req.amount)
  BY <1>4, ValueThere, Zenon
<1>7. data.address = req.address /\ data.amount = Show(req.amount)
  <2>1. data =
          [address |-> Sub(fields, 26, 1, "page"), network |-> Sub(fields, 26, 2, "page"),
           currency |-> Sub(fields, 26, 3, "page"), amount |-> ValueOf(fields, 54),
           memo |-> Sub(fields, 62, 5, "page")]
    BY DataOf
  <2> HIDE DEF data
  <2> QED
    BY <1>5, <1>6, <2>1
<1> HIDE DEF data
<1>8. req.address # <<>> /\ Show(req.amount) # <<>>
  <2>1. req.address # <<>> /\ req.amount.n > 0 /\ req \in RequestType
    BY Zenon DEF Sound
  <2>2. req.amount \in Amounts
    BY <2>1 DEF RequestType
  <2> QED
    BY <2>1, <2>2, ShowNotEmpty
<1> QED
  BY <1>3, <1>7, <1>8, Zenon

=============================================================================
