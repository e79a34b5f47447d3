--------------------------- MODULE ChecksumProofs ---------------------------
(***************************************************************************)
(* The registers of ChecksumLoop keep their width, and the checksum tells  *)
(* every misreading of one byte, or of two neighbouring bytes, from the    *)
(* text that was issued: for texts of every length.  A turn of the inner   *)
(* loop can be undone bit by bit; two texts with the same checksum would   *)
(* have had the same register before each byte that they share, and at the *)
(* wrong byte the same byte.                                               *)
(***************************************************************************)
EXTENDS ChecksumLoop, TLAPS

Agree(x, y, bits) == \A k \in bits : k \in x <=> k \in y

-----------------------------------------------------------------------------
(* One turn of the inner loop. *)

\* Which bits a turn sets.
LEMMA ShiftBits ==
  ASSUME NEW x \in Register
  PROVE  /\ Shift(x) \in Register
         /\ 0 \in Shift(x) <=> 15 \in x
         /\ \A k \in {5, 12} : k \in Shift(x) <=> ~(k - 1 \in x <=> 15 \in x)
         /\ \A k \in 1..15 \ {5, 12} : k \in Shift(x) <=> k - 1 \in x
<1> DEFINE moved == {b + 1 : b \in x \ {15}}
<1>1. \A k \in 0..15 : k \in moved <=> k - 1 \in x
  BY DEF Register
<1>2. moved \subseteq 1..15
  BY DEF Register
<1> HIDE DEF moved
<1>3. CASE 15 \in x
  <2>1. Shift(x) = (moved \ {12, 5, 0}) \union ({12, 5, 0} \ moved)
    BY <1>3 DEF Shift, Xor, Polynomial, moved
  <2> QED
    BY <2>1, <1>1, <1>2, <1>3 DEF Register
<1>4. CASE 15 \notin x
  <2>1. Shift(x) = moved
    BY <1>4 DEF Shift, moved
  <2> QED
    BY <2>1, <1>1, <1>2, <1>4 DEF Register
<1> QED
  BY <1>3, <1>4

\* Undoing it: registers that agree after a turn on the bits up to n and on
\* those from m agreed before it on the bits up to n - 1 and from m - 1.
LEMMA ShiftBack ==
  ASSUME NEW x \in Register, NEW y \in Register, NEW n \in 0..15, NEW m \in 1..16,
         Agree(Shift(x), Shift(y), 0..n), Agree(Shift(x), Shift(y), m..15)
  PROVE  /\ Agree(x, y, 0..(n - 1))
         /\ Agree(x, y, (m - 1)..15)
<1>1. 15 \in x <=> 15 \in y
  BY ShiftBits, 0 \in 0..n DEF Agree
<1>2. ASSUME NEW k \in 1..15, k \in Shift(x) <=> k \in Shift(y)
      PROVE  k - 1 \in x <=> k - 1 \in y
  <2>1. CASE k \in {5, 12}
    BY <2>1, <1>1, <1>2, ShiftBits
  <2>2. CASE k \notin {5, 12}
    BY <2>2, <1>2, ShiftBits
  <2> QED
    BY <2>1, <2>2
<1>3. ASSUME NEW j \in 0..(n - 1)
      PROVE  j \in x <=> j \in y
  <2>1. j + 1 \in 1..15 /\ j + 1 \in 0..n
    OBVIOUS
  <2> QED
    BY <2>1, <1>2, (j + 1) - 1 = j DEF Agree
<1>4. ASSUME NEW j \in (m - 1)..15
      PROVE  j \in x <=> j \in y
  <2>1. CASE j = 15
    BY <2>1, <1>1
  <2>2. CASE j # 15
    <3>1. j + 1 \in 1..15 /\ j + 1 \in m..15
      BY <2>2
    <3> QED
      BY <3>1, <1>2, (j + 1) - 1 = j DEF Agree
  <2> QED
    BY <2>1, <2>2
<1> QED
  BY <1>3, <1>4 DEF Agree

LEMMA SameBits ==
  ASSUME NEW x \in Register, NEW y \in Register
  PROVE  Agree(x, y, 0..15) <=> x = y
  BY DEF Register, Agree

\* A turn loses nothing.
LEMMA ShiftInjective ==
  ASSUME NEW x \in Register, NEW y \in Register, Shift(x) = Shift(y)
  PROVE  x = y
<1>1. Agree(Shift(x), Shift(y), 0..15) /\ Agree(Shift(x), Shift(y), 1..15)
  BY DEF Agree
<1>2. Agree(x, y, 0..(15 - 1)) /\ Agree(x, y, (1 - 1)..15)
  <2>1. 15 \in 0..15 /\ 1 \in 1..16
    OBVIOUS
  <2> QED
    BY <2>1, <1>1, ShiftBack
<1> QED
  BY <1>2, SameBits, 1 - 1 = 0

-----------------------------------------------------------------------------
(* One turn of the outer loop. *)

Turn2(x) == Shift(Shift(x))
Turn4(x) == Turn2(Turn2(x))

LEMMA AbsorbTurns ==
  ASSUME NEW x, NEW b
  PROVE  Absorb(x, b) = Turn4(Turn4(Enter(x, b)))
  BY DEF Absorb, Turn4, Turn2

LEMMA Turn2Back ==
  ASSUME NEW x \in Register, NEW y \in Register, NEW n \in 1..15, NEW m \in 2..16,
         Agree(Turn2(x), Turn2(y), 0..n), Agree(Turn2(x), Turn2(y), m..15)
  PROVE  /\ Agree(x, y, 0..(n - 2))
         /\ Agree(x, y, (m - 2)..15)
<1>1. Shift(x) \in Register /\ Shift(y) \in Register
  BY ShiftBits
<1>2. Agree(Shift(x), Shift(y), 0..(n - 1)) /\ Agree(Shift(x), Shift(y), (m - 1)..15)
  <2>1. n \in 0..15 /\ m \in 1..16
    OBVIOUS
  <2> QED
    BY <2>1, <1>1, ShiftBack DEF Turn2
<1>3. Agree(x, y, 0..((n - 1) - 1)) /\ Agree(x, y, ((m - 1) - 1)..15)
  <2>1. n - 1 \in 0..15 /\ m - 1 \in 1..16
    OBVIOUS
  <2> QED
    BY <2>1, <1>2, ShiftBack
<1> QED
  BY <1>3, (n - 1) - 1 = n - 2, (m - 1) - 1 = m - 2

LEMMA Turn4Back ==
  ASSUME NEW x \in Register, NEW y \in Register, NEW n \in 3..15, NEW m \in 4..16,
         Agree(Turn4(x), Turn4(y), 0..n), Agree(Turn4(x), Turn4(y), m..15)
  PROVE  /\ Agree(x, y, 0..(n - 4))
         /\ Agree(x, y, (m - 4)..15)
<1>1. Turn2(x) \in Register /\ Turn2(y) \in Register
  BY ShiftBits DEF Turn2
<1>2. Agree(Turn2(x), Turn2(y), 0..(n - 2)) /\ Agree(Turn2(x), Turn2(y), (m - 2)..15)
  <2>1. n \in 1..15 /\ m \in 2..16
    OBVIOUS
  <2> QED
    BY <2>1, <1>1, Turn2Back DEF Turn4
<1>3. Agree(x, y, 0..((n - 2) - 2)) /\ Agree(x, y, ((m - 2) - 2)..15)
  <2>1. n - 2 \in 1..15 /\ m - 2 \in 2..16
    OBVIOUS
  <2> QED
    BY <2>1, <1>2, Turn2Back
<1> QED
  BY <1>3, (n - 2) - 2 = n - 4, (m - 2) - 2 = m - 4

LEMMA Turn4Type ==
  ASSUME NEW x \in Register
  PROVE  Turn4(x) \in Register
  BY ShiftBits DEF Turn4, Turn2

LEMMA Turn4Injective ==
  ASSUME NEW x \in Register, NEW y \in Register, Turn4(x) = Turn4(y)
  PROVE  x = y
<1> DEFINE s1(r) == Shift(r)
           s2(r) == Shift(s1(r))
           s3(r) == Shift(s2(r))
<1>1. /\ s1(x) \in Register /\ s2(x) \in Register /\ s3(x) \in Register
      /\ s1(y) \in Register /\ s2(y) \in Register /\ s3(y) \in Register
  BY ShiftBits
<1>2. Shift(s3(x)) = Shift(s3(y))
  BY DEF Turn4, Turn2
<1>3. s3(x) = s3(y)
  BY <1>1, <1>2, ShiftInjective
<1>4. s2(x) = s2(y)
  BY <1>1, <1>3, ShiftInjective
<1>5. s1(x) = s1(y)
  BY <1>1, <1>4, ShiftInjective
<1> QED
  BY <1>5, ShiftInjective

\* A byte enters at the top.
LEMMA EnterBits ==
  ASSUME NEW x \in Register, NEW b \in Byte
  PROVE  /\ Enter(x, b) \in Register
         /\ \A k \in 0..7 : k \in Enter(x, b) <=> k \in x
         /\ \A k \in 0..7 : k + 8 \in Enter(x, b) <=> ~(k + 8 \in x <=> k \in b)
<1> DEFINE top == {j + 8 : j \in b}
<1>1. top \subseteq 8..15
  BY DEF Byte
<1>2. \A k \in 0..7 : k + 8 \in top <=> k \in b
  BY DEF Byte
<1>3. Enter(x, b) = (x \ top) \union (top \ x)
  BY DEF Enter, Xor
<1> HIDE DEF top
<1> QED
  BY <1>1, <1>2, <1>3 DEF Register

LEMMA AbsorbType ==
  ASSUME NEW x \in Register, NEW b \in Byte
  PROVE  Absorb(x, b) \in Register
  BY AbsorbTurns, EnterBits, Turn4Type

\* What the same results say of what was absorbed.
LEMMA AbsorbInjective ==
  ASSUME NEW x \in Register, NEW y \in Register, NEW b \in Byte, NEW c \in Byte,
         Absorb(x, b) = Absorb(y, c)
  PROVE  Enter(x, b) = Enter(y, c)
<1>1. /\ Enter(x, b) \in Register /\ Turn4(Enter(x, b)) \in Register
      /\ Enter(y, c) \in Register /\ Turn4(Enter(y, c)) \in Register
  BY EnterBits, Turn4Type
<1>2. Turn4(Turn4(Enter(x, b))) = Turn4(Turn4(Enter(y, c)))
  BY AbsorbTurns
<1>3. Turn4(Enter(x, b)) = Turn4(Enter(y, c))
  BY <1>1, <1>2, Turn4Injective
<1> QED
  BY <1>1, <1>3, Turn4Injective

\* A wrong byte shows in the low half of the register right away.
LEMMA AbsorbWrong ==
  ASSUME NEW x \in Register, NEW b \in Byte, NEW c \in Byte,
         Agree(Absorb(x, b), Absorb(x, c), 0..7)
  PROVE  b = c
<1>1. /\ Enter(x, b) \in Register /\ Turn4(Enter(x, b)) \in Register
      /\ Enter(x, c) \in Register /\ Turn4(Enter(x, c)) \in Register
  BY EnterBits, Turn4Type
<1>2. /\ Agree(Turn4(Turn4(Enter(x, b))), Turn4(Turn4(Enter(x, c))), 0..7)
      /\ Agree(Turn4(Turn4(Enter(x, b))), Turn4(Turn4(Enter(x, c))), 16..15)
  BY AbsorbTurns DEF Agree
<1>3. /\ Agree(Turn4(Enter(x, b)), Turn4(Enter(x, c)), 0..3)
      /\ Agree(Turn4(Enter(x, b)), Turn4(Enter(x, c)), 12..15)
  <2>1. 7 \in 3..15 /\ 16 \in 4..16 /\ 7 - 4 = 3 /\ 16 - 4 = 12
    OBVIOUS
  <2> QED
    BY <2>1, <1>1, <1>2, Turn4Back
<1>4. Agree(Enter(x, b), Enter(x, c), 8..15)
  <2>1. 3 \in 3..15 /\ 12 \in 4..16 /\ 12 - 4 = 8
    OBVIOUS
  <2> QED
    BY <2>1, <1>1, <1>3, Turn4Back
<1>5. \A k \in 0..7 : k \in b <=> k \in c
  <2> TAKE k \in 0..7
  <2>1. k + 8 \in Enter(x, b) <=> k + 8 \in Enter(x, c)
    BY <1>4, k + 8 \in 8..15 DEF Agree
  <2> QED
    BY <2>1, EnterBits
<1> QED
  BY <1>5 DEF Byte

\* Equal bytes keep different registers different.
LEMMA AbsorbSame ==
  ASSUME NEW x \in Register, NEW y \in Register, NEW b \in Byte,
         Absorb(x, b) = Absorb(y, b)
  PROVE  x = y
<1>1. Enter(x, b) = Enter(y, b)
  BY AbsorbInjective
<1>2. \A k \in 0..7 : k \in x <=> k \in y
  BY <1>1, EnterBits
<1>3. \A k \in 0..7 : k + 8 \in x <=> k + 8 \in y
  BY <1>1, EnterBits
<1>4. ASSUME NEW k \in 8..15
      PROVE  k \in x <=> k \in y
  BY <1>3, k - 8 \in 0..7, (k - 8) + 8 = k
<1>5. Agree(x, y, 0..15)
  BY <1>2, <1>4 DEF Agree
<1> QED
  BY <1>5, SameBits

\* Whatever the next bytes are, they cannot make up for the low half.
LEMMA AbsorbNext ==
  ASSUME NEW x \in Register, NEW y \in Register, NEW b \in Byte, NEW c \in Byte,
         Absorb(x, b) = Absorb(y, c)
  PROVE  Agree(x, y, 0..7)
<1>1. Enter(x, b) = Enter(y, c)
  BY AbsorbInjective
<1> QED
  BY <1>1, EnterBits DEF Agree

-----------------------------------------------------------------------------
(* The registers are 16 bits wide. *)
THEOREM TypeCorrect == Spec => []TypeOK
<1>1. Init => TypeOK
  <2> SUFFICES ASSUME Init PROVE TypeOK
    OBVIOUS
  <2>1. Len(reading.issued) \in Nat
    BY ReadingsAssumption DEF Init
  <2> QED
    BY <2>1 DEF Init, TypeOK, AllOnes, Register
<1>2. TypeOK /\ [Next]_vars => TypeOK'
  <2> SUFFICES ASSUME TypeOK, [Next]_vars PROVE TypeOK'
    OBVIOUS
  <2>1. CASE Step
    <3>1. Len(reading.issued) \in Nat /\ done \in 0..Len(reading.issued)
      BY ReadingsAssumption DEF TypeOK
    <3>2. done + 1 \in 1..Len(reading.issued) /\ reading' = reading /\ done' = done + 1
      BY <2>1, <3>1 DEF Step
    <3>3. reading.issued[done + 1] \in Byte /\ reading.read[done + 1] \in Byte
      BY <3>2, ReadingsAssumption DEF TypeOK
    <3>4. crcIssued' \in Register /\ crcRead' \in Register
      BY <2>1, <3>3, AbsorbType DEF Step, TypeOK
    <3> QED
      BY <3>1, <3>2, <3>4 DEF TypeOK
  <2>2. CASE UNCHANGED vars
    BY <2>2 DEF TypeOK, vars
  <2> QED
    BY <2>1, <2>2 DEF Next
<1> QED
  BY <1>1, <1>2, PTL DEF Spec

\* Where the registers stand, if the reading is wrong at p first: equal before
\* it, different in their low halves right after it, and different from then on.
Parted ==
  \A p \in 1..Len(reading.issued) :
    WrongFrom(p) =>
      /\ done < p => crcIssued = crcRead
      /\ done = p => ~Agree(crcIssued, crcRead, 0..7)
      /\ done > p => crcIssued # crcRead

(* No misreading of one byte, or of two neighbours, has the checksum of the *)
(* text that was issued.                                                    *)
THEOREM MisreadingsCaught == Spec => []MisreadCaught
<1>1. Init => Parted
  <2> SUFFICES ASSUME Init PROVE Parted
    OBVIOUS
  <2>1. Len(reading.issued) \in Nat
    BY ReadingsAssumption DEF Init
  <2> QED
    BY <2>1 DEF Init, Parted
<1>2. TypeOK /\ Parted /\ [Next]_vars => Parted'
  <2> SUFFICES ASSUME TypeOK, Parted, [Next]_vars PROVE Parted'
    OBVIOUS
  <2>1. CASE Step
    <3> DEFINE b == reading.issued[done + 1]
               c == reading.read[done + 1]
    <3>1. Len(reading.issued) \in Nat /\ done \in 0..Len(reading.issued)
      BY ReadingsAssumption DEF TypeOK
    <3>2. done + 1 \in 1..Len(reading.issued) /\ reading' = reading /\ done' = done + 1
      BY <2>1, <3>1 DEF Step
    <3>3. b \in Byte /\ c \in Byte
      BY <3>2, ReadingsAssumption DEF TypeOK
    <3>4. /\ crcIssued \in Register /\ crcIssued' = Absorb(crcIssued, b)
          /\ crcRead \in Register /\ crcRead' = Absorb(crcRead, c)
      BY <2>1 DEF Step, TypeOK
    <3> SUFFICES ASSUME NEW p \in 1..Len(reading.issued), WrongFrom(p)
                 PROVE  /\ done + 1 < p => crcIssued' = crcRead'
                        /\ done + 1 = p => ~Agree(crcIssued', crcRead', 0..7)
                        /\ done + 1 > p => crcIssued' # crcRead'
      BY <3>2 DEF Parted, WrongFrom, Wrong
    <3>5. /\ done < p => crcIssued = crcRead
          /\ done = p => ~Agree(crcIssued, crcRead, 0..7)
          /\ done > p => crcIssued # crcRead
      BY DEF Parted
    <3>6. done + 1 \notin {p, p + 1} => b = c
      BY <3>2 DEF WrongFrom, Wrong
    <3> HIDE DEF b, c
    <3>7. CASE done + 1 < p
      BY <3>1, <3>4, <3>5, <3>6, <3>7
    <3>8. CASE done + 1 = p
      <4>1. b # c /\ crcIssued = crcRead
        BY <3>1, <3>5, <3>8 DEF WrongFrom, Wrong, b, c
      <4>2. ~Agree(crcIssued', crcRead', 0..7)
        BY <4>1, <3>3, <3>4, AbsorbWrong
      <4> QED
        BY <3>1, <3>8, <4>2
    <3>9. CASE done = p
      <4>1. crcIssued' # crcRead'
        BY <3>3, <3>4, <3>5, <3>9, AbsorbNext
      <4> QED
        BY <3>1, <3>9, <4>1
    <3>10. CASE done > p
      <4>1. b = c /\ crcIssued # crcRead
        BY <3>1, <3>5, <3>6, <3>10
      <4>2. crcIssued' # crcRead'
        BY <3>3, <3>4, <4>1, AbsorbSame
      <4> QED
        BY <3>1, <3>10, <4>2
    <3> QED
      BY <3>1, <3>7, <3>8, <3>9, <3>10
  <2>2. CASE UNCHANGED vars
    BY <2>2 DEF Parted, WrongFrom, Wrong, vars
  <2> QED
    BY <2>1, <2>2 DEF Next
<1>3. TypeOK /\ Parted => MisreadCaught
  <2> SUFFICES ASSUME TypeOK, Parted,
                      NEW p \in 1..Len(reading.issued),
                      WrongFrom(p), done = Len(reading.issued), crcIssued = crcRead
               PROVE  FALSE
    BY DEF MisreadCaught
  <2>1. Len(reading.issued) \in Nat
    BY ReadingsAssumption DEF TypeOK
  <2>2. CASE done = p
    BY <2>2 DEF Parted, Agree
  <2>3. CASE done > p
    BY <2>3 DEF Parted
  <2> QED
    BY <2>1, <2>2, <2>3
<1> QED
  BY <1>1, <1>2, <1>3, TypeCorrect, PTL DEF Spec
=============================================================================
