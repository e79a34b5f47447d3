--------------------------- MODULE ChecksumLoop ---------------------------
(***************************************************************************)
(* The loop of calculateCRC16 over two texts in lock step: the one that    *)
(* was issued, whose checksum is printed in the code, and the one that was *)
(* read, whose checksum is compared with it.                               *)
(***************************************************************************)
EXTENDS Crc16

CONSTANT Readings   \* pairs [issued, read] of texts of the same length

ASSUME ReadingsAssumption ==
  \A t \in Readings :
    /\ t.issued \in Seq(Byte)
    /\ t.read \in Seq(Byte)
    /\ Len(t.issued) = Len(t.read)

VARIABLES
  reading,    \* the two texts
  done,       \* how many bytes the loop has taken
  crcIssued,  \* the register over the issued text
  crcRead     \* and over the one that was read

vars == <<reading, done, crcIssued, crcRead>>

Init ==
  /\ reading \in Readings
  /\ done = 0
  /\ crcIssued = AllOnes
  /\ crcRead = AllOnes

Step ==
  /\ done < Len(reading.issued)
  /\ done' = done + 1
  /\ crcIssued' = Absorb(crcIssued, reading.issued[done + 1])
  /\ crcRead' = Absorb(crcRead, reading.read[done + 1])
  /\ UNCHANGED reading

Next == Step
Spec == Init /\ [][Next]_vars

-----------------------------------------------------------------------------
(* The registers are 16 bits wide, whatever is shifted into them (uint16). *)
TypeOK ==
  /\ reading \in Readings
  /\ done \in 0..Len(reading.issued)
  /\ crcIssued \in Register
  /\ crcRead \in Register

Wrong(i) == reading.issued[i] # reading.read[i]

\* The reading is wrong at p, and nowhere but at p and the byte after it.
WrongFrom(p) ==
  /\ p \in 1..Len(reading.issued)
  /\ Wrong(p)
  /\ \A i \in 1..Len(reading.issued) : Wrong(i) => i \in {p, p + 1}

\* What parseEMVCoTLV relies on when it validates the CRC: a text with one
\* byte misread, or with two neighbours misread or swapped, never has the
\* checksum of the text that was issued.
MisreadCaught ==
  \A p \in 1..Len(reading.issued) :
    WrongFrom(p) /\ done = Len(reading.issued) => crcIssued # crcRead
=============================================================================
