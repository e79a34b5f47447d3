------------------------------- MODULE Crc16 -------------------------------
(***************************************************************************)
(* CRC-16/CCITT-FALSE as the payment QR code uses it.  A register is the   *)
(* set of its bits that are 1, a byte likewise, so exclusive or is the     *)
(* symmetric difference.                                                   *)
(***************************************************************************)
EXTENDS Naturals, Sequences

Byte == SUBSET (0..7)
Register == SUBSET (0..15)

\* 0x1021, and the initial 0xFFFF.
Polynomial == {12, 5, 0}
AllOnes == 0..15

Xor(a, b) == (a \ b) \union (b \ a)

\* Bugs: a register that does not lose its top bit; no feedback.
Shift_Wide(crc) ==
  LET moved == {b + 1 : b \in crc}
  IN  IF 15 \in crc THEN Xor(moved, Polynomial) ELSE moved
Shift_NoFeedback(crc) == {b + 1 : b \in crc \ {15}}

\* One turn of the inner loop: the register is 16 bits wide, and the bit that
\* leaves it decides whether the polynomial is added.
Shift(crc) ==
  LET moved == {b + 1 : b \in crc \ {15}}
  IN  IF 15 \in crc THEN Xor(moved, Polynomial) ELSE moved

\* One turn of the outer loop: the byte enters at the top.
Enter(crc, byte) == Xor(crc, {b + 8 : b \in byte})
Absorb(crc, byte) ==
  Shift(Shift(Shift(Shift(Shift(Shift(Shift(Shift(Enter(crc, byte)))))))))
=============================================================================
