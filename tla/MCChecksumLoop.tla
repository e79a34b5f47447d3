-------------------------- MODULE MCChecksumLoop --------------------------
(***************************************************************************)
(* Misreadings of a text of three bytes: one byte replaced by any other,   *)
(* or two neighbours replaced by characters of a small alphabet.           *)
(***************************************************************************)
EXTENDS ChecksumLoop

Bits(code) == {b \in 0..7 : (code \div 2^b) % 2 = 1}

\* The characters "0", "5", "6", "A", "a" and "m".
Alphabet == {Bits(c) : c \in {48, 53, 54, 65, 97, 109}}
Issued == {<<Bits(54), Bits(48), Bits(65)>>, <<Bits(48), Bits(48), Bits(48)>>}

Replaced(text, p, byte) == [text EXCEPT ![p] = byte]

MCReadings ==
  {[issued |-> text, read |-> Replaced(text, p, byte)] :
     text \in Issued, p \in 1..3, byte \in Byte}
  \union
  {[issued |-> text, read |-> Replaced(Replaced(text, p, a), p + 1, b)] :
     text \in Issued, p \in 1..2, a \in Alphabet, b \in Alphabet}
=============================================================================
