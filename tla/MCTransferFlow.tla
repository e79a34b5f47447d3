-------------------------- MODULE MCTransferFlow --------------------------
(***************************************************************************)
(* Small instances of TransferFlow for TLC.  Balances are below 3 and the  *)
(* stand-in for 2^256 is 4.                                                *)
(***************************************************************************)
EXTENDS TransferFlow

CONSTANTS Alice, Bob, Ext, r1, r2, r3, r4

MCAddr == {Alice, Bob, Ext}
MCKeys == {Alice, Bob}
MCOpening == [a \in MCAddr |-> IF a = Bob THEN 0 ELSE 1]

Pays(from, to, amount) == [from |-> from, to |-> to, amount |-> amount, payload |-> "evm"]

\* A transfer made twice, by a double click or a user's retry, with money for
\* one; Bob paying Alice from what she pays him, more than 2^256 units as he
\* asks; and a payload that PrepareTransaction does not take.
Rivalry ==
  [r \in Requests |-> CASE r = r2 -> Pays(Bob, Alice, Wrap + 1)
                        [] r = r4 -> [Pays(Alice, Bob, 1) EXCEPT !.payload = "bare"]
                        [] OTHER -> Pays(Alice, Bob, 1)]

\* Two wallets that pay each other, and one the signer does not know.
Chained ==
  [r \in Requests |-> CASE r = r1 -> Pays(Alice, Bob, 1)
                        [] r = r2 -> Pays(Bob, Alice, 1)
                        [] r = r3 -> Pays(Ext, Bob, 1)]
=============================================================================
