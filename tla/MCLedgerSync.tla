--------------------------- MODULE MCLedgerSync ---------------------------
(***************************************************************************)
(* Small instances of LedgerSync for TLC: two custodied addresses, one     *)
(* outside holder, one other token.                                        *)
(***************************************************************************)
EXTENDS LedgerSync

CONSTANTS Alice, Bob, Ext, NoOne, UsdcToken, OtherToken

MCAddr == {Alice, Bob, Ext, NoOne}
MCCustody == {Alice, Bob}
MCGenesis == [a \in MCAddr |-> IF a = NoOne THEN 0 ELSE 1]

Transfer(token, from, to, decodable) ==
  [token |-> token, from |-> from, to |-> to, amount |-> 1, decodable |-> decodable]

Internal == Transfer(UsdcToken, Alice, Bob, TRUE)
Incoming == Transfer(UsdcToken, Ext, Alice, TRUE)
Outgoing == Transfer(UsdcToken, Bob, Ext, TRUE)
Minted == Transfer(UsdcToken, NoOne, Bob, TRUE)
Self == Transfer(UsdcToken, Alice, Alice, TRUE)
Foreign == Transfer(OtherToken, Alice, Bob, TRUE)
Poison == Transfer(OtherToken, Ext, Ext, FALSE)

Mixed == {Internal, Incoming, Self, Poison}
Payments == {Outgoing, Minted, Foreign}
=============================================================================
