--------------------------- MODULE MCPaymentPage ---------------------------
(***************************************************************************)
(* Small instances of PaymentPage: two wallets, and requests on both sides *)
(* of every limit.                                                         *)
(***************************************************************************)
EXTENDS PaymentPage

Wallet(digit) == <<48, 120>> \o Fill(digit, 40)
Letters(n) == Fill(109, n)

MCCrcText == <<50, 57, 66, 49>>
Amount(n, places) == [n |-> n, places |-> places]
MCAmounts ==
  {Amount(1050, 2), Amount(705, 1), Amount(3, 0), Amount(1, 6), Amount(10000001, 7), Amount(-5, 0)}

Coffee ==
  [address |-> Wallet(50), network |-> Ethereum, currency |-> USDC,
   amount |-> Amount(3, 0), memo |-> <<>>]

MCRequest ==
  [r \in Requests |->
     CASE r = "dinner" -> [Coffee EXCEPT !.address = Wallet(49), !.amount = Amount(1050, 2),
                                         !.memo = Letters(5)]
       [] r = "dust" -> [Coffee EXCEPT !.amount = Amount(1, 6), !.memo = <<99, 97, 102, 195, 169>>]
       [] r = "lower" -> [Coffee EXCEPT !.currency = <<117, 115, 100, 99>>]
       [] r = "seven decimals" -> [Coffee EXCEPT !.amount = Amount(10000001, 7)]
       [] r = "euro" -> [Coffee EXCEPT !.currency = <<69, 85, 82, 67>>]
       [] r = "network" -> [Coffee EXCEPT !.network = Letters(6)]
       [] r = "address" -> [Coffee EXCEPT !.address = Letters(42)]
       [] r = "negative" -> [Coffee EXCEPT !.amount = Amount(-5, 0)]
       [] r = "memo 95" -> [Coffee EXCEPT !.memo = Letters(95)]
       [] r = "memo 96" -> [Coffee EXCEPT !.memo = Letters(96)]
       [] r = "zeros" -> [Coffee EXCEPT !.memo = Fill(48, 100)]
       [] r = "too long" -> [Coffee EXCEPT !.memo = Letters(150)]
       [] OTHER -> Coffee]

\* A digit of the amount, of the address, and of the length of the amount.
MCSlips == {[at |-> 120, byte |-> 55], [at |-> 45, byte |-> 50], [at |-> 118, byte |-> 120]}
OneSlip == {[at |-> 118, byte |-> 120]}
=============================================================================
