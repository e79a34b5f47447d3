----------------------------- MODULE Payments -----------------------------
(***************************************************************************)
(* What the transfer path promises, without nonces, fees, a pool or a      *)
(* network: money moves only because someone asked for it, at most once    *)
(* per request, never beyond the payer's funds.  It promises no answer     *)
(* that tells whether the money has moved.                                 *)
(***************************************************************************)
EXTENDS Integers, FiniteSets

CONSTANTS
  Addr,      \* holders of the token
  Custodial, \* holders whose money moves on request only
  Requests,  \* transfer requests
  Order,     \* what each request asks for: [from, to, amount]
  Opening    \* funds at the start

VARIABLES
  funds,     \* the money of each holder
  asked,     \* the requests made so far
  paid       \* how often each order has been paid

Orders == {Order[r] : r \in Requests}

Move(f, o) ==
  LET debited == [f EXCEPT ![o.from] = @ - o.amount]
  IN  [debited EXCEPT ![o.to] = @ + o.amount]

Init ==
  /\ funds = Opening
  /\ asked = {}
  /\ paid = [o \in Orders |-> 0]

Ask(r) ==
  /\ r \notin asked
  /\ asked' = asked \cup {r}
  /\ UNCHANGED <<funds, paid>>

Pay(o) ==
  /\ paid[o] < Cardinality({r \in asked : Order[r] = o})
  /\ funds[o.from] >= o.amount
  /\ funds' = Move(funds, o)
  /\ paid' = [paid EXCEPT ![o] = @ + 1]
  /\ UNCHANGED asked

\* Money arrives from a holder whose key is elsewhere.
Deposit(from, to) ==
  /\ funds[from] > 0
  /\ funds' = Move(funds, [from |-> from, to |-> to, amount |-> 1])
  /\ UNCHANGED <<asked, paid>>

Next ==
  \/ \E r \in Requests : Ask(r)
  \/ \E o \in Orders : Pay(o)
  \/ \E from \in Addr \ Custodial, to \in Custodial : Deposit(from, to)

PaymentsSpec == Init /\ [][Next]_<<funds, asked, paid>>
=============================================================================
