------------------------------- MODULE Node -------------------------------
(***************************************************************************)
(* The EVM node as the transfer path sees it: token balances and account   *)
(* nonces under "latest", the transaction pool behind                      *)
(* eth_sendRawTransaction, mining, and the base fee.                       *)
(*                                                                         *)
(* Mining is modelled one transaction at a time, so every state between    *)
(* two transactions of a block is visible: more than the node shows.       *)
(* Senders hold enough ether; no one else uses the signer's keys.          *)
(***************************************************************************)
EXTENDS Integers, FiniteSets, FiniteSetsExt

CONSTANTS
  Addr,       \* every holder of the token
  Keys,       \* the addresses the signer has private keys for
  Opening,    \* token balances at the start
  Wrap,       \* 2^256: a token amount is a uint256
  Tip,        \* eth_maxPriorityFeePerGas
  BaseFees    \* the base fees that occur

ASSUME NodeAssumption ==
  /\ Keys \subseteq Addr
  /\ Wrap \in Nat \ {0}
  /\ Opening \in [Addr -> 0 .. Wrap - 1]
  /\ Tip \in Nat
  /\ BaseFees \subseteq Nat
  /\ BaseFees # {}

VARIABLES
  bal,       \* balanceOf
  nonce,     \* transactions mined per sender
  pool,      \* transactions waiting to be mined
  mined,     \* receipts: [tx, ok]
  baseFee    \* of the latest header

nodeVars == <<bal, nonce, pool, mined, baseFee>>

\* What a transfer burns: a fresh storage slot for a recipient that holds no
\* tokens yet makes it Dear, any other one is Cheap.
Cheap == 1
Dear == 2

\* The calldata's transfer, the nonce it is sent under, its gas limit and its
\* fee cap.
Tx == [from : Addr, to : Addr, amount : 0 .. Wrap - 1, nonce : Nat,
       gas : {Cheap, Dear}, fee : Nat]

NodeInit ==
  /\ bal = Opening
  /\ nonce = [a \in Addr |-> 0]
  /\ pool = {}
  /\ mined = {}
  /\ baseFee \in BaseFees

Move(from, to, amount) ==
  LET debited == [bal EXCEPT ![from] = @ - amount]
  IN  [debited EXCEPT ![to] = @ + amount]

\* eth_call of transfer at "latest" succeeds.
Covers(from, amount) == bal[from] >= amount

Sum(txs) == MapThenSumSet(LAMBDA t : t.amount, txs)
Inflow(a) == Sum({t \in pool : t.to = a})
Outflow(a) == Sum({t \in pool : t.from = a})

\* eth_estimateGas of transfer, with no block named: the node runs it on the
\* latest or on the pending state, and the latter depends on the order it
\* executes the pool in.  So it answers with any state between all that may
\* come in and all that may go out; the latest one is among them.
EstimateMayBe(from, to, amount, gas) ==
  /\ bal[from] + Inflow(from) >= amount
  /\ IF gas = Dear THEN amount > 0 /\ bal[to] <= Outflow(to)
                   ELSE amount = 0 \/ bal[to] + Inflow(to) > 0
EstimateMayRevert(from, amount) == bal[from] - Outflow(from) < amount

Rivals(t) == {u \in pool : u.from = t.from /\ u.nonce = t.nonce}

\* eth_sendRawTransaction takes the transaction: its nonce is not used up,
\* and it pays more than the one it would replace.
Admissible(t) ==
  /\ t.nonce >= nonce[t.from]
  /\ \A u \in Rivals(t) : t.fee > u.fee

Admit(t) == pool' = (pool \ Rivals(t)) \cup {t}

\* The money is there, and the gas limit pays for the recipient's slot.
Succeeds(t) ==
  /\ Covers(t.from, t.amount)
  /\ t.gas = Cheap => t.amount = 0 \/ bal[t.to] > 0

\* A transaction of the pool is executed.  One that reverts uses its nonce up
\* and moves nothing.
Mine(t) ==
  /\ t \in pool
  /\ t.nonce = nonce[t.from]
  /\ t.fee >= baseFee
  /\ nonce' = [nonce EXCEPT ![t.from] = @ + 1]
  /\ pool' = pool \ {t}
  /\ mined' = mined \cup {[tx |-> t, ok |-> Succeeds(t)]}
  /\ bal' = IF Succeeds(t) THEN Move(t.from, t.to, t.amount) ELSE bal
  /\ UNCHANGED baseFee

\* A holder outside the service pays a custodied one.
Deposit(from, to) ==
  /\ bal[from] > 0
  /\ bal' = Move(from, to, 1)
  /\ UNCHANGED <<nonce, pool, mined, baseFee>>

\* The demand for block space moves the base fee.
Drift(fee) ==
  /\ fee # baseFee
  /\ baseFee' = fee
  /\ UNCHANGED <<bal, nonce, pool, mined>>
=============================================================================
