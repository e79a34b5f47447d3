------------------------------- MODULE Chain -------------------------------
(***************************************************************************)
(* The EVM node as the services see it (anvil with interval mining), and   *)
(* the read-side RPCs of the protocol service over it.                     *)
(*                                                                         *)
(* Transactions execute one after the other in the pending block and each  *)
(* emits one Transfer log; sealing the pending block makes its logs, and   *)
(* the balances after them, visible under the tag "latest".  There are no  *)
(* reorganisations (anvil has none).  Failed receipts carry no logs, so a  *)
(* reverted transaction leaves nothing here.                               *)
(***************************************************************************)
EXTENDS Integers, Sequences, FiniteSets

CONSTANTS
  Addr,        \* every holder of the token
  Zero,        \* address(0), the sender of a mint
  Custody,     \* the custodied addresses of the address service
  USDC,        \* the token contract the custody service follows
  Transfers,   \* the Transfer logs that transactions may emit
  Genesis,     \* token balances at height 0
  MaxEvents,   \* bound: logs on the chain
  MaxBlocks    \* bound: sealed blocks

ASSUME ChainAssumption ==
  /\ Custody \subseteq Addr \ {Zero}
  /\ Zero \in Addr
  /\ \A t \in Transfers :
       /\ t.from \in Addr
       /\ t.to \in Addr
       /\ t.amount \in Nat
       /\ t.decodable \in BOOLEAN
  /\ Genesis \in [Addr -> Nat]
  /\ MaxEvents \in Nat
  /\ MaxBlocks \in Nat

VARIABLES
  log,    \* the Transfer logs in chain order, each with the balances after it
  ends    \* ends[h]: the number of logs up to and including block h

chainVars == <<log, ends>>

-----------------------------------------------------------------------------
(* Reading the chain. *)

Tip == Len(ends)

EndOf(h) == IF h = 0 THEN 0 ELSE ends[h]

\* The positions in the log of the events of block h.
Block(h) == {p \in 1 .. EndOf(h) : EndOf(h - 1) < p}

BalancesAfter(n) == IF n = 0 THEN Genesis ELSE log[n].after

\* What a call with the block tag "latest" reads.
LatestBalances == BalancesAfter(EndOf(Tip))

\* Mutant: the address repository returns what it is asked about.
Custodied_Unfiltered(addrs) == IF addrs = {} THEN Custody ELSE addrs

\* GetCustodyAddresses: the custodied ones of the addresses asked for; a
\* request that names none is answered with all of them.
Custodied(addrs) == IF addrs = {} THEN Custody ELSE addrs \cap Custody

\* GetBlockEvents fails as a whole when one Transfer log of the block does
\* not unpack under the ERC-20 ABI.  (A log with too few topics makes it panic:
\* for the indexer that is a failed call like any.)
Readable(h) == \A p \in Block(h) : log[p].event.decodable

\* The parties whose custody decides which events of the block are kept.
Parties(h) == UNION {{log[p].event.from, log[p].event.to} : p \in Block(h)}

\* Mutant: the filter looks at the sender only.
BlockEvents_SenderOnly(h) ==
  {p \in Block(h) : log[p].event.from \in Custodied(Parties(h))}

\* GetBlockEvents: the events that touch a custodied address, of any token.
BlockEvents(h) ==
  LET relevant == Custodied(Parties(h))
  IN  {p \in Block(h) : {log[p].event.from, log[p].event.to} \cap relevant # {}}

-----------------------------------------------------------------------------
(* Writing the chain. *)

\* The token's transfer and mint on a balance sheet.
Settle(bal, t) ==
  LET debited == IF t.from = Zero THEN bal ELSE [bal EXCEPT ![t.from] = @ - t.amount]
  IN  [debited EXCEPT ![t.to] = @ + t.amount]

CanSettle(bal, t) == t.from = Zero \/ bal[t.from] >= t.amount

ChainInit ==
  /\ log = <<>>
  /\ ends = <<>>

\* A transaction executes in the pending block.
ExecTx(t) ==
  /\ Len(log) < MaxEvents
  /\ Tip < MaxBlocks
  /\ t.token = USDC => CanSettle(BalancesAfter(Len(log)), t)
  /\ log' = Append(log,
       [event |-> t,
        after |-> IF t.token = USDC THEN Settle(BalancesAfter(Len(log)), t)
                                    ELSE BalancesAfter(Len(log))])
  /\ UNCHANGED ends

\* The block interval elapses.
SealBlock ==
  /\ Tip < MaxBlocks
  /\ ends' = Append(ends, Len(log))
  /\ UNCHANGED log

ChainNext == SealBlock \/ \E t \in Transfers : ExecTx(t)
=============================================================================
