---------------------------- MODULE BalanceView ----------------------------
(***************************************************************************)
(* The balance box of the dashboard: which wallet is active, what the box  *)
(* shows, and the fetches in between, which several events start and whose *)
(* answers arrive in any order.  The balance comes from the custody        *)
(* service's ledger, which a transfer reaches only after it is mined and   *)
(* indexed, while the page refreshes a fixed time after the transfer.      *)
(***************************************************************************)
EXTENDS Integers, Sequences

CONSTANTS
  Wallets,       \* the wallets that /addresses returns
  First,         \* the first of them
  Refresh,       \* ticks from a transfer to the page's refresh
  BlockTime,     \* ticks between blocks
  MaxFetches, MaxTransfers, MaxLost   \* bounds

None == "none"

ASSUME ViewAssumption ==
  /\ First \in Wallets
  /\ None \notin Wallets
  /\ Refresh \in Nat
  /\ BlockTime \in Nat \ {0}
  /\ {MaxFetches, MaxTransfers, MaxLost} \subseteq Nat

VARIABLES
  boot,       \* init's fetch of the wallets: "loading", "done" or "failed"
  active,     \* activeAddress
  shown,      \* the box: Blank, Loading, Failed or an amount
  fetches,    \* the balance fetches, in the order in which they started
  timers,     \* the ticks each setTimeout has left
  ledger,     \* the custody service's balances
  booked,     \* how many transfers are in it
  transfers,  \* the transfers that the page was told are broadcasted
  mined,      \* how many of them are
  clock,      \* ticks since the last block
  lost,       \* answers lost
  crossed     \* history: a fetch started while another was in flight

pageVars == <<boot, active, shown, fetches, timers>>
worldVars == <<ledger, booked, transfers, mined, clock>>
vars == <<pageVars, worldVars, lost, crossed>>

Blank == [kind |-> "blank"]
Loading == [kind |-> "loading"]
Failed == [kind |-> "error"]
Amount(wallet, amount, books) ==
  [kind |-> "amount", wallet |-> wallet, amount |-> amount, books |-> books]

InFlight == {f \in DOMAIN fetches : fetches[f].state \in {"sent", "read"}}

Init ==
  /\ boot = "loading"
  /\ active = None
  /\ shown = Blank
  /\ fetches = <<>>
  /\ timers = <<>>
  /\ ledger = [w \in Wallets |-> MaxTransfers]
  /\ booked = 0
  /\ transfers = <<>>
  /\ mined = 0
  /\ clock = 0
  /\ lost = 0
  /\ crossed = FALSE

-----------------------------------------------------------------------------
(* The page. *)

\* refreshBalance up to its await: "why" is the transfer it is to show, or 0.
StartFetch(wallet, why) ==
  /\ Len(fetches) < MaxFetches
  /\ shown' = Loading
  /\ fetches' = Append(fetches, [wallet |-> wallet, state |-> "sent", amount |-> 0,
                                  since |-> booked, books |-> 0, why |-> why])
  /\ crossed' = (crossed \/ InFlight # {})

SetActiveWallet_NoRefresh(wallet) ==
  active' = wallet /\ UNCHANGED <<shown, fetches, crossed>>

SetActiveWallet(wallet) ==
  /\ active' = wallet
  /\ StartFetch(wallet, 0)

\* init, when the wallets arrive, or do not (then the page stays as it is).
Loaded ==
  /\ boot = "loading"
  /\ boot' = "done"
  /\ SetActiveWallet(First)
  /\ UNCHANGED <<timers, worldVars, lost>>

LoadFails ==
  /\ boot = "loading"
  /\ lost < MaxLost
  /\ lost' = lost + 1
  /\ boot' = "failed"
  /\ UNCHANGED <<active, shown, fetches, timers, worldVars, crossed>>

\* The wallet selector's change event.
Select(wallet) ==
  /\ boot = "done"
  /\ wallet # active
  /\ SetActiveWallet(wallet)
  /\ UNCHANGED <<boot, timers, worldVars, lost>>

ClickRefresh_Unguarded ==
  /\ StartFetch(active, 0)
  /\ UNCHANGED <<boot, active, timers, worldVars, lost>>

\* The refresh button; without an active wallet refreshBalance returns.
ClickRefresh ==
  /\ active # None
  /\ StartFetch(active, 0)
  /\ UNCHANGED <<boot, active, timers, worldVars, lost>>

\* A transfer's answer: the refresh is put off.
TransferDone(from, to) ==
  /\ boot = "done"
  /\ Len(transfers) < MaxTransfers
  /\ transfers' = Append(transfers, [from |-> from, to |-> to])
  /\ timers' = Append(timers, Refresh)
  /\ UNCHANGED <<boot, active, shown, fetches, ledger, booked, mined, clock, lost, crossed>>

\* setTimeout's callback: timers run out in the order in which they were set.
Due == timers # <<>> /\ Head(timers) = 0
RefreshDue ==
  /\ Due
  /\ timers' = Tail(timers)
  /\ StartFetch(active, Len(transfers) - Len(timers) + 1)
  /\ UNCHANGED <<boot, active, worldVars, lost>>

\* The rest of refreshBalance: the answer is shown, whichever wallet is active.
Answered(f) ==
  /\ fetches[f].state = "read"
  /\ fetches' = [fetches EXCEPT ![f].state = "shown"]
  /\ shown' = Amount(fetches[f].wallet, fetches[f].amount, fetches[f].books)
  /\ UNCHANGED <<boot, active, timers, worldVars, lost, crossed>>

Dropped(f) ==
  /\ f \in InFlight
  /\ lost < MaxLost
  /\ lost' = lost + 1
  /\ fetches' = [fetches EXCEPT ![f].state = "lost"]
  /\ UNCHANGED <<boot, active, timers, worldVars, crossed>>

FetchFails_Uncaught(f) == Dropped(f) /\ UNCHANGED shown

\* A lost or failed answer: the catch block.
FetchFails(f) == Dropped(f) /\ shown' = Failed

-----------------------------------------------------------------------------
(* The service and the world behind it. *)

\* handleGetBalance: the ledger's balance at this moment.
Serve(f) ==
  /\ fetches[f].state = "sent"
  /\ fetches' = [fetches EXCEPT ![f].state = "read", ![f].books = booked,
                                ![f].amount = ledger[fetches[f].wallet]]
  /\ UNCHANGED <<boot, active, shown, timers, worldVars, lost, crossed>>

\* The indexer and the consumer bring the next mined transfer in.
Book ==
  /\ booked < mined
  /\ booked' = booked + 1
  /\ LET t == transfers[booked + 1]
         debited == [ledger EXCEPT ![t.from] = @ - 1]
     IN  ledger' = [debited EXCEPT ![t.to] = @ + 1]
  /\ UNCHANGED <<pageVars, transfers, mined, clock, lost, crossed>>

\* Time: a block every BlockTime ticks, booked within a tick.
Tick ==
  /\ ~Due
  /\ booked = mined
  /\ clock' = (clock + 1) % BlockTime
  /\ mined' = IF clock' = 0 THEN Len(transfers) ELSE mined
  /\ timers' = [i \in DOMAIN timers |-> timers[i] - 1]
  /\ UNCHANGED <<boot, active, shown, fetches, ledger, booked, transfers, lost, crossed>>

Next ==
  \/ Loaded
  \/ LoadFails
  \/ \E w \in Wallets : Select(w)
  \/ ClickRefresh
  \/ \E from, to \in Wallets : from # to /\ TransferDone(from, to)
  \/ RefreshDue
  \/ \E f \in DOMAIN fetches : Serve(f) \/ Answered(f) \/ FetchFails(f)
  \/ Book
  \/ Tick

Spec == Init /\ [][Next]_vars

\* The service answers every fetch.
Fairness ==
  \A f \in 1..MaxFetches : WF_vars(f \in DOMAIN fetches /\ (Serve(f) \/ Answered(f)))

LiveSpec == Spec /\ Fairness

-----------------------------------------------------------------------------
(* Types.  Only wallets are asked for; bookings follow blocks, blocks follow *)
(* transfers, and every transfer not yet refreshed has its timer.           *)
TypeOK ==
  /\ boot \in {"loading", "done", "failed"}
  /\ active \in Wallets \union {None} /\ (active \in Wallets <=> boot = "done")
  /\ shown.kind \in {"blank", "loading", "error", "amount"}
  /\ \A f \in DOMAIN fetches :
       /\ fetches[f].wallet \in Wallets
       /\ fetches[f].state \in {"sent", "read", "shown", "lost"}
       /\ fetches[f].state = "read" => fetches[f].books \in fetches[f].since..booked
  /\ Len(timers) <= Len(transfers)
  /\ \A i \in DOMAIN timers : timers[i] \in 0..Refresh
  /\ 0 <= booked /\ booked <= mined /\ mined <= Len(transfers)
  /\ ledger \in [Wallets -> Int]
  /\ crossed \in BOOLEAN

(* The box says "Loading..." only while an answer is on its way: no order    *)
(* of answers, errors and new fetches leaves it there.                       *)
LoadingIsTrue == shown = Loading => InFlight # {}

(* As long as no two fetches overlapped, an amount in the box is the active  *)
(* wallet's, and not older than the last event that refreshed the box: every *)
(* change of the wallet starts a fetch of its own.                           *)
ShowsLastRefresh ==
  ~crossed /\ shown.kind = "amount" =>
    /\ shown.wallet = active
    /\ shown.books >= fetches[Len(fetches)].since

(* "Loading..." ends, with an amount or an error. *)
LoadingEnds == shown = Loading ~> shown # Loading

-----------------------------------------------------------------------------
(* "Refresh balance after transaction (after a brief delay for ledger         *)
(* update)": the refresh that a transfer's timer starts finds it booked.      *)
RefreshSeesTransfer ==
  \A f \in DOMAIN fetches :
    fetches[f].why > 0 /\ fetches[f].state \in {"read", "shown"} =>
      fetches[f].books >= fetches[f].why
=============================================================================
