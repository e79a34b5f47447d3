------------------------- MODULE BalanceViewProofs -------------------------
(***************************************************************************)
(* The balance box, for every set of wallets, every delay and every block  *)
(* time: its types, that it says "Loading..." only while an answer is on   *)
(* its way, and that without overlapping fetches it shows the active       *)
(* wallet as of the last refresh.                                          *)
(***************************************************************************)
EXTENDS BalanceView, SequenceTheorems, TLAPS

Fetch == [wallet : Wallets, state : {"sent", "read", "shown", "lost"},
          amount : Int, since : Nat, books : Nat, why : Nat]

\* The variables as sets of values.
Shapes ==
  /\ boot \in {"loading", "done", "failed"}
  /\ active \in Wallets \cup {None}
  /\ active \in Wallets <=> boot = "done"
  /\ shown.kind \in {"blank", "loading", "error", "amount"}
  /\ fetches \in Seq(Fetch)
  /\ timers \in Seq(0 .. Refresh)
  /\ transfers \in Seq([from : Wallets, to : Wallets])
  /\ booked \in Nat /\ mined \in Nat /\ clock \in Nat /\ lost \in Nat
  /\ ledger \in [Wallets -> Int]
  /\ crossed \in BOOLEAN

\* Timers run out in the order in which they were set.
InTurn == \A i, j \in 1 .. Len(timers) : i < j => timers[i] <= timers[j]

\* Bookings follow blocks, blocks follow transfers, and transfers need a
\* loaded page; a fetch is served from books that only grow.
Follows ==
  /\ booked <= mined /\ mined <= Len(transfers)
  /\ Len(timers) <= Len(transfers)
  /\ transfers # <<>> => boot = "done"
  /\ \A f \in 1 .. Len(fetches) :
       /\ fetches[f].since <= booked
       /\ fetches[f].state = "read" => fetches[f].books \in fetches[f].since .. booked

\* Without an overlap only the last fetch, for the active wallet, is in flight.
LastOnly ==
  ~ crossed =>
    /\ InFlight \subseteq {Len(fetches)}
    /\ fetches # <<>> => fetches[Len(fetches)].wallet = active

ViewInv ==
  Shapes /\ InTurn /\ Follows /\ LastOnly /\ LoadingIsTrue /\ ShowsLastRefresh

-----------------------------------------------------------------------------

LEMMA ViewInit == Init => ViewInv
<1> SUFFICES ASSUME Init PROVE ViewInv
  OBVIOUS
<1> USE DEF Init
<1>1. /\ fetches = <<>> /\ timers = <<>> /\ transfers = <<>>
      /\ Len(fetches) = 0 /\ Len(timers) = 0 /\ Len(transfers) = 0
      /\ shown.kind = "blank" /\ shown # Loading
  BY DEF Blank, Loading
<1>2. Shapes
  <2>1. MaxTransfers \in Nat
    BY ViewAssumption
  <2>2. /\ fetches \in Seq(Fetch) /\ timers \in Seq(0 .. Refresh)
        /\ transfers \in Seq([from : Wallets, to : Wallets])
    BY <1>1
  <2>3. ledger \in [Wallets -> Int] /\ lost \in Nat /\ clock \in Nat
    BY <2>1
  <2>4. active \in Wallets \cup {None} /\ ~ (active \in Wallets)
    BY ViewAssumption
  <2> QED
    BY <1>1, <2>2, <2>3, <2>4 DEF Shapes
<1>3. InTurn /\ Follows
  BY <1>1 DEF InTurn, Follows
<1>4. InFlight = {}
  BY <1>1 DEF InFlight
<1> QED
  BY <1>1, <1>2, <1>3, <1>4 DEF ViewInv, LastOnly, LoadingIsTrue, ShowsLastRefresh

\* A fetch for the wallet that is active from now on.
LEMMA ViewFetch ==
  ASSUME ViewInv, NEW w \in Wallets, NEW why \in Nat, StartFetch(w, why),
         active' = w, boot' = "done", Shapes', InTurn', booked' = booked,
         mined' = mined, transfers' = transfers, Len(timers') <= Len(timers)
  PROVE  ViewInv'
<1> USE DEF ViewInv
<1> DEFINE n == Len(fetches)
           new == [wallet |-> w, state |-> "sent", amount |-> 0, since |-> booked,
                   books |-> 0, why |-> why]
<1>1. /\ fetches \in Seq(Fetch) /\ new \in Fetch /\ n \in Nat
      /\ booked \in Nat /\ crossed \in BOOLEAN
      /\ Len(timers) \in Nat /\ Len(timers') \in Nat /\ Len(transfers) \in Nat
  BY DEF Shapes, Fetch
<1>2. fetches' = Append(fetches, new) /\ shown' = Loading
      /\ crossed' = (crossed \/ InFlight # {})
  BY DEF StartFetch
<1>3. /\ Len(fetches') = n + 1 /\ DOMAIN fetches' = 1 .. n + 1 /\ DOMAIN fetches = 1 .. n
      /\ \A f \in 1 .. n : fetches'[f] = fetches[f]
      /\ fetches'[n + 1] = new
  BY <1>1, <1>2, AppendProperties
<1>4. new.state = "sent" /\ new.wallet = w /\ new.since = booked
  OBVIOUS
<1> HIDE DEF new
<1>5. /\ n + 1 \in InFlight'
      /\ InFlight' \subseteq InFlight \cup {n + 1}
  BY <1>1, <1>3, <1>4 DEF InFlight
<1>6. Follows'
  BY <1>1, <1>3, <1>4 DEF Follows
<1>7. LastOnly'
  <2> SUFFICES ASSUME ~ crossed'
               PROVE  /\ InFlight' \subseteq {Len(fetches')}
                      /\ fetches'[Len(fetches')].wallet = active'
    BY DEF LastOnly
  <2>1. InFlight = {}
    BY <1>1, <1>2
  <2> QED
    BY <1>3, <1>4, <1>5, <2>1
<1>8. shown'.kind = "loading"
  BY <1>2 DEF Loading
<1>9. LoadingIsTrue' /\ ShowsLastRefresh'
  BY <1>5, <1>8 DEF LoadingIsTrue, ShowsLastRefresh
<1> QED
  BY <1>6, <1>7, <1>9

LEMMA FetchShapes ==
  ASSUME ViewInv, NEW w \in Wallets, NEW why \in Nat, StartFetch(w, why),
         active' = w, boot' = "done", timers' \in Seq(0 .. Refresh),
         UNCHANGED <<worldVars, lost>>
  PROVE  Shapes'
<1>1. [wallet |-> w, state |-> "sent", amount |-> 0, since |-> booked,
       books |-> 0, why |-> why] \in Fetch
  BY DEF ViewInv, Shapes, Fetch
<1>2. fetches' \in Seq(Fetch)
  BY <1>1 DEF ViewInv, Shapes, StartFetch
<1>3. shown'.kind = "loading"
  BY DEF StartFetch, Loading
<1>4. crossed' \in BOOLEAN
  BY DEF StartFetch, ViewInv, Shapes
<1> QED
  BY <1>2, <1>3, <1>4 DEF ViewInv, Shapes, worldVars

\* The events that refresh the box.
LEMMA ViewRefresh ==
  ASSUME ViewInv,
         Loaded \/ (\E w \in Wallets : Select(w)) \/ ClickRefresh \/ RefreshDue
  PROVE  ViewInv'
<1> USE DEF ViewInv
<1>1. ASSUME NEW w \in Wallets, StartFetch(w, 0), active' = w, boot' = "done",
             UNCHANGED <<timers, worldVars, lost>>
      PROVE  ViewInv'
  <2>1. /\ timers' \in Seq(0 .. Refresh) /\ InTurn'
        /\ booked' = booked /\ mined' = mined /\ transfers' = transfers
        /\ Len(timers') <= Len(timers)
    BY <1>1 DEF Shapes, InTurn, worldVars
  <2>2. Shapes'
    BY <1>1, <2>1, FetchShapes
  <2> QED
    BY <1>1, <2>1, <2>2, ViewFetch
<1>2. CASE Loaded
  BY <1>1, <1>2, ViewAssumption DEF Loaded, SetActiveWallet
<1>3. ASSUME NEW w \in Wallets, Select(w) PROVE ViewInv'
  BY <1>1, <1>3 DEF Select, SetActiveWallet
<1>4. CASE ClickRefresh
  BY <1>1, <1>4 DEF ClickRefresh, Shapes
<1>5. CASE RefreshDue
  <2>1. /\ timers # <<>> /\ timers' = Tail(timers)
        /\ StartFetch(active, Len(transfers) - Len(timers) + 1)
        /\ UNCHANGED <<boot, active, worldVars, lost>>
        /\ timers \in Seq(0 .. Refresh)
    BY <1>5 DEF RefreshDue, Due, Shapes
  <2>2. /\ Len(timers') = Len(timers) - 1 /\ Len(timers) \in Nat \ {0}
        /\ \A i \in 1 .. Len(timers') : timers'[i] = timers[i + 1]
        /\ timers' \in Seq(0 .. Refresh)
    BY <2>1, HeadTailProperties
  <2>3. transfers # <<>> /\ Len(transfers) - Len(timers) + 1 \in Nat
    BY <2>2 DEF Follows, Shapes
  <2>4. active \in Wallets /\ boot' = "done" /\ active' = active
    BY <2>1, <2>3 DEF Follows, Shapes
  <2>5. InTurn'
    BY <2>2 DEF InTurn
  <2>6. Shapes'
    BY <2>1, <2>2, <2>3, <2>4, FetchShapes
  <2> QED
    BY <2>1, <2>2, <2>3, <2>4, <2>5, <2>6, ViewFetch DEF worldVars
<1> QED
  BY <1>2, <1>3, <1>4, <1>5
\* The answer to a fetch, or its loss, is shown.
LEMMA ViewAnswer ==
  ASSUME ViewInv, NEW f \in DOMAIN fetches, Answered(f) \/ FetchFails(f)
  PROVE  ViewInv'
<1> USE DEF ViewInv
<1>1. /\ fetches \in Seq(Fetch) /\ f \in 1 .. Len(fetches) /\ fetches[f] \in Fetch
      /\ Len(fetches) \in Nat
  BY DEF Shapes
<1>2. PICK st \in {"shown", "lost"} : fetches' = [fetches EXCEPT ![f].state = st]
  BY DEF Answered, FetchFails, Dropped
<1>3. /\ f \in InFlight /\ lost' \in Nat /\ fetches' \in Seq(Fetch)
      /\ UNCHANGED <<boot, active, timers, worldVars, crossed>>
      /\ UNCHANGED <<ledger, booked, transfers, mined, clock>>
  <2>1. [fetches[f] EXCEPT !.state = st] \in Fetch
    BY <1>1 DEF Fetch
  <2>2. fetches' \in Seq(Fetch)
    BY <1>1, <1>2, <2>1
  <2> QED
    BY <1>1, <2>2 DEF Answered, FetchFails, Dropped, InFlight, worldVars, Shapes
<1>4. /\ Len(fetches') = Len(fetches) /\ DOMAIN fetches' = DOMAIN fetches
      /\ fetches'[f].state = st
      /\ \A g \in 1 .. Len(fetches) :
           /\ fetches'[g].wallet = fetches[g].wallet /\ fetches'[g].since = fetches[g].since
           /\ fetches'[g].books = fetches[g].books
           /\ g # f => fetches'[g] = fetches[g]
  <2>1. fetches[f].wallet = fetches'[f].wallet /\ fetches[f].since = fetches'[f].since
        /\ fetches'[f].books = fetches[f].books /\ fetches'[f].state = st
    BY <1>1, <1>2 DEF Fetch
  <2> QED
    BY <1>1, <1>2, <2>1
<1>5. InFlight' = InFlight \ {f}
  BY <1>1, <1>4 DEF InFlight
<1>6. /\ shown' # Loading /\ shown'.kind \in {"amount", "error"}
      /\ shown'.kind = "amount" =>
           /\ fetches[f].state = "read"
           /\ shown'.wallet = fetches[f].wallet /\ shown'.books = fetches[f].books
  BY DEF Answered, FetchFails, Amount, Failed, Loading
<1>7. Shapes' /\ InTurn'
  BY <1>3, <1>6 DEF Shapes, InTurn
<1>8. Follows'
  BY <1>1, <1>3, <1>4 DEF Follows
<1>9. fetches # <<>> /\ fetches' # <<>>
  BY <1>1, <1>4
<1>10. LastOnly'
  BY <1>1, <1>3, <1>4, <1>5, <1>9 DEF LastOnly
<1>11. LoadingIsTrue'
  BY <1>6 DEF LoadingIsTrue
<1>12. ShowsLastRefresh'
  <2> SUFFICES ASSUME ~ crossed', shown'.kind = "amount"
               PROVE  shown'.wallet = active'
                      /\ shown'.books >= fetches'[Len(fetches')].since
    BY DEF ShowsLastRefresh
  <2>1. f = Len(fetches) /\ fetches[f].wallet = active
    BY <1>3, <1>9 DEF LastOnly
  <2>2. fetches[f].books >= fetches[f].since
    BY <1>1, <1>6 DEF Follows
  <2>3. fetches'[Len(fetches')].since = fetches[f].since /\ active' = active
    BY <1>1, <1>3, <1>4, <2>1
  <2> QED
    BY <1>6, <2>1, <2>2, <2>3
<1> QED
  BY <1>7, <1>8, <1>10, <1>11, <1>12

LEMMA ViewServe ==
  ASSUME ViewInv, NEW f \in DOMAIN fetches, Serve(f)
  PROVE  ViewInv'
<1> USE DEF ViewInv
<1>1. /\ fetches \in Seq(Fetch) /\ f \in 1 .. Len(fetches) /\ fetches[f] \in Fetch
      /\ Len(fetches) \in Nat /\ booked \in Nat
  BY DEF Shapes
<1>2. /\ fetches[f].state = "sent"
      /\ fetches' = [fetches EXCEPT ![f] =
           [fetches[f] EXCEPT !.state = "read", !.books = booked,
                              !.amount = ledger[fetches[f].wallet]]]
      /\ UNCHANGED <<boot, active, shown, timers, worldVars, lost, crossed>>
      /\ UNCHANGED <<ledger, booked, transfers, mined, clock>>
  BY <1>1 DEF Serve, worldVars
<1>3. fetches' \in Seq(Fetch)
  <2>1. ledger[fetches[f].wallet] \in Int
    BY <1>1 DEF Shapes, Fetch
  <2>2. [fetches[f] EXCEPT !.state = "read", !.books = booked,
                           !.amount = ledger[fetches[f].wallet]] \in Fetch
    BY <1>1, <2>1 DEF Fetch
  <2> QED
    BY <1>1, <1>2, <2>2
<1>4. /\ Len(fetches') = Len(fetches) /\ DOMAIN fetches' = DOMAIN fetches
      /\ fetches'[f].state = "read" /\ fetches'[f].books = booked
      /\ \A g \in 1 .. Len(fetches) :
           /\ fetches'[g].wallet = fetches[g].wallet /\ fetches'[g].since = fetches[g].since
           /\ g # f => fetches'[g] = fetches[g]
  <2>1. /\ fetches'[f].wallet = fetches[f].wallet /\ fetches'[f].since = fetches[f].since
        /\ fetches'[f].books = booked /\ fetches'[f].state = "read"
    BY <1>1, <1>2 DEF Fetch
  <2> QED
    BY <1>1, <1>2, <2>1
<1>5. InFlight' = InFlight
  BY <1>1, <1>2, <1>4 DEF InFlight
<1>6. Shapes' /\ InTurn'
  BY <1>2, <1>3 DEF Shapes, InTurn
<1>7. Follows'
  <2>1. fetches[f].since \in Nat /\ fetches[f].since <= booked
    BY <1>1 DEF Follows, Fetch
  <2> QED
    BY <1>1, <1>2, <1>4, <2>1 DEF Follows
<1>8. fetches # <<>> /\ Len(fetches) \in 1 .. Len(fetches)
  BY <1>1
<1>9. LastOnly' /\ LoadingIsTrue' /\ ShowsLastRefresh'
  BY <1>2, <1>4, <1>5, <1>8 DEF LastOnly, LoadingIsTrue, ShowsLastRefresh
<1> QED
  BY <1>6, <1>7, <1>9

\* The failed load, the transfers, the blocks and the bookings leave the box
\* and the fetches alone.
LEMMA ViewWorld ==
  ASSUME ViewInv,
         \/ LoadFails \/ Book \/ Tick
         \/ \E from, to \in Wallets : TransferDone(from, to)
  PROVE  ViewInv'
<1> USE DEF ViewInv
<1>1. UNCHANGED <<active, shown, fetches, crossed>>
  BY DEF LoadFails, Book, Tick, TransferDone, pageVars
<1>2. LastOnly' /\ LoadingIsTrue' /\ ShowsLastRefresh'
  BY <1>1 DEF LastOnly, LoadingIsTrue, ShowsLastRefresh, InFlight
<1>3. CASE LoadFails
  <2>1. /\ boot = "loading" /\ boot' = "failed" /\ lost' = lost + 1
        /\ UNCHANGED <<timers, ledger, booked, transfers, mined, clock>>
    BY <1>3 DEF LoadFails, worldVars
  <2>2. Shapes' /\ InTurn'
    BY <1>1, <2>1 DEF Shapes, InTurn
  <2>3. Follows'
    BY <1>1, <2>1 DEF Follows
  <2> QED
    BY <1>2, <2>2, <2>3
<1>4. CASE Book
  <2>1. /\ booked < mined /\ booked' = booked + 1
        /\ UNCHANGED <<boot, timers, transfers, mined, clock, lost>>
        /\ ledger' = [[ledger EXCEPT ![transfers[booked + 1].from] = @ - 1]
                        EXCEPT ![transfers[booked + 1].to] = @ + 1]
    BY <1>4 DEF Book, pageVars
  <2>2. /\ booked + 1 \in 1 .. Len(transfers) /\ booked \in Nat /\ mined \in Nat
        /\ transfers \in Seq([from : Wallets, to : Wallets])
    <3>1. /\ booked \in Nat /\ mined \in Nat /\ Len(transfers) \in Nat
          /\ transfers \in Seq([from : Wallets, to : Wallets])
      BY DEF Shapes
    <3>2. mined <= Len(transfers)
      BY DEF Follows
    <3> QED
      BY <2>1, <3>1, <3>2
  <2>3. transfers[booked + 1] \in [from : Wallets, to : Wallets]
    BY <2>2, ElementOfSeq
  <2>4. ledger' \in [Wallets -> Int]
    <3>1. [ledger EXCEPT ![transfers[booked + 1].from] = @ - 1] \in [Wallets -> Int]
      BY <2>3 DEF Shapes
    <3> QED
      BY <2>1, <2>3, <3>1
  <2>5. Shapes' /\ InTurn'
    BY <1>1, <2>1, <2>2, <2>4 DEF Shapes, InTurn
  <2>6. Follows'
    <3>1. \A f \in 1 .. Len(fetches) : fetches[f].since \in Nat /\ fetches[f].books \in Nat
      <4>1. fetches \in Seq(Fetch)
        BY DEF Shapes
      <4>2. \A f \in 1 .. Len(fetches) : fetches[f] \in Fetch
        BY <4>1, ElementOfSeq
      <4> QED
        BY <4>2 DEF Fetch
    <3>2. \A f \in 1 .. Len(fetches) :
            /\ fetches[f].since <= booked + 1
            /\ fetches[f].state = "read" => fetches[f].books \in fetches[f].since .. booked + 1
      BY <2>2, <3>1 DEF Follows
    <3> QED
      BY <1>1, <2>1, <2>2, <3>2 DEF Follows
  <2> QED
    BY <1>2, <2>5, <2>6
<1>5. CASE Tick
  <2>1. /\ ~ Due /\ clock' = (clock + 1) % BlockTime
        /\ mined' = IF clock' = 0 THEN Len(transfers) ELSE mined
        /\ timers' = [i \in DOMAIN timers |-> timers[i] - 1]
        /\ UNCHANGED <<boot, ledger, booked, transfers, lost>>
    BY <1>5 DEF Tick
  <2>2. /\ timers \in Seq(0 .. Refresh) /\ Len(timers) \in Nat /\ Refresh \in Nat
        /\ DOMAIN timers = 1 .. Len(timers)
        /\ \A i \in 1 .. Len(timers) : timers[i] \in 0 .. Refresh
    BY ViewAssumption DEF Shapes
  <2>3. \A i \in 1 .. Len(timers) : timers[i] # 0
    <3>1. SUFFICES ASSUME NEW i \in 1 .. Len(timers) PROVE timers[i] # 0
      OBVIOUS
    <3>2. timers # <<>> /\ Head(timers) = timers[1] /\ 1 \in 1 .. Len(timers)
      BY <2>2, <3>1, HeadTailProperties
    <3>3. timers[1] # 0 /\ timers[1] <= timers[i]
      BY <2>1, <2>2, <3>1, <3>2 DEF Due, InTurn
    <3> QED
      BY <2>2, <3>1, <3>2, <3>3
  <2>4. \A i \in 1 .. Len(timers) : timers[i] - 1 \in 0 .. Refresh
    BY <2>2, <2>3
  <2>5. /\ timers' \in Seq(0 .. Refresh) /\ Len(timers') = Len(timers)
        /\ \A i \in 1 .. Len(timers) : timers'[i] = timers[i] - 1
    BY <2>1, <2>2, <2>4
  <2>6. InTurn'
    BY <2>2, <2>5 DEF InTurn
  <2>7. clock' \in Nat /\ mined' \in Nat /\ mined <= mined' /\ mined' <= Len(transfers)
    BY <2>1, ViewAssumption DEF Shapes, Follows
  <2>8. Shapes'
    BY <1>1, <2>1, <2>5, <2>7 DEF Shapes
  <2>9. Follows'
    BY <1>1, <2>1, <2>5, <2>7 DEF Follows, Shapes
  <2> QED
    BY <1>2, <2>6, <2>8, <2>9
<1>6. ASSUME NEW from \in Wallets, NEW to \in Wallets, TransferDone(from, to)
      PROVE  ViewInv'
  <2>1. /\ boot = "done" /\ transfers' = Append(transfers, [from |-> from, to |-> to])
        /\ timers' = Append(timers, Refresh)
        /\ UNCHANGED <<boot, ledger, booked, mined, clock, lost>>
    BY <1>6 DEF TransferDone
  <2>2. /\ timers \in Seq(0 .. Refresh) /\ Len(timers) \in Nat /\ Refresh \in 0 .. Refresh
        /\ transfers \in Seq([from : Wallets, to : Wallets]) /\ Len(transfers) \in Nat
        /\ \A i \in 1 .. Len(timers) : timers[i] \in 0 .. Refresh
    BY ViewAssumption DEF Shapes
  <2>3. /\ timers' \in Seq(0 .. Refresh) /\ Len(timers') = Len(timers) + 1
        /\ \A i \in 1 .. Len(timers) : timers'[i] = timers[i]
        /\ timers'[Len(timers) + 1] = Refresh
    BY <2>1, <2>2, AppendProperties
  <2>4. /\ transfers' \in Seq([from : Wallets, to : Wallets])
        /\ Len(transfers') = Len(transfers) + 1
    BY <2>1, <2>2, AppendProperties
  <2>5. InTurn'
    <3> SUFFICES ASSUME NEW i \in 1 .. Len(timers'), NEW j \in 1 .. Len(timers'), i < j
                 PROVE  timers'[i] <= timers'[j]
      BY DEF InTurn
    <3>1. i \in 1 .. Len(timers)
      BY <2>2, <2>3
    <3>2. CASE j \in 1 .. Len(timers)
      BY <2>3, <3>1, <3>2 DEF InTurn
    <3>3. CASE j = Len(timers) + 1
      BY <2>2, <2>3, <3>1, <3>3
    <3>4. j \in 1 .. Len(timers) \/ j = Len(timers) + 1
      <4>1. Len(timers) \in Nat /\ j \in 1 .. Len(timers) + 1
        BY <2>2, <2>3
      <4> QED
        BY <4>1
    <3> QED
      BY <3>2, <3>3, <3>4
  <2>6. Shapes'
    BY <1>1, <2>1, <2>3, <2>4 DEF Shapes
  <2>7. Follows'
    BY <1>1, <2>1, <2>2, <2>3, <2>4 DEF Follows, Shapes
  <2> QED
    BY <1>2, <2>5, <2>6, <2>7
<1> QED
  BY <1>3, <1>4, <1>5, <1>6

-----------------------------------------------------------------------------

LEMMA ViewStep == ViewInv /\ [Next]_vars => ViewInv'
<1> SUFFICES ASSUME ViewInv, [Next]_vars PROVE ViewInv'
  OBVIOUS
<1>1. CASE UNCHANGED vars
  BY <1>1 DEF vars, pageVars, worldVars, ViewInv, Shapes, InTurn, Follows, LastOnly,
       LoadingIsTrue, ShowsLastRefresh, InFlight
<1>2. CASE Next
  BY <1>2, ViewRefresh, ViewAnswer, ViewServe, ViewWorld DEF Next
<1> QED
  BY <1>1, <1>2

LEMMA ViewInvariant == Spec => []ViewInv
BY ViewInit, ViewStep, PTL DEF Spec

\* Only wallets are asked for; bookings follow blocks, blocks follow
\* transfers, and every transfer not yet refreshed has its timer.
THEOREM ViewTypeCorrect == Spec => []TypeOK
<1>1. ViewInv => TypeOK
  <2> SUFFICES ASSUME ViewInv PROVE TypeOK
    OBVIOUS
  <2> USE DEF ViewInv
  <2>1. \A f \in DOMAIN fetches : f \in 1 .. Len(fetches) /\ fetches[f] \in Fetch
    <3>1. fetches \in Seq(Fetch)
      BY DEF Shapes
    <3>2. DOMAIN fetches = 1 .. Len(fetches)
      BY <3>1
    <3> QED
      BY <3>1, <3>2, ElementOfSeq
  <2>2. \A i \in DOMAIN timers : timers[i] \in 0 .. Refresh
    <3>1. timers \in Seq(0 .. Refresh)
      BY DEF Shapes
    <3>2. DOMAIN timers = 1 .. Len(timers)
      BY <3>1
    <3> QED
      BY <3>1, <3>2, ElementOfSeq
  <2>3. 0 <= booked
    BY DEF Shapes
  <2> QED
    BY <2>1, <2>2, <2>3 DEF Shapes, Follows, Fetch, TypeOK
<1> QED
  BY <1>1, ViewInvariant, PTL

\* The box says "Loading..." only while an answer is on its way: no order of
\* answers, errors and new fetches leaves it there.
THEOREM LoadingStaysTrue == Spec => []LoadingIsTrue
<1>1. ViewInv => LoadingIsTrue
  BY DEF ViewInv
<1> QED
  BY <1>1, ViewInvariant, PTL

\* As long as no two fetches overlapped, an amount in the box is the active
\* wallet's, and not older than the last event that refreshed the box.
THEOREM LastRefreshShown == Spec => []ShowsLastRefresh
<1>1. ViewInv => ShowsLastRefresh
  BY DEF ViewInv
<1> QED
  BY <1>1, ViewInvariant, PTL
=============================================================================
