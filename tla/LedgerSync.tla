---------------------------- MODULE LedgerSync ----------------------------
(***************************************************************************)
(* The custody service's ledger, and the pipeline that keeps it up to      *)
(* date: the ledger starts from a balance snapshot per custodied address   *)
(* and from then on only follows the Transfer events the indexer publishes *)
(* over core NATS (no persistence, no acknowledgement, no replay).         *)
(*                                                                         *)
(* A message is the set of log positions of one block's events; the        *)
(* consumer processes them in log order, one NATS callback at a time.      *)
(***************************************************************************)
EXTENDS Indexer

VARIABLES
  cuState,   \* the custody process: "down", "boot", "dial" or "run"
  toSnap,    \* addresses NewCustodyService has yet to initialise
  ledger,    \* the in-memory repository; an absent address reads as 0
  inbox,     \* messages delivered to the subscription, not yet handled
  cur,       \* events of the message in the callback, not yet processed
  ev,        \* the event processEvent is working on
  step,      \* where processEvent is: "lookup", "debit" or "credit"
  known,     \* the address service's answer for the event being processed
  snapAt,    \* history: the log position at which each balance was read
  applied,   \* history: the events ever applied to a ledger, in order
  clean      \* history: a quiet start, and no fault since

custodyVars == <<cuState, toSnap, ledger, inbox, cur, ev, step, known>>
historyVars == <<snapAt, applied, clean>>
vars == <<chainVars, indexerVars, faults, custodyVars, historyVars>>

EmptyLedger == [a \in Custody |-> 0]

Event == log[ev].event

\* Mutant: the repository stores the amount instead of adding it.
UpdateBalance_Overwrites(a, amount) == [ledger EXCEPT ![a] = amount]

\* UpdateBalance: adds to what is there, negative for a debit.
UpdateBalance(a, amount) == [ledger EXCEPT ![a] = @ + amount]

SyncInit ==
  /\ ChainInit
  /\ IndexerInit
  /\ cuState = "down"
  /\ toSnap = {}
  /\ ledger = EmptyLedger
  /\ inbox = <<>>
  /\ cur = {}
  /\ ev = 0
  /\ step = "lookup"
  /\ known = {}
  /\ snapAt = [a \in Custody |-> 0]
  /\ applied = <<>>
  /\ clean = FALSE

-----------------------------------------------------------------------------
(* The chain and the indexer, seen from here. *)

Mine == ChainNext /\ UNCHANGED <<indexerVars, faults, custodyVars, historyVars>>

StartIndexer == IndexerStart /\ UNCHANGED <<custodyVars, historyVars>>

Index == IndexerStep /\ UNCHANGED <<custodyVars, snapAt, applied>>
                     /\ clean' = (clean /\ ixState' # "down")

LoseIndexer ==
  /\ IndexerExit
  /\ clean' = FALSE
  /\ UNCHANGED <<custodyVars, snapAt, applied>>

-----------------------------------------------------------------------------
(* NATS: a message reaches whoever is subscribed when it gets there. *)

Flush ==
  /\ outbuf # <<>>
  /\ outbuf' = Tail(outbuf)
  /\ inbox' = IF cuState = "run" THEN Append(inbox, Head(outbuf)) ELSE inbox
  /\ UNCHANGED <<chainVars, ixState, lastIndexed, target, indexed, faults,
                 cuState, toSnap, ledger, cur, ev, step, known,
                 historyVars>>

\* A message is lost on its way: the subscriber is reconnecting, or its
\* pending limit is exceeded.
Drop ==
  /\ outbuf # <<>>
  /\ faults < MaxFaults
  /\ faults' = faults + 1
  /\ outbuf' = Tail(outbuf)
  /\ clean' = FALSE
  /\ UNCHANGED <<chainVars, ixState, lastIndexed, target, indexed,
                 custodyVars, snapAt, applied>>

-----------------------------------------------------------------------------
(* The custody process: start, snapshot, subscription, end. *)

CustodyStart ==
  /\ cuState = "down"
  /\ cuState' = IF Custody = {} THEN "dial" ELSE "boot"
  /\ toSnap' = Custodied({})
  /\ ledger' = EmptyLedger
  /\ snapAt' = [a \in Custody |-> 0]
  /\ clean' = FALSE
  /\ UNCHANGED <<chainVars, indexerVars, faults, inbox, cur, ev, step, known,
                 applied>>

\* One turn of NewCustodyService's loop: read the balance at "latest", add
\* it to the ledger.
Snapshot(a) ==
  /\ cuState = "boot"
  /\ a \in toSnap
  /\ ledger' = UpdateBalance(a, LatestBalances[a])
  /\ snapAt' = [snapAt EXCEPT ![a] = EndOf(Tip)]
  /\ toSnap' = toSnap \ {a}
  /\ cuState' = IF toSnap = {a} THEN "dial" ELSE "boot"
  /\ UNCHANGED <<chainVars, indexerVars, faults, inbox, cur, ev, step, known,
                 applied, clean>>

\* Nothing happened between the snapshots and the subscription, and the
\* indexer has nothing left to publish from before it.
QuietStart ==
  /\ \A a \in Custody : snapAt[a] = EndOf(Tip)
  /\ ixState # "down"
  /\ lastIndexed = Tip
  /\ lastIndexed # 0
  /\ outbuf = <<>>

\* NewEventConsumer has connected; Start subscribes.
Subscribe ==
  /\ cuState = "dial"
  /\ cuState' = "run"
  /\ clean' = QuietStart
  /\ UNCHANGED <<chainVars, indexerVars, faults, toSnap, ledger, inbox, cur,
                 ev, step, known, snapAt, applied>>

\* The process ends, on a Fatal at start or a signal later: everything it
\* knew was in memory.
CustodyExit ==
  /\ cuState # "down"
  /\ faults < MaxFaults
  /\ faults' = faults + 1
  /\ cuState' = "down"
  /\ toSnap' = {}
  /\ ledger' = EmptyLedger
  /\ inbox' = <<>>
  /\ cur' = {}
  /\ ev' = 0
  /\ step' = "lookup"
  /\ known' = {}
  /\ clean' = FALSE
  /\ UNCHANGED <<chainVars, indexerVars, snapAt, applied>>

-----------------------------------------------------------------------------
(* The NATS callback. *)

Receive ==
  /\ cuState = "run"
  /\ cur = {}
  /\ inbox # <<>>
  /\ cur' = Head(inbox)
  /\ inbox' = Tail(inbox)
  /\ UNCHANGED <<chainVars, indexerVars, faults, cuState, toSnap, ledger, ev,
                 step, known, historyVars>>

\* Mutant: the events of a message are processed in any order.
Takes_Unordered(p) == step = "lookup" /\ p \in cur

\* processEvent is called with p, the next event of the message.
Takes(p) ==
  /\ step = "lookup"
  /\ p \in cur
  /\ \A q \in cur : p <= q

\* It returns at once for another token.
Ignore(p) ==
  /\ Takes(p)
  /\ log[p].event.token # USDC
  /\ cur' = cur \ {p}
  /\ UNCHANGED <<chainVars, indexerVars, faults, cuState, toSnap, ledger,
                 inbox, ev, step, known, historyVars>>

\* Else it asks the address service which of the two parties are custodied.
Lookup(p) ==
  /\ Takes(p)
  /\ log[p].event.token = USDC
  /\ ev' = p
  /\ known' = Custodied({log[p].event.from, log[p].event.to})
  /\ step' = "debit"
  /\ UNCHANGED <<chainVars, indexerVars, faults, cuState, toSnap, ledger,
                 inbox, cur, historyVars>>

\* A failed call is logged, and its empty answer used.
LookupFails(p) ==
  /\ Takes(p)
  /\ log[p].event.token = USDC
  /\ faults < MaxFaults
  /\ faults' = faults + 1
  /\ ev' = p
  /\ known' = {}
  /\ step' = "debit"
  /\ clean' = FALSE
  /\ UNCHANGED <<chainVars, indexerVars, cuState, toSnap, ledger, inbox, cur,
                 snapAt, applied>>

Debit ==
  /\ step = "debit"
  /\ step' = "credit"
  /\ ledger' = IF Event.from \in known
               THEN UpdateBalance(Event.from, - Event.amount)
               ELSE ledger
  /\ UNCHANGED <<chainVars, indexerVars, faults, cuState, toSnap, inbox, cur,
                 ev, known, historyVars>>

Credit ==
  /\ step = "credit"
  /\ step' = "lookup"
  /\ ledger' = IF Event.to \in known
               THEN UpdateBalance(Event.to, Event.amount)
               ELSE ledger
  /\ cur' = cur \ {ev}
  /\ applied' = IF known = {} THEN applied ELSE Append(applied, ev)
  /\ UNCHANGED <<chainVars, indexerVars, faults, cuState, toSnap, inbox, ev,
                 known, snapAt, clean>>

-----------------------------------------------------------------------------

Boot == CustodyStart \/ (\E a \in Custody : Snapshot(a)) \/ Subscribe

Consume ==
  \/ Receive
  \/ \E p \in cur : Ignore(p) \/ Lookup(p)
  \/ Debit
  \/ Credit

Fault ==
  \/ LoseIndexer
  \/ Drop
  \/ CustodyExit
  \/ \E p \in cur : LookupFails(p)

Next == Mine \/ StartIndexer \/ Index \/ Flush \/ Boot \/ Consume \/ Fault

Spec == SyncInit /\ [][Next]_vars

\* Blocks are sealed on a timer; the loop, the flusher and the subscription's
\* goroutine run as long as their process does; nothing restarts a process.
Fairness ==
  /\ WF_vars(SealBlock /\ UNCHANGED <<indexerVars, faults, custodyVars, historyVars>>)
  /\ WF_vars(Index)
  /\ WF_vars(Flush)
  /\ WF_vars(Boot /\ cuState # "down")
  /\ WF_vars(Consume)

FairSpec == Spec /\ Fairness
-----------------------------------------------------------------------------
(* Invariants. *)

\* The values every variable of the pipeline may take.
TypeOK ==
  /\ log \in Seq([event : Transfers, after : [Addr -> Int]])
  /\ ends \in Seq(Nat)
  /\ ixState \in {"down", "idle", "tip", "scan"}
  /\ lastIndexed \in Nat
  /\ target \in Nat
  /\ outbuf \in Seq(SUBSET Nat)
  /\ indexed \in SUBSET Nat
  /\ faults \in 0 .. MaxFaults
  /\ cuState \in {"down", "boot", "dial", "run"}
  /\ toSnap \in SUBSET Custody
  /\ ledger \in [Custody -> Int]
  /\ inbox \in Seq(SUBSET Nat)
  /\ cur \in SUBSET Nat
  /\ ev \in Nat
  /\ step \in {"lookup", "debit", "credit"}
  /\ known \in SUBSET Custody
  /\ snapAt \in [Custody -> Nat]
  /\ applied \in Seq(Nat)
  /\ clean \in BOOLEAN

\* Without a configured starting block no event is ever applied twice, and
\* none out of chain order, whatever is lost or restarted: the consumer keeps
\* no record of idempotency ids, so this rests on the indexer never
\* publishing a block again (it re-seeds from the tip).
AppliedInOrder ==
  StartingBlock = 0 =>
    \A i, j \in 1 .. Len(applied) : i < j => applied[i] < applied[j]

\* Why AppliedInOrder holds: the events in the pipeline are ordered, stage by
\* stage, and none lies beyond what the indexer has covered so far, or will
\* have covered when it seeds its progress from the tip.
Before(S, T) == \A p \in S, q \in T : p < q
BeforeAll(S, queue) == \A i \in 1 .. Len(queue) : Before(S, queue[i])
Sorted(queue) == \A i, j \in 1 .. Len(queue) : i < j => Before(queue[i], queue[j])
Within(queue, n) == \A i \in 1 .. Len(queue) : queue[i] \subseteq 1 .. n

Done == {applied[i] : i \in 1 .. Len(applied)}

Covered ==
  IF ixState \in {"down", "idle"} /\ lastIndexed = 0 THEN EndOf(Tip)
                                                    ELSE EndOf(lastIndexed)

StagesOrdered ==
  /\ \A i, j \in 1 .. Len(applied) : i < j => applied[i] < applied[j]
  /\ Before(Done, cur)
  /\ BeforeAll(Done, inbox)
  /\ BeforeAll(Done, outbuf)
  /\ step # "lookup" => \A p \in cur : ev <= p
  /\ BeforeAll(cur, inbox)
  /\ BeforeAll(cur, outbuf)
  /\ Sorted(inbox)
  /\ \A i \in 1 .. Len(inbox) : BeforeAll(inbox[i], outbuf)
  /\ Sorted(outbuf)

StagesCovered ==
  /\ lastIndexed <= Tip
  /\ Done \subseteq 1 .. Covered
  /\ cur \subseteq 1 .. Covered
  /\ Within(inbox, Covered)
  /\ Within(outbuf, Covered)

PipelineInOrder == StartingBlock = 0 => StagesOrdered /\ StagesCovered

\* With a configured starting block no block above it is ever skipped, even
\* by an indexer that crashes and restarts: what was not published is
\* published after the restart (and what was, again).
NothingSkipped ==
  StartingBlock > 0 =>
    \A h \in StartingBlock + 1 .. lastIndexed : h \in indexed

\* The consumer is between the debit and the credit of a transfer from an
\* address to itself.
InSelfTransfer(a) ==
  step = "credit" /\ Event.from = a /\ Event.to = a

\* After a quiet start, and as long as nothing fails, a balance the API
\* reports is stale at worst: the chain had it, at the snapshot or later.
\* (The debit and the credit of an event are separate critical sections of
\* the repository, which a self transfer makes visible.)
BalanceIsPast ==
  clean =>
    \A a \in Custody :
      \/ InSelfTransfer(a)
      \/ \E k \in snapAt[a] .. EndOf(Tip) : ledger[a] = BalancesAfter(k)[a]

\* Everything published is handled and nothing is left to publish.
AtRest ==
  /\ cuState = "run"
  /\ lastIndexed = Tip
  /\ outbuf = <<>>
  /\ inbox = <<>>
  /\ cur = {}

\* After a quiet start, and without a fault since, the ledger equals the
\* chain's balances whenever the pipeline is empty: the events complete the
\* snapshots exactly, none missing, none counted twice.
ExactAtRest ==
  clean /\ AtRest => \A a \in Custody : ledger[a] = LatestBalances[a]

\* What the comment on GetBalance says: the balance reported is the one read
\* from the blockchain node.  Stated only for when the pipeline is empty.
BalanceReadFromNode ==
  AtRest => \A a \in Custody : ledger[a] = LatestBalances[a]

-----------------------------------------------------------------------------
(* Refinement: the ledger is a BalanceMirror while clean. *)

\* The ledger as it will be once the event being processed is complete.
Completed ==
  IF step = "credit" /\ Event.to \in known
  THEN UpdateBalance(Event.to, Event.amount)
  ELSE ledger

\* The position the ledger stands at: the event being completed, else the
\* last one applied since the snapshots.
Position ==
  LET snapshots == {snapAt[a] : a \in Custody}
      done == {applied[i] : i \in 1 .. Len(applied)}
      current == IF step = "credit" /\ known # {} THEN {ev} ELSE {}
      all == snapshots \cup done \cup current
  IN  IF all = {} THEN 0 ELSE CHOOSE p \in all : \A q \in all : q <= p

Mirror == INSTANCE BalanceMirror WITH live <- clean, at <- Position, view <- Completed

\* After a quiet start, and as long as nothing fails, the ledger (with the
\* event in progress completed) moves only forward through the balances the
\* chain went through: it implements the abstract replica.
MirrorsChain == Mirror!MirrorSpec

-----------------------------------------------------------------------------
(* Liveness. *)

\* The custodied USDC events after the snapshots, which the ledger is owed.
Owed(p) ==
  /\ p \in 1 .. EndOf(Tip)
  /\ log[p].event.token = USDC
  /\ {log[p].event.from, log[p].event.to} \cap Custody # {}
  /\ \A a \in Custody : snapAt[a] < p

\* After a quiet start every sealed transfer of a custodied address is
\* applied in the end, unless something fails first: the ticker, the write
\* buffer and the callback keep the pipeline moving without acknowledgement.
EventuallyApplied ==
  \A p \in 1 .. MaxEvents :
    clean /\ Owed(p) ~> ~ clean \/ \E i \in 1 .. Len(applied) : applied[i] = p
=============================================================================
