-------------------------- MODULE LedgerSyncProofs --------------------------
(***************************************************************************)
(* The types of LedgerSync, for every instance; and that no event is       *)
(* applied twice or out of chain order, for every instance without a       *)
(* configured starting block, whatever is lost and whoever crashes and     *)
(* restarts.                                                               *)
(***************************************************************************)
EXTENDS LedgerSync, SequenceTheorems, TLAPS

Entry == [event : Transfers, after : [Addr -> Int]]

\* The blocks are consecutive segments of the log.
ChainOK ==
  /\ \A h \in 1 .. Len(ends) : ends[h] <= Len(log)
  /\ \A g, h \in 1 .. Len(ends) : g <= h => ends[g] <= ends[h]

\* A scan stays below the tip it was started with.
ScanOK == ixState = "scan" => lastIndexed < target /\ target <= Tip

\* Everything in the pipeline is a position of the log.
PositionsOK ==
  /\ Within(outbuf, Len(log))
  /\ Within(inbox, Len(log))
  /\ cur \subseteq 1 .. Len(log)
  /\ step # "lookup" => ev \in cur

TypeInv == TypeOK /\ ChainOK /\ ScanOK /\ PositionsOK

-----------------------------------------------------------------------------
(* Queues. *)

LEMMA WithinEmpty == \A n : <<>> \in Seq(SUBSET Nat) /\ Within(<<>>, n)
BY DEF Within

\* Adding a message about the first n events, and taking the first away.
LEMMA WithinAppend ==
  ASSUME NEW q \in Seq(SUBSET Nat), NEW n \in Nat, Within(q, n),
         NEW S, S \subseteq 1 .. n
  PROVE  Append(q, S) \in Seq(SUBSET Nat) /\ Within(Append(q, S), n)
<1>1. S \in SUBSET Nat
  OBVIOUS
<1>2. /\ Append(q, S) \in Seq(SUBSET Nat)
      /\ Len(Append(q, S)) = Len(q) + 1
      /\ \A i \in 1 .. Len(q) : Append(q, S)[i] = q[i]
      /\ Append(q, S)[Len(q) + 1] = S
  BY <1>1, AppendProperties
<1>3. ASSUME NEW i \in 1 .. Len(Append(q, S)) PROVE Append(q, S)[i] \subseteq 1 .. n
  <2>1. CASE i \in 1 .. Len(q)
    BY <1>2, <2>1 DEF Within
  <2>2. CASE i = Len(q) + 1
    BY <1>2, <2>2
  <2> QED
    BY <1>2, <1>3, <2>1, <2>2
<1> QED
  BY <1>2, <1>3 DEF Within

LEMMA WithinTail ==
  ASSUME NEW q \in Seq(SUBSET Nat), q # <<>>, NEW n \in Nat, Within(q, n)
  PROVE  /\ Tail(q) \in Seq(SUBSET Nat)
         /\ Within(Tail(q), n)
         /\ Head(q) \subseteq 1 .. n
<1>1. /\ Head(q) = q[1] /\ 1 \in 1 .. Len(q)
      /\ Tail(q) \in Seq(SUBSET Nat)
      /\ Len(Tail(q)) = Len(q) - 1
      /\ \A i \in 1 .. Len(Tail(q)) : Tail(q)[i] = q[i + 1]
  BY HeadTailProperties
<1>2. \A i \in 1 .. Len(Tail(q)) : i + 1 \in 1 .. Len(q)
  BY <1>1
<1> QED
  BY <1>1, <1>2 DEF Within

\* A longer log admits every queue the shorter one did.
LEMMA WithinLonger ==
  ASSUME NEW q, NEW m \in Nat, NEW n \in Nat, m <= n, Within(q, m)
  PROVE  Within(q, n)
BY DEF Within

-----------------------------------------------------------------------------
(* The chain. *)

LEMMA EndOfTyped ==
  ASSUME log \in Seq(Entry), ends \in Seq(Nat), ChainOK,
         NEW h \in 0 .. Tip
  PROVE  EndOf(h) \in 0 .. Len(log)
BY DEF EndOf, ChainOK, Tip

\* The block heights are ordered as the positions their blocks end at.
LEMMA EndOfMonotone ==
  ASSUME log \in Seq(Entry), ends \in Seq(Nat), ChainOK,
         NEW g \in 0 .. Tip, NEW h \in g .. Tip
  PROVE  EndOf(g) <= EndOf(h)
BY EndOfTyped DEF EndOf, ChainOK, Tip

LEMMA BalancesTyped ==
  ASSUME log \in Seq(Entry), NEW n \in 0 .. Len(log)
  PROVE  BalancesAfter(n) \in [Addr -> Int]
<1>1. CASE n = 0
  BY <1>1, ChainAssumption DEF BalancesAfter
<1>2. CASE n # 0
  <2>1. log[n] \in Entry
    BY <1>2, ElementOfSeq
  <2> QED
    BY <1>2, <2>1 DEF BalancesAfter, Entry
<1> QED
  BY <1>1, <1>2

LEMMA SettleTyped ==
  ASSUME NEW bal \in [Addr -> Int], NEW t \in Transfers
  PROVE  Settle(bal, t) \in [Addr -> Int]
<1>1. t.from \in Addr /\ t.to \in Addr /\ t.amount \in Nat
  BY ChainAssumption
<1> QED
  BY <1>1 DEF Settle

\* The log only grows, and the sealed blocks stay as they are.
LEMMA ChainStep ==
  ASSUME log \in Seq(Entry), ends \in Seq(Nat), ChainOK, ChainNext
  PROVE  /\ log' \in Seq(Entry)
         /\ ends' \in Seq(Nat)
         /\ ChainOK'
         /\ Len(log) <= Len(log')
         /\ Tip <= Tip'
         /\ \A p \in 1 .. Len(log) : log'[p] = log[p]
         /\ \A h \in 0 .. Tip : EndOf(h)' = EndOf(h)
<1> DEFINE Goal == /\ log' \in Seq(Entry)
                   /\ ends' \in Seq(Nat)
                   /\ ChainOK'
                   /\ Len(log) <= Len(log')
                   /\ Tip <= Tip'
                   /\ \A p \in 1 .. Len(log) : log'[p] = log[p]
                   /\ \A h \in 0 .. Tip : EndOf(h)' = EndOf(h)
<1>1. ASSUME SealBlock PROVE Goal
  <2>1. ends' = Append(ends, Len(log)) /\ log' = log
    BY <1>1 DEF SealBlock
  <2>2. ends' \in Seq(Nat) /\ Len(ends') = Len(ends) + 1
    BY <2>1
  <2>3. /\ \A h \in 1 .. Len(ends) : ends'[h] = ends[h]
        /\ ends'[Len(ends) + 1] = Len(log)
    BY <2>1
  <2>4. ChainOK'
    BY <2>1, <2>2, <2>3 DEF ChainOK
  <2> QED
    BY <2>1, <2>2, <2>3, <2>4 DEF Tip, EndOf
<1>2. ASSUME NEW t \in Transfers, ExecTx(t) PROVE Goal
  <2> DEFINE e == [event |-> t,
                   after |-> IF t.token = USDC THEN Settle(BalancesAfter(Len(log)), t)
                                               ELSE BalancesAfter(Len(log))]
  <2>1. BalancesAfter(Len(log)) \in [Addr -> Int]
    BY BalancesTyped
  <2>2. e \in Entry
    BY <2>1, SettleTyped DEF Entry
  <2>3. log' = Append(log, e) /\ ends' = ends
    BY <1>2 DEF ExecTx
  <2> HIDE DEF e
  <2> QED
    BY <2>2, <2>3 DEF ChainOK, Tip, EndOf
<1> QED
  BY <1>1, <1>2 DEF ChainNext

\* The events GetBlockEvents returns lie in the block it is asked for.
LEMMA BlockEventsPlaced ==
  ASSUME log \in Seq(Entry), ends \in Seq(Nat), ChainOK, NEW h \in 1 .. Tip
  PROVE  /\ BlockEvents(h) \subseteq 1 .. Len(log)
         /\ \A p \in BlockEvents(h) : EndOf(h - 1) < p /\ p <= EndOf(h)
<1>1. EndOf(h) \in 0 .. Len(log)
  BY EndOfTyped
<1> QED
  BY <1>1 DEF BlockEvents, Block

-----------------------------------------------------------------------------
(* The type invariant, action by action. *)

LEMMA TypeInit == SyncInit => TypeInv
<1> SUFFICES ASSUME SyncInit PROVE TypeInv
  OBVIOUS
<1> USE DEF SyncInit, ChainInit, IndexerInit
<1>1. /\ ledger \in [Custody -> Int]
      /\ snapAt \in [Custody -> Nat]
  BY DEF EmptyLedger
<1>2. /\ log \in Seq([event : Transfers, after : [Addr -> Int]])
      /\ ends \in Seq(Nat) /\ applied \in Seq(Nat)
      /\ Len(ends) = 0
  BY EmptySeq
<1>3. TypeOK
  <2>1. outbuf \in Seq(SUBSET Nat) /\ inbox \in Seq(SUBSET Nat)
    BY WithinEmpty
  <2>2. lastIndexed \in Nat /\ faults \in 0 .. MaxFaults
    BY IndexerAssumption
  <2> QED
    BY <1>1, <1>2, <2>1, <2>2 DEF TypeOK
<1>4. PositionsOK
  BY WithinEmpty DEF PositionsOK
<1> QED
  BY <1>2, <1>3, <1>4 DEF TypeInv, ChainOK, ScanOK

LEMMA TypeMine == TypeInv /\ Mine => TypeInv'
<1> SUFFICES ASSUME TypeInv, Mine PROVE TypeInv'
  OBVIOUS
<1> USE DEF TypeInv, TypeOK
<1>1. log \in Seq(Entry) /\ ends \in Seq(Nat) /\ ChainOK
  BY DEF Entry
<1>2. ChainNext /\ UNCHANGED <<indexerVars, faults, custodyVars, historyVars>>
  BY DEF Mine
<1>3. /\ log' \in Seq(Entry)
      /\ ends' \in Seq(Nat)
      /\ ChainOK'
      /\ Len(log) <= Len(log')
      /\ Tip <= Tip'
  BY <1>1, <1>2, ChainStep
<1>4. Len(log) \in Nat /\ Len(log') \in Nat /\ Tip \in Nat /\ Tip' \in Nat
  BY <1>1, <1>3 DEF Tip
<1>5. TypeOK'
  BY <1>2, <1>3 DEF indexerVars, custodyVars, historyVars, Entry
<1>6. ScanOK'
  BY <1>2, <1>3, <1>4 DEF ScanOK, indexerVars
<1>7. PositionsOK'
  BY <1>2, <1>3, <1>4, WithinLonger DEF PositionsOK, indexerVars, custodyVars
<1> QED
  BY <1>3, <1>5, <1>6, <1>7

LEMMA TypeStartIndexer == TypeInv /\ StartIndexer => TypeInv'
BY IndexerAssumption
   DEF StartIndexer, IndexerStart, TypeInv, TypeOK, ChainOK, ScanOK, PositionsOK,
       chainVars, custodyVars, historyVars

LEMMA TypeIndex == TypeInv /\ Index => TypeInv'
<1> SUFFICES ASSUME TypeInv, Index PROVE TypeInv'
  OBVIOUS
<1> USE DEF TypeInv, TypeOK
<1>1. log \in Seq(Entry) /\ ends \in Seq(Nat) /\ ChainOK /\ Tip \in Nat
  BY DEF Entry, Tip
<1>2. /\ UNCHANGED <<custodyVars, snapAt, applied>>
      /\ clean' \in BOOLEAN
  BY DEF Index
<1>3. CASE Tick
  BY <1>1, <1>2, <1>3
     DEF Tick, ChainOK, ScanOK, PositionsOK, Tip, chainVars, custodyVars
<1>4. CASE ReadTip
  BY <1>1, <1>2, <1>4
     DEF ReadTip, ChainOK, ScanOK, PositionsOK, Tip, chainVars, custodyVars
<1>5. CASE IndexBlock
  <2> DEFINE h == lastIndexed + 1
  <2>1. /\ ixState = "scan" /\ ixState' \in {"idle", "scan"}
        /\ outbuf' = Publish(h) /\ lastIndexed' = h
        /\ indexed' = indexed \cup {h}
        /\ ixState' = "scan" => h # target
        /\ UNCHANGED <<chainVars, target, faults>>
    BY <1>5 DEF IndexBlock
  <2>2. h \in 1 .. Tip /\ h <= target
    BY <1>1, <2>1 DEF ScanOK
  <2>3. BlockEvents(h) \subseteq 1 .. Len(log)
    BY <1>1, <2>2, BlockEventsPlaced
  <2>4. outbuf' \in Seq(SUBSET Nat) /\ Within(outbuf', Len(log))
    BY <1>1, <2>1, <2>3, WithinAppend DEF Publish, PositionsOK
  <2>5. ScanOK'
    BY <1>1, <2>1, <2>2 DEF ScanOK, chainVars, Tip
  <2>6. TypeOK'
    BY <1>2, <2>1, <2>2, <2>4 DEF chainVars, custodyVars
  <2>7. ChainOK' /\ PositionsOK'
    BY <1>2, <2>1, <2>4 DEF ChainOK, PositionsOK, chainVars, custodyVars
  <2> QED
    BY <2>5, <2>6, <2>7
<1>6. CASE PoisonExit
  BY <1>1, <1>2, <1>6
     DEF PoisonExit, IndexerDies, ChainOK, ScanOK, PositionsOK, Within, Tip,
         chainVars, custodyVars
<1> QED
  BY <1>3, <1>4, <1>5, <1>6 DEF Index, IndexerStep

LEMMA TypeFlush == TypeInv /\ Flush => TypeInv'
<1> SUFFICES ASSUME TypeInv, Flush PROVE TypeInv'
  OBVIOUS
<1> USE DEF TypeInv, TypeOK
<1>1. /\ outbuf # <<>>
      /\ outbuf' = Tail(outbuf)
      /\ inbox' = IF cuState = "run" THEN Append(inbox, Head(outbuf)) ELSE inbox
      /\ UNCHANGED <<chainVars, ixState, lastIndexed, target, indexed, faults,
                     cuState, toSnap, ledger, cur, ev, step, known, historyVars>>
  BY DEF Flush
<1>2. /\ outbuf' \in Seq(SUBSET Nat)
      /\ Within(outbuf', Len(log))
      /\ Head(outbuf) \subseteq 1 .. Len(log)
  BY <1>1, WithinTail DEF PositionsOK
<1>3. inbox' \in Seq(SUBSET Nat) /\ Within(inbox', Len(log))
  BY <1>1, <1>2, WithinAppend DEF PositionsOK
<1>4. TypeOK'
  BY <1>1, <1>2, <1>3 DEF chainVars, historyVars
<1>5. ChainOK' /\ ScanOK' /\ PositionsOK'
  BY <1>1, <1>2, <1>3 DEF ChainOK, ScanOK, PositionsOK, Tip, chainVars
<1> QED
  BY <1>4, <1>5

LEMMA TypeBoot == TypeInv /\ Boot => TypeInv'
<1> SUFFICES ASSUME TypeInv, Boot PROVE TypeInv'
  OBVIOUS
<1> USE DEF TypeInv, TypeOK
<1>1. CASE CustodyStart
  <2>1. toSnap' = Custody /\ cuState' \in {"boot", "dial"}
    BY <1>1 DEF CustodyStart, Custodied
  <2>2. ledger' \in [Custody -> Int] /\ snapAt' \in [Custody -> Nat]
    BY <1>1 DEF CustodyStart, EmptyLedger
  <2> QED
    BY <1>1, <2>1, <2>2
       DEF CustodyStart, ChainOK, ScanOK, PositionsOK, Tip, chainVars, indexerVars
<1>2. ASSUME NEW a \in Custody, Snapshot(a) PROVE TypeInv'
  <2>1. EndOf(Tip) \in 0 .. Len(log)
    BY EndOfTyped DEF Entry, Tip
  <2>2. LatestBalances \in [Addr -> Int]
    BY <2>1, BalancesTyped DEF LatestBalances, Entry
  <2>3. LatestBalances[a] \in Int
    BY <2>2, ChainAssumption
  <2>4. ledger' \in [Custody -> Int] /\ snapAt' \in [Custody -> Nat]
    BY <1>2, <2>1, <2>3 DEF Snapshot, UpdateBalance
  <2>5. TypeOK'
    BY <1>2, <2>4 DEF Snapshot, chainVars, indexerVars
  <2>6. ChainOK' /\ ScanOK' /\ PositionsOK'
    BY <1>2 DEF Snapshot, ChainOK, ScanOK, PositionsOK, Tip, chainVars, indexerVars
  <2> QED
    BY <2>5, <2>6
<1>3. CASE Subscribe
  BY <1>3
     DEF Subscribe, QuietStart, ChainOK, ScanOK, PositionsOK, Tip, chainVars,
         indexerVars
<1> QED
  BY <1>1, <1>2, <1>3 DEF Boot

LEMMA TypeConsume == TypeInv /\ Consume => TypeInv'
<1> SUFFICES ASSUME TypeInv, Consume PROVE TypeInv'
  OBVIOUS
<1> USE DEF TypeInv, TypeOK
<1>1. CASE Receive
  <2>1. /\ inbox' \in Seq(SUBSET Nat)
        /\ Within(inbox', Len(log))
        /\ cur' \subseteq 1 .. Len(log)
    BY <1>1, WithinTail DEF Receive, PositionsOK
  <2>2. TypeOK'
    BY <1>1, <2>1 DEF Receive, chainVars, indexerVars, historyVars
  <2>3. ChainOK' /\ ScanOK' /\ PositionsOK'
    BY <1>1, <2>1
       DEF Receive, ChainOK, ScanOK, PositionsOK, Tip, chainVars, indexerVars
  <2> QED
    BY <2>2, <2>3
<1>2. ASSUME NEW p \in cur, Ignore(p) PROVE TypeInv'
  BY <1>2
     DEF Ignore, Takes, ChainOK, ScanOK, PositionsOK, Tip, chainVars, indexerVars,
         historyVars
<1>3. ASSUME NEW p \in cur, Lookup(p) PROVE TypeInv'
  BY <1>3
     DEF Lookup, Takes, Custodied, ChainOK, ScanOK, PositionsOK, Tip, chainVars,
         indexerVars, historyVars
<1>4. step # "lookup" => Event.amount \in Int /\ ev \in 1 .. Len(log)
  <2>1. step # "lookup" => ev \in 1 .. Len(log)
    BY DEF PositionsOK
  <2>2. step # "lookup" => log[ev] \in [event : Transfers, after : [Addr -> Int]]
    BY <2>1, ElementOfSeq
  <2> QED
    BY <2>1, <2>2, ChainAssumption DEF Event
<1>5. CASE Debit
  <2>1. ledger' \in [Custody -> Int]
    BY <1>4, <1>5 DEF Debit, UpdateBalance
  <2> QED
    BY <1>5, <2>1
       DEF Debit, ChainOK, ScanOK, PositionsOK, Tip, chainVars, indexerVars,
           historyVars
<1>6. CASE Credit
  <2>1. ledger' \in [Custody -> Int]
    BY <1>4, <1>6 DEF Credit, UpdateBalance
  <2>2. applied' \in Seq(Nat)
    BY <1>6 DEF Credit
  <2> QED
    BY <1>6, <2>1, <2>2
       DEF Credit, ChainOK, ScanOK, PositionsOK, Tip, chainVars, indexerVars
<1> QED
  BY <1>1, <1>2, <1>3, <1>5, <1>6 DEF Consume

LEMMA TypeFault == TypeInv /\ Fault => TypeInv'
<1> SUFFICES ASSUME TypeInv, Fault PROVE TypeInv'
  OBVIOUS
<1> USE DEF TypeInv, TypeOK
<1>1. faults < MaxFaults => faults + 1 \in 0 .. MaxFaults
  BY IndexerAssumption
<1>2. CASE LoseIndexer
  <2>1. outbuf' \in Seq(SUBSET Nat) /\ Within(outbuf', Len(log))
    BY <1>2, WithinEmpty DEF LoseIndexer, IndexerExit, IndexerDies
  <2> QED
    BY <1>1, <1>2, <2>1
       DEF LoseIndexer, IndexerExit, IndexerDies, ChainOK, ScanOK, PositionsOK,
           Tip, chainVars, custodyVars
<1>3. CASE Drop
  <2>1. outbuf' \in Seq(SUBSET Nat) /\ Within(outbuf', Len(log))
    BY <1>3, WithinTail DEF Drop, PositionsOK
  <2> QED
    BY <1>1, <1>3, <2>1
       DEF Drop, ChainOK, ScanOK, PositionsOK, Tip, chainVars, custodyVars
<1>4. CASE CustodyExit
  <2>1. inbox' \in Seq(SUBSET Nat) /\ Within(inbox', Len(log))
    BY <1>4, WithinEmpty DEF CustodyExit
  <2>2. ledger' \in [Custody -> Int] /\ faults' \in 0 .. MaxFaults
    BY <1>1, <1>4 DEF CustodyExit, EmptyLedger
  <2>3. TypeOK'
    BY <1>4, <2>1, <2>2 DEF CustodyExit, chainVars, indexerVars
  <2>4. ChainOK' /\ ScanOK' /\ PositionsOK'
    BY <1>4, <2>1
       DEF CustodyExit, ChainOK, ScanOK, PositionsOK, Tip, chainVars, indexerVars
  <2> QED
    BY <2>3, <2>4
<1>5. ASSUME NEW p \in cur, LookupFails(p) PROVE TypeInv'
  BY <1>1, <1>5
     DEF LookupFails, Takes, ChainOK, ScanOK, PositionsOK, Tip, chainVars,
         indexerVars
<1> QED
  BY <1>2, <1>3, <1>4, <1>5 DEF Fault

LEMMA TypeStutter == TypeInv /\ UNCHANGED vars => TypeInv'
BY DEF vars, chainVars, indexerVars, custodyVars, historyVars, TypeInv, TypeOK,
       ChainOK, ScanOK, PositionsOK, Tip

\* Every variable keeps its type, whatever fails: the ledger holds integers
\* for exactly the custodied addresses, and the queues hold log positions.
THEOREM TypeCorrect == Spec => []TypeOK
<1>1. SyncInit => TypeInv
  BY TypeInit
<1>2. TypeInv /\ [Next]_vars => TypeInv'
  BY TypeMine, TypeStartIndexer, TypeIndex, TypeFlush, TypeBoot, TypeConsume,
     TypeFault, TypeStutter DEF Next
<1>3. TypeInv => TypeOK
  BY DEF TypeInv
<1> QED
  BY <1>1, <1>2, <1>3, PTL DEF Spec

-----------------------------------------------------------------------------
(* Ordered queues. *)

\* What is covered comes before what lies beyond.
LEMMA BeforeBeyond ==
  ASSUME NEW n \in Nat, NEW S \in SUBSET Nat, \A p \in S : n < p,
         NEW T, T \subseteq 1 .. n
  PROVE  Before(T, S)
BY DEF Before

LEMMA BeforeAllEmpty == \A S : BeforeAll(S, <<>>) /\ Sorted(<<>>)
BY DEF BeforeAll, Sorted

LEMMA BeforeAllAppend ==
  ASSUME NEW q \in Seq(SUBSET Nat), NEW S, NEW T \in SUBSET Nat,
         BeforeAll(S, q), Before(S, T)
  PROVE  BeforeAll(S, Append(q, T))
BY AppendProperties DEF BeforeAll

LEMMA BeforeAllTail ==
  ASSUME NEW q \in Seq(SUBSET Nat), q # <<>>, NEW S, BeforeAll(S, q)
  PROVE  BeforeAll(S, Tail(q)) /\ Before(S, Head(q))
<1>1. /\ Head(q) = q[1] /\ 1 \in 1 .. Len(q)
      /\ \A i \in 1 .. Len(Tail(q)) : Tail(q)[i] = q[i + 1] /\ i + 1 \in 1 .. Len(q)
  BY HeadTailProperties
<1> QED
  BY <1>1 DEF BeforeAll

LEMMA SortedAppend ==
  ASSUME NEW q \in Seq(SUBSET Nat), NEW T \in SUBSET Nat, Sorted(q),
         \A i \in 1 .. Len(q) : Before(q[i], T)
  PROVE  Sorted(Append(q, T))
BY AppendProperties DEF Sorted

LEMMA SortedTail ==
  ASSUME NEW q \in Seq(SUBSET Nat), q # <<>>, Sorted(q)
  PROVE  Sorted(Tail(q)) /\ BeforeAll(Head(q), Tail(q))
<1>1. /\ Head(q) = q[1] /\ 1 \in 1 .. Len(q)
      /\ \A i \in 1 .. Len(Tail(q)) : Tail(q)[i] = q[i + 1] /\ i + 1 \in 1 .. Len(q)
  BY HeadTailProperties
<1> QED
  BY <1>1 DEF Sorted, BeforeAll

\* Every element of the tail is one of the queue's.
LEMMA TailElements ==
  ASSUME NEW q \in Seq(SUBSET Nat), q # <<>>, NEW i \in 1 .. Len(Tail(q))
  PROVE  \E j \in 1 .. Len(q) : Tail(q)[i] = q[j]
BY HeadTailProperties

-----------------------------------------------------------------------------
(* What the indexer has covered only grows. *)

LEMMA CoveredTyped ==
  ASSUME TypeInv, lastIndexed <= Tip
  PROVE  Covered \in 0 .. Len(log) /\ Covered <= EndOf(Tip)
<1>1. log \in Seq(Entry) /\ ends \in Seq(Nat) /\ ChainOK /\ Tip \in Nat
      /\ lastIndexed \in Nat
  BY DEF TypeInv, TypeOK, Entry, Tip
<1>2. EndOf(lastIndexed) \in 0 .. Len(log) /\ EndOf(Tip) \in 0 .. Len(log)
  BY <1>1, EndOfTyped
<1>3. EndOf(lastIndexed) <= EndOf(Tip)
  BY <1>1, EndOfMonotone
<1> QED
  BY <1>2, <1>3 DEF Covered

LEMMA CoveredMine ==
  ASSUME TypeInv, lastIndexed <= Tip, Mine
  PROVE  lastIndexed' <= Tip' /\ Covered <= Covered'
<1>1. log \in Seq(Entry) /\ ends \in Seq(Nat) /\ ChainOK /\ Tip \in Nat
      /\ lastIndexed \in Nat
  BY DEF TypeInv, TypeOK, Entry, Tip
<1>2. /\ log' \in Seq(Entry) /\ ends' \in Seq(Nat) /\ ChainOK' /\ Tip <= Tip'
      /\ \A h \in 0 .. Tip : EndOf(h)' = EndOf(h)
  BY <1>1, ChainStep DEF Mine
<1>3. lastIndexed' = lastIndexed /\ ixState' = ixState
  BY DEF Mine, indexerVars
<1>4. Tip' \in Nat
  BY <1>2 DEF Tip
<1>5. \A g \in 0 .. Tip : EndOf(g) \in Nat /\ EndOf(g)' = EndOf(g) /\ EndOf(g) <= EndOf(Tip)'
  <2> SUFFICES ASSUME NEW g \in 0 .. Tip
               PROVE  EndOf(g) \in Nat /\ EndOf(g)' = EndOf(g) /\ EndOf(g) <= EndOf(Tip)'
    OBVIOUS
  <2>1. EndOf(g) \in 0 .. Len(log)
    BY <1>1, EndOfTyped
  <2>2. EndOf(g)' = EndOf(g)
    BY <1>2
  <2>3. CASE g = 0
    BY <1>2, <1>4, <2>1, <2>3 DEF EndOf, Tip
  <2>4. CASE g # 0
    <3>1. g \in 1 .. Len(ends') /\ Len(ends') \in 1 .. Len(ends') /\ g <= Len(ends')
      BY <1>1, <1>2, <1>4, <2>4 DEF Tip
    <3>2. ends'[g] <= ends'[Len(ends')]
      BY <1>2, <3>1 DEF ChainOK
    <3>3. EndOf(g)' = ends'[g] /\ EndOf(Tip)' = ends'[Len(ends')]
      BY <2>4, <3>1 DEF EndOf, Tip
    <3> QED
      BY <2>1, <2>2, <3>2, <3>3
  <2> QED
    BY <2>1, <2>2, <2>3, <2>4
<1>6. Covered' = IF ixState \in {"down", "idle"} /\ lastIndexed = 0
                 THEN EndOf(Tip)' ELSE EndOf(lastIndexed)'
  BY <1>3 DEF Covered, Tip, EndOf
<1> QED
  BY <1>1, <1>2, <1>3, <1>4, <1>5, <1>6 DEF Covered

-----------------------------------------------------------------------------
(* The stages, action by action. *)

OrderInv == TypeInv /\ StagesOrdered /\ StagesCovered

stages == <<applied, cur, ev, step, inbox, outbuf>>

\* A step that moves no event keeps the order, and the cover if it grows.
LEMMA StagesKept ==
  ASSUME TypeInv, StagesOrdered, StagesCovered, UNCHANGED stages,
         lastIndexed' <= Tip', Covered <= Covered', Covered' \in Nat
  PROVE  StagesOrdered' /\ StagesCovered'
<1> USE DEF stages
<1>1. StagesOrdered'
  BY DEF StagesOrdered, Done
<1>2. Covered \in Nat
  BY CoveredTyped DEF StagesCovered
<1>3. 1 .. Covered \subseteq 1 .. Covered'
  BY <1>2
<1>4. StagesCovered'
  BY <1>3 DEF StagesCovered, Done, Within
<1> QED
  BY <1>1, <1>4

LEMMA OrderMine ==
  ASSUME OrderInv, Mine
  PROVE  StagesOrdered' /\ StagesCovered'
<1>1. lastIndexed' <= Tip' /\ Covered <= Covered'
  BY CoveredMine DEF OrderInv, StagesCovered
<1>2. Covered' \in Nat
  <2>1. TypeInv'
    BY TypeMine DEF OrderInv
  <2>2. ends' \in Seq(Nat) /\ lastIndexed' \in Nat
    BY <2>1 DEF TypeInv, TypeOK
  <2> QED
    BY <1>1, <2>2 DEF Covered, EndOf, Tip
<1> QED
  BY <1>1, <1>2, StagesKept
     DEF OrderInv, Mine, indexerVars, custodyVars, historyVars, stages

\* Seeding from the tip passes over blocks, never back over published ones.
LEMMA OrderTicks ==
  ASSUME OrderInv, StartingBlock = 0,
         StartIndexer \/ (Index /\ (Tick \/ ReadTip))
  PROVE  StagesOrdered' /\ StagesCovered'
<1>1. /\ UNCHANGED stages /\ UNCHANGED chainVars
      /\ ends \in Seq(Nat) /\ Tip \in Nat /\ lastIndexed \in Nat
      /\ lastIndexed <= Tip
  BY DEF OrderInv, TypeInv, TypeOK, StagesCovered, stages, StartIndexer, IndexerStart,
         Index, Tick, ReadTip, custodyVars, historyVars, Tip
<1>2. Tip' = Tip /\ \A h : EndOf(h)' = EndOf(h)
  BY <1>1 DEF Tip, EndOf, chainVars
<1>3. \A h \in 0 .. Tip : EndOf(h) \in Nat
  BY <1>1 DEF EndOf, Tip
<1>4. lastIndexed' \in 0 .. Tip
  BY <1>1 DEF StartIndexer, IndexerStart, Tick, ReadTip
<1>5. Covered <= EndOf(Tip)
  BY CoveredTyped DEF OrderInv, StagesCovered
<1>6. EndOf(0) = 0
  BY DEF EndOf
<1>7. Covered' = IF ixState' \in {"down", "idle"} /\ lastIndexed' = 0
                 THEN EndOf(Tip) ELSE EndOf(lastIndexed')
  BY <1>1, <1>2 DEF Covered, EndOf, Tip, chainVars
<1>8. Covered <= Covered' /\ Covered' \in Nat
  BY <1>1, <1>3, <1>4, <1>5, <1>6, <1>7
     DEF StartIndexer, IndexerStart, Tick, ReadTip, Covered, OrderInv, TypeInv, TypeOK
<1> QED
  BY <1>1, <1>2, <1>4, <1>8, StagesKept DEF OrderInv

\* The events of a block come after everything covered before it.
LEMMA OrderIndexBlock ==
  ASSUME OrderInv, Index, IndexBlock
  PROVE  StagesOrdered' /\ StagesCovered'
<1> USE DEF OrderInv
<1> DEFINE h == lastIndexed + 1
           S == BlockEvents(h)
<1>1. /\ ixState = "scan" /\ ixState' \in {"idle", "scan"} /\ lastIndexed' = h
      /\ outbuf' = Publish(h)
      /\ UNCHANGED <<applied, cur, ev, step, inbox, log, ends>>
  BY DEF IndexBlock, Index, chainVars, custodyVars
<1>2. /\ log \in Seq(Entry) /\ ends \in Seq(Nat) /\ ChainOK /\ Tip \in Nat
      /\ lastIndexed \in Nat /\ h \in 1 .. Tip /\ h - 1 = lastIndexed
      /\ outbuf \in Seq(SUBSET Nat)
  BY <1>1 DEF TypeInv, TypeOK, ScanOK, Entry, Tip
<1>3. Covered = EndOf(lastIndexed) /\ Covered' = EndOf(h)
  BY <1>1, <1>2 DEF Covered, EndOf, Tip
<1>4. Covered \in Nat /\ Covered' \in Nat /\ Covered <= Covered'
  BY <1>2, <1>3, EndOfTyped, EndOfMonotone
<1>5. S \in SUBSET Nat /\ \A p \in S : Covered < p /\ p <= Covered'
  BY <1>2, <1>3, BlockEventsPlaced
<1>6. S \subseteq 1 .. Covered'
  BY <1>4, <1>5
<1> HIDE DEF S
<1>7. outbuf' \in {outbuf, Append(outbuf, S)}
  BY <1>1 DEF Publish, S
<1>8. 1 .. Covered \subseteq 1 .. Covered'
  BY <1>4
<1>9. StagesOrdered'
  <2>1. /\ Before(Done, S) /\ Before(cur, S)
        /\ \A i \in 1 .. Len(inbox) : Before(inbox[i], S)
        /\ \A i \in 1 .. Len(outbuf) : Before(outbuf[i], S)
    <3>1. \A T : T \subseteq 1 .. Covered => Before(T, S)
      BY <1>4, <1>5, BeforeBeyond
    <3> QED
      BY <3>1 DEF StagesCovered, Within
  <2>2. /\ BeforeAll(Done, outbuf')
        /\ BeforeAll(cur, outbuf')
        /\ \A i \in 1 .. Len(inbox) : BeforeAll(inbox[i], outbuf')
        /\ Sorted(outbuf')
    <3>1. CASE outbuf' = outbuf
      BY <3>1 DEF StagesOrdered
    <3>2. CASE outbuf' = Append(outbuf, S)
      <4>1. /\ BeforeAll(Done, Append(outbuf, S))
            /\ BeforeAll(cur, Append(outbuf, S))
            /\ \A i \in 1 .. Len(inbox) : BeforeAll(inbox[i], Append(outbuf, S))
        BY <1>2, <1>5, <2>1, BeforeAllAppend DEF StagesOrdered
      <4>2. Sorted(Append(outbuf, S))
        BY <1>2, <1>5, <2>1, SortedAppend DEF StagesOrdered
      <4> QED
        BY <3>2, <4>1, <4>2
    <3> QED
      BY <1>7, <3>1, <3>2
  <2> QED
    BY <1>1, <2>2 DEF StagesOrdered, Done
<1>10. StagesCovered'
  <2>1. Within(outbuf, Covered') /\ Within(inbox, Covered')
    BY <1>8 DEF StagesCovered, Within
  <2>2. Within(outbuf', Covered')
    BY <1>2, <1>4, <1>6, <1>7, <2>1, WithinAppend
  <2>3. lastIndexed' <= Tip'
    BY <1>1, <1>2 DEF Tip
  <2> QED
    BY <1>1, <1>8, <2>1, <2>2, <2>3 DEF StagesCovered, Done
<1> QED
  BY <1>9, <1>10

\* A dying indexer takes its buffer with it.
LEMMA OrderDies ==
  ASSUME OrderInv, IndexerDies, UNCHANGED <<custodyVars, applied>>
  PROVE  StagesOrdered' /\ StagesCovered'
<1> USE DEF OrderInv
<1>1. /\ outbuf' = <<>> /\ ixState' = "down"
      /\ UNCHANGED <<log, ends, lastIndexed, applied, cur, ev, step, inbox>>
  BY DEF IndexerDies, chainVars, custodyVars
<1>2. /\ log \in Seq(Entry) /\ ends \in Seq(Nat) /\ ChainOK /\ Tip \in Nat
      /\ lastIndexed \in Nat
  BY DEF TypeInv, TypeOK, Entry, Tip
<1>3. EndOf(lastIndexed) \in Nat /\ EndOf(Tip) \in Nat /\ EndOf(lastIndexed) <= EndOf(Tip)
  BY <1>2, EndOfTyped, EndOfMonotone DEF StagesCovered
<1>4. Covered' = IF lastIndexed = 0 THEN EndOf(Tip) ELSE EndOf(lastIndexed)
  BY <1>1 DEF Covered, EndOf, Tip
<1>5. 1 .. Covered \subseteq 1 .. Covered'
  BY <1>3, <1>4 DEF Covered
<1>6. StagesOrdered'
  BY <1>1, BeforeAllEmpty DEF StagesOrdered, Done
<1>7. Within(inbox, Covered') /\ Within(<<>>, Covered')
  BY <1>5, WithinEmpty DEF StagesCovered, Within
<1>8. StagesCovered'
  BY <1>1, <1>5, <1>7 DEF StagesCovered, Done, Tip
<1> QED
  BY <1>6, <1>8

\* The message that leaves the buffer first comes after everything delivered.
LEMMA OrderFlush ==
  ASSUME OrderInv, Flush \/ Drop
  PROVE  StagesOrdered' /\ StagesCovered'
<1> USE DEF OrderInv
<1>1. /\ outbuf # <<>> /\ outbuf' = Tail(outbuf)
      /\ inbox' \in {inbox, Append(inbox, Head(outbuf))}
      /\ UNCHANGED <<log, ends, ixState, lastIndexed, applied, cur, ev, step>>
  BY DEF Flush, Drop, chainVars, custodyVars, historyVars
<1>2. outbuf \in Seq(SUBSET Nat) /\ inbox \in Seq(SUBSET Nat)
  BY DEF TypeInv, TypeOK
<1>3. Covered' = Covered /\ Covered \in Nat
  BY <1>1, CoveredTyped DEF StagesCovered, Covered, EndOf, Tip
<1> DEFINE S == Head(outbuf)
<1>4. /\ Within(outbuf', Covered)
      /\ S \subseteq 1 .. Covered
  BY <1>1, <1>2, <1>3, WithinTail DEF StagesCovered
<1>5. S \in SUBSET Nat
  BY <1>3, <1>4
<1>6. /\ Sorted(outbuf') /\ BeforeAll(S, outbuf')
      /\ BeforeAll(Done, outbuf') /\ Before(Done, S)
      /\ BeforeAll(cur, outbuf') /\ Before(cur, S)
      /\ \A i \in 1 .. Len(inbox) : BeforeAll(inbox[i], outbuf') /\ Before(inbox[i], S)
  BY <1>1, <1>2, SortedTail, BeforeAllTail DEF StagesOrdered
<1> HIDE DEF S
<1>7. /\ BeforeAll(Done, inbox') /\ BeforeAll(cur, inbox') /\ Sorted(inbox')
      /\ \A i \in 1 .. Len(inbox') : BeforeAll(inbox'[i], outbuf')
      /\ Within(inbox', Covered)
  <2>1. CASE inbox' = inbox
    BY <1>6, <2>1 DEF StagesOrdered, StagesCovered
  <2>2. CASE inbox' = Append(inbox, S)
    <3>1. BeforeAll(Done, inbox') /\ BeforeAll(cur, inbox')
      BY <1>2, <1>5, <1>6, <2>2, BeforeAllAppend DEF StagesOrdered
    <3>2. Sorted(inbox')
      BY <1>2, <1>5, <1>6, <2>2, SortedAppend DEF StagesOrdered
    <3>3. Within(inbox', Covered)
      BY <1>2, <1>3, <1>4, <2>2, WithinAppend DEF StagesCovered
    <3>4. \A i \in 1 .. Len(inbox') : inbox'[i] = S \/ \E j \in 1 .. Len(inbox) : inbox'[i] = inbox[j]
      BY <1>2, <1>5, <2>2, AppendProperties
    <3> QED
      BY <1>6, <3>1, <3>2, <3>3, <3>4
  <2> QED
    BY <1>1, <2>1, <2>2 DEF S
<1>8. StagesOrdered'
  BY <1>1, <1>6, <1>7 DEF StagesOrdered, Done
<1>9. StagesCovered'
  BY <1>1, <1>3, <1>4, <1>7 DEF StagesCovered, Done, Tip
<1> QED
  BY <1>8, <1>9

\* Starting, reading the snapshots and subscribing move no event.
LEMMA OrderBoot ==
  ASSUME OrderInv, Boot
  PROVE  StagesOrdered' /\ StagesCovered'
<1>1. UNCHANGED stages /\ UNCHANGED <<log, ends, ixState, lastIndexed>>
  BY DEF Boot, CustodyStart, Snapshot, Subscribe, stages, chainVars, indexerVars
<1>2. Covered' = Covered /\ Covered \in Nat /\ lastIndexed' <= Tip'
  BY <1>1, CoveredTyped DEF OrderInv, StagesCovered, Covered, EndOf, Tip
<1> QED
  BY <1>1, <1>2, StagesKept DEF OrderInv

\* The events of a message are taken from the lowest up, and messages in turn.
LEMMA OrderConsume ==
  ASSUME OrderInv, Consume \/ \E p \in cur : LookupFails(p)
  PROVE  StagesOrdered' /\ StagesCovered'
<1> USE DEF OrderInv
<1>1. UNCHANGED <<log, ends, ixState, lastIndexed, outbuf>>
  BY DEF Consume, Receive, Ignore, Lookup, Debit, Credit, LookupFails, chainVars,
         indexerVars
<1>2. Covered' = Covered /\ Covered \in Nat /\ lastIndexed' <= Tip'
  BY <1>1, CoveredTyped DEF StagesCovered, Covered, EndOf, Tip
<1>3. outbuf \in Seq(SUBSET Nat) /\ inbox \in Seq(SUBSET Nat) /\ applied \in Seq(Nat)
      /\ ev \in Nat /\ cur \in SUBSET Nat
  BY DEF TypeInv, TypeOK
<1>4. CASE Receive
  <2>1. /\ inbox # <<>> /\ cur' = Head(inbox) /\ inbox' = Tail(inbox)
        /\ UNCHANGED <<applied, ev, step>> /\ cur = {} /\ step = "lookup"
    BY <1>4 DEF Receive, historyVars, TypeInv, PositionsOK
  <2>2. /\ Sorted(inbox') /\ BeforeAll(cur', inbox')
        /\ BeforeAll(Done, inbox') /\ Before(Done, cur')
    BY <1>3, <2>1, SortedTail, BeforeAllTail DEF StagesOrdered
  <2>3. BeforeAll(cur', outbuf) /\ \A i \in 1 .. Len(inbox') : BeforeAll(inbox'[i], outbuf)
    <3>1. 1 \in 1 .. Len(inbox) /\ Head(inbox) = inbox[1]
      BY <1>3, <2>1, HeadTailProperties
    <3> QED
      BY <1>3, <2>1, <3>1, TailElements DEF StagesOrdered
  <2>4. StagesOrdered'
    BY <1>1, <2>1, <2>2, <2>3 DEF StagesOrdered, Done
  <2>5. Within(inbox', Covered) /\ cur' \subseteq 1 .. Covered
    BY <1>2, <1>3, <2>1, WithinTail DEF StagesCovered
  <2>6. StagesCovered'
    BY <1>1, <1>2, <2>1, <2>5 DEF StagesCovered, Done
  <2> QED
    BY <2>4, <2>6
<1>5. ASSUME NEW p \in cur, Ignore(p) PROVE StagesOrdered' /\ StagesCovered'
  <2>1. /\ cur' \subseteq cur /\ step = "lookup"
        /\ UNCHANGED <<applied, ev, step, inbox>>
    BY <1>5 DEF Ignore, Takes, historyVars
  <2> QED
    BY <1>1, <1>2, <2>1 DEF StagesOrdered, StagesCovered, Done, Before, BeforeAll
<1>6. ASSUME NEW p \in cur, Lookup(p) \/ LookupFails(p)
      PROVE  StagesOrdered' /\ StagesCovered'
  <2>1. /\ ev' = p /\ \A q \in cur : p <= q
        /\ UNCHANGED <<applied, cur, inbox>>
    BY <1>6 DEF Lookup, LookupFails, Takes, historyVars
  <2> QED
    BY <1>1, <1>2, <2>1 DEF StagesOrdered, StagesCovered, Done
<1>7. CASE Debit
  <2>1. step = "debit" /\ UNCHANGED <<applied, cur, ev, inbox>>
    BY <1>7 DEF Debit, historyVars
  <2> QED
    BY <1>1, <1>2, <2>1 DEF StagesOrdered, StagesCovered, Done
<1>8. CASE Credit
  <2>1. /\ ev \in cur /\ \A p \in cur : ev <= p
        /\ cur' = cur \ {ev} /\ inbox' = inbox /\ step' = "lookup"
        /\ applied' \in {applied, Append(applied, ev)}
    BY <1>8 DEF Credit, TypeInv, PositionsOK, StagesOrdered
  <2>2. /\ Done' \subseteq Done \cup {ev}
        /\ \A i, j \in 1 .. Len(applied') : i < j => applied'[i] < applied'[j]
    <3>1. CASE applied' = applied
      BY <3>1 DEF Done, StagesOrdered
    <3>2. CASE applied' = Append(applied, ev)
      <4>1. /\ Len(applied') = Len(applied) + 1
            /\ applied'[Len(applied) + 1] = ev
            /\ \A i \in 1 .. Len(applied) : applied'[i] = applied[i]
        BY <1>3, <3>2, AppendProperties
      <4>2. \A i \in 1 .. Len(applied) : applied[i] \in Done
        BY DEF Done
      <4>3. \A i \in 1 .. Len(applied) : applied[i] < ev
        BY <2>1, <4>2 DEF StagesOrdered, Before
      <4>4. Done' \subseteq Done \cup {ev}
        <5>1. ASSUME NEW i \in 1 .. Len(applied') PROVE applied'[i] \in Done \cup {ev}
          <6>1. CASE i \in 1 .. Len(applied)
            BY <4>1, <4>2, <6>1
          <6>2. CASE i = Len(applied) + 1
            BY <4>1, <6>2
          <6> QED
            BY <1>3, <4>1, <5>1, <6>1, <6>2
        <5> QED
          BY <5>1 DEF Done
      <4>5. ASSUME NEW i \in 1 .. Len(applied'), NEW j \in 1 .. Len(applied'), i < j
            PROVE  applied'[i] < applied'[j]
        <5>1. i \in 1 .. Len(applied)
          BY <1>3, <4>1, <4>5
        <5>2. CASE j \in 1 .. Len(applied)
          BY <4>1, <4>5, <5>1, <5>2 DEF StagesOrdered
        <5>3. CASE j = Len(applied) + 1
          BY <4>1, <4>3, <5>1, <5>3
        <5> QED
          BY <1>3, <4>1, <5>2, <5>3
      <4> QED
        BY <4>4, <4>5
    <3> QED
      BY <2>1, <3>1, <3>2
  <2>3. /\ Before(Done', cur') /\ BeforeAll(Done', inbox) /\ BeforeAll(Done', outbuf)
        /\ BeforeAll(cur', inbox) /\ BeforeAll(cur', outbuf)
    <3>1. \A S : BeforeAll(cur, S) => BeforeAll({ev}, S)
      BY <2>1 DEF BeforeAll, Before
    <3>2. \A S : BeforeAll(Done, S) /\ BeforeAll({ev}, S) => BeforeAll(Done', S)
      BY <2>2 DEF BeforeAll, Before
    <3>3. \A S : BeforeAll(cur, S) => BeforeAll(cur', S)
      BY <2>1 DEF BeforeAll, Before
    <3>4. Before(Done, cur')
      BY <2>1 DEF StagesOrdered, Before
    <3>5. Before({ev}, cur')
      BY <1>3, <2>1 DEF Before
    <3>6. Before(Done', cur')
      BY <2>2, <3>4, <3>5 DEF Before
    <3> QED
      BY <3>1, <3>2, <3>3, <3>6 DEF StagesOrdered
  <2>4. StagesOrdered'
    BY <1>1, <2>1, <2>2, <2>3 DEF StagesOrdered
  <2>5. StagesCovered'
    BY <1>1, <1>2, <2>1, <2>2 DEF StagesCovered
  <2> QED
    BY <2>4, <2>5
<1> QED
  BY <1>4, <1>5, <1>6, <1>7, <1>8 DEF Consume

LEMMA OrderCustodyExit ==
  ASSUME OrderInv, CustodyExit
  PROVE  StagesOrdered' /\ StagesCovered'
<1> USE DEF OrderInv
<1>1. /\ cur' = {} /\ inbox' = <<>> /\ step' = "lookup"
      /\ UNCHANGED <<log, ends, ixState, lastIndexed, outbuf, applied>>
  BY DEF CustodyExit, chainVars, indexerVars
<1>2. Covered' = Covered /\ Tip' = Tip
  BY <1>1 DEF Covered, EndOf, Tip
<1>3. /\ Sorted(<<>>) /\ Within(<<>>, Covered) /\ BeforeAll(Done, <<>>)
      /\ Len(<<>>) = 0
  BY BeforeAllEmpty, WithinEmpty
<1>4. StagesOrdered'
  BY <1>1, <1>3 DEF StagesOrdered, Done, Before, BeforeAll
<1>5. StagesCovered'
  BY <1>1, <1>2, <1>3 DEF StagesCovered, Done
<1> QED
  BY <1>4, <1>5

-----------------------------------------------------------------------------

LEMMA OrderInit == SyncInit /\ StartingBlock = 0 => StagesOrdered /\ StagesCovered
<1> SUFFICES ASSUME SyncInit, StartingBlock = 0 PROVE StagesOrdered /\ StagesCovered
  OBVIOUS
<1> USE DEF SyncInit, ChainInit, IndexerInit
<1>1. /\ Done = {} /\ cur = {} /\ inbox = <<>> /\ outbuf = <<>> /\ step = "lookup"
      /\ Len(<<>>) = 0 /\ lastIndexed = 0 /\ Tip = 0
  BY EmptySeq DEF Done, Tip
<1>2. \A S : BeforeAll(S, <<>>) /\ Sorted(<<>>) /\ Within(<<>>, Covered)
  BY BeforeAllEmpty, WithinEmpty
<1> QED
  BY <1>1, <1>2 DEF StagesOrdered, StagesCovered, Before

\* The invariant of the theorem: typed, and in order unless the indexer is
\* told where to start.
FlowInv == TypeInv /\ PipelineInOrder

LEMMA FlowStep == FlowInv /\ [Next]_vars => FlowInv'
<1> SUFFICES ASSUME FlowInv, [Next]_vars PROVE FlowInv'
  OBVIOUS
<1>1. TypeInv'
  BY TypeMine, TypeStartIndexer, TypeIndex, TypeFlush, TypeBoot, TypeConsume,
     TypeFault, TypeStutter DEF Next, FlowInv
<1>2. ASSUME StartingBlock = 0 PROVE StagesOrdered' /\ StagesCovered'
  <2>1. OrderInv
    BY <1>2 DEF FlowInv, PipelineInOrder, OrderInv
  <2>2. CASE Mine
    BY <2>1, <2>2, OrderMine
  <2>3. CASE StartIndexer
    BY <1>2, <2>1, <2>3, OrderTicks
  <2>4. CASE Index
    <3>1. PoisonExit => IndexerDies
      BY DEF PoisonExit
    <3>2. UNCHANGED <<custodyVars, applied>>
      BY <2>4 DEF Index
    <3> QED
      BY <1>2, <2>1, <2>4, <3>1, <3>2, OrderTicks, OrderIndexBlock, OrderDies
         DEF Index, IndexerStep
  <2>5. CASE Flush
    BY <2>1, <2>5, OrderFlush
  <2>6. CASE Boot
    BY <2>1, <2>6, OrderBoot
  <2>7. CASE Consume
    BY <2>1, <2>7, OrderConsume
  <2>8. CASE Fault
    <3>1. CASE LoseIndexer
      BY <2>1, <3>1, OrderDies DEF LoseIndexer, IndexerExit
    <3> QED
      BY <2>1, <2>8, <3>1, OrderFlush, OrderCustodyExit, OrderConsume DEF Fault
  <2>9. CASE UNCHANGED vars
    BY <2>1, <2>9
       DEF OrderInv, vars, chainVars, indexerVars, custodyVars, historyVars,
           StagesOrdered, StagesCovered, Done, Covered, EndOf, Tip
  <2> QED
    BY <2>2, <2>3, <2>4, <2>5, <2>6, <2>7, <2>8, <2>9 DEF Next
<1> QED
  BY <1>1, <1>2 DEF FlowInv, PipelineInOrder

\* The strengthened invariant, which a run checks too.
THEOREM PipelineOrdered == Spec => []PipelineInOrder
<1>1. SyncInit => FlowInv
  BY TypeInit, OrderInit DEF FlowInv, PipelineInOrder
<1>2. FlowInv => PipelineInOrder
  BY DEF FlowInv
<1> QED
  BY <1>1, <1>2, FlowStep, PTL DEF Spec

\* The consumer, which remembers no idempotency id, applies no event twice
\* and none out of chain order.
THEOREM NeverAppliedTwice == Spec => []AppliedInOrder
<1>1. PipelineInOrder => AppliedInOrder
  BY DEF PipelineInOrder, StagesOrdered, AppliedInOrder
<1> QED
  BY <1>1, PipelineOrdered, PTL
=============================================================================
