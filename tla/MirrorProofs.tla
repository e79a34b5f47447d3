---------------------------- MODULE MirrorProofs ----------------------------
(***************************************************************************)
(* The snapshots and the stream fit together: after a quiet start, and as  *)
(* long as nothing fails, the ledger is exactly the chain's balances at    *)
(* the position it has reached.  For every instance of LedgerSync, with a  *)
(* starting block or without.                                              *)
(***************************************************************************)
EXTENDS LedgerSyncProofs

\* The event at p moves the balance of a.
MovesBalance(p, a) ==
  log[p].event.token = USDC /\ a \in {log[p].event.from, log[p].event.to}

Relevant(p) == {log[p].event.from, log[p].event.to} \cap Custody # {}

\* Every log carries the balances after it, and a balance that no event
\* between two positions moves is the same at both.
LogOK ==
  /\ \A p \in 1 .. Len(log) :
       BalancesAfter(p) = IF log[p].event.token = USDC
                          THEN Settle(BalancesAfter(p - 1), log[p].event)
                          ELSE BalancesAfter(p - 1)
  /\ \A c, p \in 0 .. Len(log), a \in Custody :
       c <= p /\ (\A q \in c + 1 .. p : ~ MovesBalance(q, a)) =>
         BalancesAfter(p)[a] = BalancesAfter(c)[a]

\* The events that wait in some stage of the pipeline.
Held(queue) == UNION {queue[i] : i \in 1 .. Len(queue)}
Pending == cur \cup Held(inbox) \cup Held(outbuf)

\* Only what is sealed is published, applied or read.
SealedOK ==
  /\ Pending \subseteq 1 .. EndOf(Tip)
  /\ Done \subseteq 1 .. EndOf(Tip)
  /\ \A a \in Custody : snapAt[a] <= EndOf(Tip)

\* A process that starts has no message and, of every address it has dealt
\* with, the balance at its snapshot.
BootOK ==
  /\ cuState # "run" => inbox = <<>> /\ cur = {} /\ step = "lookup"
  /\ cuState \in {"boot", "dial"} =>
       \A a \in Custody :
         ledger[a] = IF a \in toSnap THEN 0 ELSE BalancesAfter(snapAt[a])[a]
  /\ cuState = "dial" => toSnap = {}

StagesSorted ==
  /\ BeforeAll(cur, inbox)
  /\ BeforeAll(cur, outbuf)
  /\ Sorted(inbox)
  /\ \A i \in 1 .. Len(inbox) : BeforeAll(inbox[i], outbuf)
  /\ Sorted(outbuf)

\* What an event that is half processed has taken from a.
Half(a) == IF step = "credit" /\ Event.from = a THEN Event.amount ELSE 0

\* c is the position the ledger stands at, not counting an event that is half
\* processed.
StandsAt(c) ==
  /\ \A a \in Custody : snapAt[a] <= c
  /\ \A i \in 1 .. Len(applied) : applied[i] <= c
  /\ c \in {snapAt[a] : a \in Custody} \cup Done \/ Custody = {}
  /\ \A a \in Custody : ledger[a] = BalancesAfter(c)[a] - Half(a)

\* The pipeline holds what the ledger lacks: every event that matters after c
\* and up to the last indexed block, and nothing else.
Complements(c) ==
  /\ \A p \in c + 1 .. EndOf(lastIndexed) :
       log[p].event.token = USDC /\ Relevant(p) => p \in Pending
  /\ \A p \in Pending : /\ c < p
                        /\ p <= EndOf(lastIndexed)
                        /\ Relevant(p)

\* The event being processed is the next one, and its parties are known.
CurrentOK ==
  step # "lookup" =>
    /\ ev \in cur
    /\ \A q \in cur : ev <= q
    /\ Event.token = USDC
    /\ known = {Event.from, Event.to} \cap Custody

CleanOK ==
  clean =>
    /\ cuState = "run"
    /\ ixState # "down"
    /\ lastIndexed # 0
    /\ lastIndexed <= Tip
    /\ StagesSorted
    /\ CurrentOK
    /\ \E c \in 0 .. EndOf(lastIndexed) : StandsAt(c) /\ Complements(c)

MirrorInv == TypeInv /\ LogOK /\ SealedOK /\ BootOK /\ CleanOK

-----------------------------------------------------------------------------
(* The log. *)

LEMMA TypedFacts ==
  ASSUME TypeInv
  PROVE  /\ log \in Seq(Entry) /\ ends \in Seq(Nat) /\ ChainOK
         /\ Tip \in Nat /\ Len(log) \in Nat /\ lastIndexed \in Nat
         /\ EndOf(Tip) \in 0 .. Len(log)
         /\ \A p \in 1 .. Len(log) : /\ log[p] \in Entry
                                     /\ log[p].event \in Transfers
                                     /\ log[p].event.amount \in Nat
<1>1. log \in Seq(Entry) /\ ends \in Seq(Nat) /\ ChainOK /\ lastIndexed \in Nat
  BY DEF TypeInv, TypeOK, Entry
<1>2. Tip \in Nat /\ Len(log) \in Nat
  BY <1>1 DEF Tip
<1>3. \A p \in 1 .. Len(log) : log[p] \in Entry
  BY <1>1
<1>4. EndOf(Tip) \in 0 .. Len(log)
  BY <1>1, <1>2, EndOfTyped
<1> QED
  BY <1>1, <1>2, <1>3, <1>4, ChainAssumption DEF Entry

\* What the token does to one balance.
LEMMA SettleAt ==
  ASSUME NEW bal \in [Addr -> Int], NEW t \in Transfers, NEW a \in Custody
  PROVE  Settle(bal, t)[a] = bal[a] - (IF t.from = a THEN t.amount ELSE 0)
                                    + (IF t.to = a THEN t.amount ELSE 0)
<1>1. t.from \in Addr /\ t.to \in Addr /\ t.amount \in Nat /\ a \in Addr /\ a # Zero
  BY ChainAssumption
<1>2. bal[a] \in Int
  BY <1>1
<1> DEFINE debited == IF t.from = Zero THEN bal ELSE [bal EXCEPT ![t.from] = @ - t.amount]
<1>3. /\ debited \in [Addr -> Int]
      /\ debited[a] = bal[a] - (IF t.from = a THEN t.amount ELSE 0)
  BY <1>1, <1>2
<1>4. Settle(bal, t) = [debited EXCEPT ![t.to] = @ + t.amount]
  BY DEF Settle
<1> HIDE DEF debited
<1> QED
  BY <1>1, <1>2, <1>3, <1>4

LEMMA LogMine ==
  ASSUME TypeInv, LogOK, ChainNext
  PROVE  LogOK'
<1>1. /\ log \in Seq(Entry) /\ Len(log) \in Nat
  BY TypedFacts
<1>2. CASE SealBlock
  <2>1. log' = log
    BY <1>2 DEF SealBlock
  <2> QED
    BY <2>1 DEF LogOK, BalancesAfter, MovesBalance
<1>3. ASSUME NEW t \in Transfers, ExecTx(t) PROVE LogOK'
  <2> DEFINE n == Len(log)
             new == IF t.token = USDC THEN Settle(BalancesAfter(n), t)
                                      ELSE BalancesAfter(n)
  <2>1. log' = Append(log, [event |-> t, after |-> new])
    BY <1>3 DEF ExecTx
  <2>2. BalancesAfter(n) \in [Addr -> Int]
    BY <1>1, BalancesTyped
  <2>3. new \in [Addr -> Int]
    BY <2>2, SettleTyped
  <2> HIDE DEF new
  <2>4. /\ Len(log') = n + 1
        /\ \A p \in 1 .. n : log'[p] = log[p]
        /\ log'[n + 1].event = t /\ log'[n + 1].after = new
    BY <1>1, <2>1
  <2>5. \A p \in 0 .. n : BalancesAfter(p)' = BalancesAfter(p)
    BY <1>1, <2>4 DEF BalancesAfter
  <2>6. \A p \in Nat : p = n + 1 => BalancesAfter(p)' = new
    BY <1>1, <2>4 DEF BalancesAfter
  <2>7. ASSUME NEW p \in 1 .. Len(log')
        PROVE  BalancesAfter(p)' = IF log'[p].event.token = USDC
                                   THEN Settle(BalancesAfter(p - 1)', log'[p].event)
                                   ELSE BalancesAfter(p - 1)'
    <3>1. CASE p \in 1 .. n
      <4>1. p - 1 \in 0 .. n /\ p \in 0 .. n
        BY <1>1, <3>1
      <4> QED
        BY <3>1, <4>1, <2>4, <2>5 DEF LogOK
    <3>2. CASE p = n + 1
      <4>1. p - 1 = n /\ n \in 0 .. n
        BY <1>1, <3>2
      <4>2. BalancesAfter(p - 1)' = BalancesAfter(n)
        BY <4>1, <2>5
      <4> QED
        BY <1>1, <3>2, <4>2, <2>4, <2>6 DEF new
    <3> QED
      BY <1>1, <2>4, <3>1, <3>2
  <2>8. ASSUME NEW c \in 0 .. Len(log'), NEW p \in 0 .. Len(log'), NEW a \in Custody,
               c <= p, \A q \in c + 1 .. p : ~ MovesBalance(q, a)'
        PROVE  BalancesAfter(p)'[a] = BalancesAfter(c)'[a]
    <3>1. CASE p \in 0 .. n
      <4>1. c \in 0 .. n
        BY <1>1, <2>4, <2>8, <3>1
      <4>2. \A q \in c + 1 .. p : q \in 1 .. n
        BY <1>1, <3>1, <4>1
      <4>3. \A q \in c + 1 .. p : ~ MovesBalance(q, a)
        BY <2>4, <2>8, <4>2 DEF MovesBalance
      <4>4. BalancesAfter(p)[a] = BalancesAfter(c)[a]
        BY <2>8, <3>1, <4>1, <4>3 DEF LogOK
      <4> QED
        BY <2>5, <3>1, <4>1, <4>4
    <3>2. CASE p = n + 1 /\ c = n + 1
      BY <3>2
    <3>3. CASE p = n + 1 /\ c # n + 1
      <4>1. c \in 0 .. n /\ n \in 0 .. n /\ c <= n
        BY <1>1, <2>4, <2>8, <3>3
      <4>2. \A q \in c + 1 .. n : q \in 1 .. n /\ q \in c + 1 .. p
        BY <1>1, <3>3, <4>1
      <4>3. \A q \in c + 1 .. n : ~ MovesBalance(q, a)
        BY <2>4, <2>8, <4>2 DEF MovesBalance
      <4>4. BalancesAfter(n)[a] = BalancesAfter(c)[a]
        BY <4>1, <4>3 DEF LogOK
      <4>5. ~ MovesBalance(p, a)'
        <5>1. p \in c + 1 .. p
          BY <1>1, <3>3, <4>1
        <5> QED
          BY <2>8, <5>1
      <4>6. t.token = USDC => t.from # a /\ t.to # a
        BY <2>4, <3>3, <4>5 DEF MovesBalance
      <4>7. new[a] = BalancesAfter(n)[a]
        <5>1. CASE t.token = USDC
          <6>1. BalancesAfter(n)[a] \in Int
            BY <2>2, ChainAssumption
          <6>2. Settle(BalancesAfter(n), t)[a] = BalancesAfter(n)[a] - 0 + 0
            BY <2>2, <4>6, <5>1, SettleAt
          <6> QED
            BY <5>1, <6>1, <6>2 DEF new
        <5>2. CASE t.token # USDC
          BY <5>2 DEF new
        <5> QED
          BY <5>1, <5>2
      <4> QED
        BY <1>1, <2>5, <2>6, <3>3, <4>1, <4>4, <4>7
    <3> QED
      BY <1>1, <2>4, <3>1, <3>2, <3>3
  <2> QED
    BY <2>7, <2>8 DEF LogOK
<1> QED
  BY <1>2, <1>3 DEF ChainNext

-----------------------------------------------------------------------------
(* Queues. *)

LEMMA HeldEmpty == Held(<<>>) = {}
BY DEF Held

LEMMA HeldAppend ==
  ASSUME NEW q \in Seq(SUBSET Nat), NEW S \in SUBSET Nat
  PROVE  Held(Append(q, S)) = Held(q) \cup S
<1>1. /\ Len(Append(q, S)) = Len(q) + 1
      /\ \A i \in 1 .. Len(q) : Append(q, S)[i] = q[i]
      /\ Append(q, S)[Len(q) + 1] = S
      /\ Len(q) \in Nat
  BY AppendProperties
<1>2. ASSUME NEW p, p \in Held(Append(q, S)) PROVE p \in Held(q) \cup S
  <2>1. PICK i \in 1 .. Len(q) + 1 : p \in Append(q, S)[i]
    BY <1>1, <1>2 DEF Held
  <2>2. i \in 1 .. Len(q) \/ i = Len(q) + 1
    BY <1>1
  <2> QED
    BY <1>1, <2>1, <2>2 DEF Held
<1>3. ASSUME NEW p, p \in Held(q) \cup S PROVE p \in Held(Append(q, S))
  <2>1. CASE p \in S
    <3>1. Len(q) + 1 \in 1 .. Len(q) + 1
      BY <1>1
    <3> QED
      BY <1>1, <2>1, <3>1 DEF Held
  <2>2. CASE p \in Held(q)
    <3>1. PICK i \in 1 .. Len(q) : p \in q[i]
      BY <2>2 DEF Held
    <3>2. i \in 1 .. Len(q) + 1
      BY <1>1
    <3> QED
      BY <1>1, <3>1, <3>2 DEF Held
  <2> QED
    BY <1>3, <2>1, <2>2
<1> QED
  BY <1>2, <1>3

LEMMA HeldTail ==
  ASSUME NEW q \in Seq(SUBSET Nat), q # <<>>
  PROVE  Held(q) = Head(q) \cup Held(Tail(q))
<1>1. /\ Head(q) = q[1]
      /\ Len(q) \in Nat /\ Len(q) >= 1
      /\ Len(Tail(q)) = Len(q) - 1
      /\ \A i \in 1 .. Len(Tail(q)) : Tail(q)[i] = q[i + 1]
  BY HeadTailProperties
<1>2. ASSUME NEW p, p \in Held(q) PROVE p \in Head(q) \cup Held(Tail(q))
  <2>1. PICK i \in 1 .. Len(q) : p \in q[i]
    BY <1>2 DEF Held
  <2>2. CASE i = 1
    BY <1>1, <2>1, <2>2
  <2>3. CASE i # 1
    <3>1. i - 1 \in 1 .. Len(Tail(q)) /\ (i - 1) + 1 = i
      BY <1>1, <2>3
    <3>2. p \in Tail(q)[i - 1]
      BY <1>1, <2>1, <3>1
    <3> QED
      BY <3>1, <3>2 DEF Held
  <2> QED
    BY <2>2, <2>3
<1>3. ASSUME NEW p, p \in Head(q) \cup Held(Tail(q)) PROVE p \in Held(q)
  <2>1. CASE p \in Head(q)
    <3>1. 1 \in 1 .. Len(q)
      BY <1>1
    <3> QED
      BY <1>1, <2>1, <3>1 DEF Held
  <2>2. CASE p \in Held(Tail(q))
    <3>1. PICK i \in 1 .. Len(Tail(q)) : p \in Tail(q)[i]
      BY <2>2 DEF Held
    <3>2. i + 1 \in 1 .. Len(q) /\ p \in q[i + 1]
      BY <1>1, <3>1
    <3> QED
      BY <3>2 DEF Held
  <2> QED
    BY <1>3, <2>1, <2>2
<1> QED
  BY <1>2, <1>3

\* S is ahead of a queue exactly when it is ahead of all the queue holds.
LEMMA BeforeHeld ==
  ASSUME NEW q, NEW S
  PROVE  BeforeAll(S, q) <=> Before(S, Held(q))
BY DEF BeforeAll, Before, Held

\* The events of a block that touch a custodied address.
LEMMA BlockEventsAre ==
  ASSUME NEW h
  PROVE  BlockEvents(h) = {p \in Block(h) : Relevant(p)}
<1>1. ASSUME NEW p \in Block(h)
      PROVE  {log[p].event.from, log[p].event.to} \cap Custodied(Parties(h))
             = {log[p].event.from, log[p].event.to} \cap Custody
  <2>1. {log[p].event.from, log[p].event.to} \subseteq Parties(h)
    BY DEF Parties
  <2>2. Custodied(Parties(h)) = Parties(h) \cap Custody
    BY <2>1 DEF Custodied
  <2> QED
    BY <2>1, <2>2
<1> QED
  BY <1>1 DEF BlockEvents, Relevant

\* What waits in the pipeline is what its stages hold.
LEMMA PendingEmpty ==
  ASSUME cur = {}, inbox = <<>>, outbuf = <<>>
  PROVE  Pending = {}
BY HeldEmpty DEF Pending

\* The first event of the message in the callback is the first of all.
LEMMA FirstOfPending ==
  ASSUME TypeInv, StagesSorted, NEW p \in cur, \A q \in cur : p <= q
  PROVE  /\ p \in Pending
         /\ \A q \in Pending : p <= q
         /\ \A q \in Held(inbox) \cup Held(outbuf) : p < q
<1>1. \A q \in Held(inbox) \cup Held(outbuf) : p < q
  BY BeforeHeld DEF StagesSorted, Before
<1>2. Pending \subseteq Nat
  <2>1. inbox \in Seq(SUBSET Nat) /\ outbuf \in Seq(SUBSET Nat) /\ cur \in SUBSET Nat
    BY DEF TypeInv, TypeOK
  <2>2. \A q \in Seq(SUBSET Nat) : Held(q) \subseteq Nat
    <3>1. ASSUME NEW q \in Seq(SUBSET Nat), NEW i \in 1 .. Len(q) PROVE q[i] \in SUBSET Nat
      BY ElementOfSeq
    <3> QED
      BY <3>1 DEF Held
  <2> QED
    BY <2>1, <2>2 DEF Pending
<1>3. p \in Nat
  BY DEF TypeInv, TypeOK
<1> QED
  BY <1>1, <1>2, <1>3 DEF Pending
-----------------------------------------------------------------------------
(* The mirror, action by action. *)

\* A step that leaves the chain alone leaves all that is said of it alone.
LEMMA ChainKept ==
  ASSUME UNCHANGED chainVars
  PROVE  /\ Tip' = Tip /\ Len(log') = Len(log)
         /\ \A h : EndOf(h)' = EndOf(h)
         /\ \A n : BalancesAfter(n)' = BalancesAfter(n)
         /\ \A p : Relevant(p)' = Relevant(p)
         /\ LogOK => LogOK'
BY DEF chainVars, Tip, EndOf, BalancesAfter, Relevant, LogOK, MovesBalance

LEMMA MirrorInit == SyncInit => MirrorInv
<1> SUFFICES ASSUME SyncInit PROVE MirrorInv
  OBVIOUS
<1> USE DEF SyncInit, ChainInit, IndexerInit
<1>1. TypeInv
  BY TypeInit
<1>2. log = <<>> /\ Len(log) = 0 /\ EndOf(Tip) = 0
  BY DEF Tip, EndOf
<1>3. LogOK
  BY <1>2 DEF LogOK
<1>4. Pending = {} /\ Done = {}
  BY PendingEmpty DEF Done
<1>5. SealedOK
  BY <1>2, <1>4 DEF SealedOK
<1>6. BootOK /\ CleanOK
  BY DEF BootOK, CleanOK
<1> QED
  BY <1>1, <1>3, <1>5, <1>6 DEF MirrorInv

\* New logs lie beyond everything the ledger and the pipeline know of.
LEMMA MirrorMine == MirrorInv /\ Mine => MirrorInv'
<1> SUFFICES ASSUME MirrorInv, Mine PROVE MirrorInv'
  OBVIOUS
<1> USE DEF MirrorInv
<1>1. TypeInv' /\ LogOK'
  BY TypeMine, LogMine DEF Mine
<1>2. /\ UNCHANGED <<ixState, lastIndexed, outbuf, cuState, toSnap, ledger, inbox, cur,
                     ev, step, known, snapAt, applied, clean>>
      /\ Pending' = Pending /\ Done' = Done
  BY DEF Mine, indexerVars, custodyVars, historyVars, Pending, Done
<1>3. /\ log \in Seq(Entry) /\ ends \in Seq(Nat) /\ ChainOK /\ Tip \in Nat
      /\ lastIndexed \in Nat /\ EndOf(Tip) \in 0 .. Len(log) /\ Len(log) \in Nat
  BY TypedFacts
<1>4. /\ log' \in Seq(Entry) /\ Len(log) <= Len(log') /\ Tip <= Tip'
      /\ \A p \in 1 .. Len(log) : log'[p] = log[p]
      /\ \A h \in 0 .. Tip : EndOf(h)' = EndOf(h)
  BY <1>3, ChainStep DEF Mine
<1>5. \A n \in 0 .. Len(log) : BalancesAfter(n)' = BalancesAfter(n)
  BY <1>3, <1>4 DEF BalancesAfter
<1>6. EndOf(Tip) <= EndOf(Tip)' /\ EndOf(Tip)' \in Nat
  <2>1. /\ log' \in Seq(Entry) /\ ends' \in Seq(Nat) /\ ChainOK'
    BY <1>1 DEF TypeInv, TypeOK, Entry
  <2>2. Tip' \in Nat /\ Tip' = Len(ends')
    BY <2>1 DEF Tip
  <2>3. CASE Tip = 0
    BY <2>1, <2>2, <2>3 DEF EndOf, Tip
  <2>4. CASE Tip # 0
    <3>1. Tip \in 1 .. Len(ends') /\ Tip' \in 1 .. Len(ends')
      BY <1>3, <1>4, <2>2, <2>4
    <3>2. ends'[Tip] <= ends'[Tip']
      BY <1>4, <2>1, <3>1 DEF ChainOK
    <3>3. EndOf(Tip)' = ends'[Tip'] /\ EndOf(Tip) = ends'[Tip]
      BY <1>3, <1>4, <2>4, <3>1 DEF EndOf
    <3> QED
      BY <2>1, <3>1, <3>2, <3>3
  <2> QED
    BY <2>3, <2>4
<1>7. SealedOK'
  BY <1>2, <1>3, <1>6 DEF SealedOK, TypeInv, TypeOK
<1>8. \A a \in Custody : snapAt[a] \in 0 .. Len(log)
  BY <1>3 DEF SealedOK, TypeInv, TypeOK
<1>9. BootOK'
  BY <1>2, <1>5, <1>8 DEF BootOK
<1>10. ASSUME clean PROVE CleanOK'
  <2>1. PICK c \in 0 .. EndOf(lastIndexed) : StandsAt(c) /\ Complements(c)
    BY <1>10 DEF CleanOK
  <2>2. EndOf(lastIndexed)' = EndOf(lastIndexed) /\ EndOf(lastIndexed) \in 0 .. Len(log)
    BY <1>2, <1>3, <1>4, <1>10, EndOfTyped DEF CleanOK
  <2>3. step # "lookup" => Event' = Event /\ ev \in 1 .. Len(log)
    BY <1>2, <1>4 DEF Event, TypeInv, PositionsOK
  <2>4. c \in 0 .. Len(log) /\ c \in Nat
    BY <1>3, <2>1, <2>2
  <2>5. StandsAt(c)'
    BY <1>2, <1>5, <2>1, <2>3, <2>4 DEF StandsAt, Half
  <2>6. Pending \subseteq 1 .. Len(log)
    BY <1>3 DEF SealedOK
  <2>7. \A p \in 1 .. Len(log) : Relevant(p)' = Relevant(p)
    BY <1>4 DEF Relevant
  <2>8. \A p \in c + 1 .. EndOf(lastIndexed) : p \in 1 .. Len(log)
    BY <1>3, <2>2, <2>4
  <2>9. Complements(c)'
    BY <1>2, <1>4, <2>1, <2>2, <2>6, <2>7, <2>8 DEF Complements
  <2>10. CurrentOK'
    BY <1>2, <1>10, <2>3 DEF CurrentOK, CleanOK
  <2>11. StagesSorted'
    BY <1>2, <1>10 DEF StagesSorted, CleanOK
  <2>12. lastIndexed' <= Tip'
    BY <1>1, <1>2, <1>3, <1>4, <1>10 DEF CleanOK, TypeInv, TypeOK, Tip
  <2> QED
    BY <1>2, <1>10, <2>1, <2>2, <2>5, <2>9, <2>10, <2>11, <2>12 DEF CleanOK
<1> QED
  BY <1>1, <1>2, <1>7, <1>9, <1>10 DEF CleanOK

LEMMA MirrorStartIndexer == MirrorInv /\ StartIndexer => MirrorInv'
<1> SUFFICES ASSUME MirrorInv, StartIndexer PROVE MirrorInv'
  OBVIOUS
<1> USE DEF MirrorInv
<1>1. TypeInv'
  BY TypeStartIndexer
<1>2. /\ UNCHANGED chainVars
      /\ UNCHANGED <<outbuf, cuState, toSnap, ledger, inbox, cur, step, snapAt, applied, clean>>
      /\ ~ clean
  BY DEF StartIndexer, IndexerStart, custodyVars, historyVars, CleanOK
<1>3. SealedOK' /\ BootOK'
  BY <1>2, ChainKept DEF SealedOK, BootOK, Pending, Done
<1> QED
  BY <1>1, <1>2, <1>3, ChainKept DEF CleanOK

\* Reading the tip again, and the end of the process.
LEMMA MirrorTicks ==
  ASSUME MirrorInv, Index, Tick \/ ReadTip \/ PoisonExit
  PROVE  MirrorInv'
<1> USE DEF MirrorInv
<1>1. TypeInv'
  BY TypeIndex
<1>2. /\ UNCHANGED chainVars
      /\ UNCHANGED <<cuState, toSnap, ledger, inbox, cur, ev, step, known, snapAt, applied>>
      /\ clean' => clean /\ UNCHANGED <<lastIndexed, outbuf>> /\ ixState' # "down"
      /\ outbuf' \in {outbuf, <<>>}
  BY DEF Index, Tick, ReadTip, PoisonExit, IndexerDies, custodyVars, CleanOK
<1>3. Pending' \subseteq Pending /\ (outbuf' = outbuf => Pending' = Pending)
  BY <1>2, HeldEmpty DEF Pending
<1>4. SealedOK' /\ BootOK'
  BY <1>2, <1>3, ChainKept DEF SealedOK, BootOK, Done
<1>5. ASSUME clean' PROVE CleanOK'
  <2>1. PICK c \in 0 .. EndOf(lastIndexed) : StandsAt(c) /\ Complements(c)
    BY <1>2, <1>5 DEF CleanOK
  <2>2. Event' = Event
    BY <1>2 DEF Event, chainVars
  <2>3. StandsAt(c)' /\ Complements(c)'
    <3>1. StandsAt(c)'
      BY <1>2, <2>1, <2>2, ChainKept DEF StandsAt, Half, Done
    <3>2. Complements(c)'
      BY <1>2, <1>3, <1>5, <2>1, ChainKept DEF Complements, chainVars
    <3> QED
      BY <3>1, <3>2
  <2>4. CurrentOK' /\ StagesSorted'
    BY <1>2, <1>5, <2>2 DEF CurrentOK, StagesSorted, CleanOK
  <2> QED
    BY <1>2, <1>5, <2>1, <2>3, <2>4, ChainKept DEF CleanOK
<1> QED
  BY <1>1, <1>2, <1>4, <1>5, ChainKept DEF CleanOK
\* A block that is indexed extends what the pipeline holds by exactly its
\* custodied events.
LEMMA MirrorIndexBlock ==
  ASSUME MirrorInv, Index, IndexBlock
  PROVE  MirrorInv'
<1> USE DEF MirrorInv
<1> DEFINE h == lastIndexed + 1
           S == BlockEvents(h)
<1>1. TypeInv'
  BY TypeIndex
<1>2. /\ ixState = "scan" /\ ixState' # "down" /\ lastIndexed' = h
      /\ outbuf' = Publish(h)
      /\ UNCHANGED chainVars /\ UNCHANGED <<log, ends>>
      /\ UNCHANGED <<cuState, toSnap, ledger, inbox, cur, ev, step, known, snapAt, applied>>
      /\ clean' = clean
  BY DEF IndexBlock, Index, chainVars, custodyVars, TypeInv, TypeOK
<1>3. /\ log \in Seq(Entry) /\ ends \in Seq(Nat) /\ ChainOK /\ Tip \in Nat
      /\ lastIndexed \in Nat /\ h \in 1 .. Tip /\ h - 1 = lastIndexed
      /\ outbuf \in Seq(SUBSET Nat)
  BY <1>2, TypedFacts DEF TypeInv, TypeOK, ScanOK
<1>4. /\ EndOf(lastIndexed) \in Nat /\ EndOf(h) \in Nat /\ EndOf(Tip) \in Nat
      /\ EndOf(lastIndexed) <= EndOf(h) /\ EndOf(h) <= EndOf(Tip)
  BY <1>3, EndOfTyped, EndOfMonotone
<1>5. /\ S \in SUBSET Nat
      /\ S = {p \in Block(h) : Relevant(p)}
      /\ \A p \in S : EndOf(lastIndexed) < p /\ p <= EndOf(h)
  BY <1>3, BlockEventsPlaced, BlockEventsAre
<1> HIDE DEF S
<1>6. \/ outbuf' = outbuf /\ S = {}
      \/ outbuf' = Append(outbuf, S)
  BY <1>2 DEF Publish, S
<1>7. Pending' = Pending \cup S
  <2>1. Held(outbuf') = Held(outbuf) \cup S
    BY <1>3, <1>5, <1>6, HeldAppend
  <2> QED
    BY <1>2, <2>1 DEF Pending
<1>8. SealedOK'
  <2>1. S \subseteq 1 .. EndOf(Tip)
    BY <1>4, <1>5
  <2> QED
    BY <1>2, <1>7, <2>1, ChainKept DEF SealedOK, Done
<1>9. BootOK'
  BY <1>2, ChainKept DEF BootOK
<1>10. ASSUME clean PROVE CleanOK'
  <2>1. PICK c \in 0 .. EndOf(lastIndexed) : StandsAt(c) /\ Complements(c)
    BY <1>10 DEF CleanOK
  <2>2. Event' = Event
    BY <1>2 DEF Event
  <2>3. StandsAt(c)'
    BY <1>2, <2>1, <2>2, ChainKept DEF StandsAt, Half, Done
  <2>4. EndOf(lastIndexed)' = EndOf(h)
    BY <1>2 DEF EndOf
  <2>5. c \in Nat /\ c <= EndOf(lastIndexed)
    BY <1>4, <2>1
  <2>6. Complements(c)'
    <3>1. ASSUME NEW p \in c + 1 .. EndOf(h), log[p].event.token = USDC, Relevant(p)
          PROVE  p \in Pending'
      <4>1. CASE p <= EndOf(lastIndexed)
        BY <1>4, <1>7, <2>1, <2>5, <3>1, <4>1 DEF Complements
      <4>2. CASE ~ (p <= EndOf(lastIndexed))
        BY <1>3, <1>4, <1>5, <1>7, <2>5, <3>1, <4>2 DEF Block
      <4> QED
        BY <4>1, <4>2
    <3>2. ASSUME NEW p \in Pending' PROVE c < p /\ p <= EndOf(h) /\ Relevant(p)
      <4>1. CASE p \in Pending
        <5>1. p \in Nat
          BY <1>4, <4>1 DEF SealedOK
        <5> QED
          BY <1>4, <2>1, <4>1, <5>1 DEF Complements
      <4>2. CASE p \in S
        BY <1>4, <1>5, <2>5, <4>2
      <4> QED
        BY <1>7, <3>2, <4>1, <4>2
    <3> QED
      BY <1>2, <2>4, <3>1, <3>2, ChainKept DEF Complements
  <2>7. StagesSorted'
    <3>1. \A p \in Pending, q \in S : p < q
      <4>1. Pending \subseteq Nat /\ \A p \in Pending : p <= EndOf(lastIndexed)
        BY <1>4, <2>1 DEF Complements, SealedOK
      <4> QED
        BY <1>4, <1>5, <4>1
    <3>2. /\ Before(cur, S)
          /\ \A i \in 1 .. Len(inbox) : Before(inbox[i], S)
          /\ \A i \in 1 .. Len(outbuf) : Before(outbuf[i], S)
      BY <3>1 DEF Pending, Held, Before
    <3>3. CASE outbuf' = outbuf
      BY <1>2, <1>10, <3>3 DEF StagesSorted, CleanOK
    <3>4. CASE outbuf' = Append(outbuf, S)
      <4>1. /\ BeforeAll(cur, Append(outbuf, S))
            /\ \A i \in 1 .. Len(inbox) : BeforeAll(inbox[i], Append(outbuf, S))
        BY <1>3, <1>5, <1>10, <3>2, BeforeAllAppend DEF StagesSorted, CleanOK
      <4>2. Sorted(Append(outbuf, S))
        BY <1>3, <1>5, <1>10, <3>2, SortedAppend DEF StagesSorted, CleanOK
      <4> QED
        BY <1>2, <1>10, <3>4, <4>1, <4>2 DEF StagesSorted, CleanOK
    <3> QED
      BY <1>6, <3>3, <3>4
  <2>8. CurrentOK'
    BY <1>2, <1>10, <2>2 DEF CurrentOK, CleanOK
  <2>9. c \in 0 .. EndOf(h)
    BY <1>4, <2>5
  <2>10. lastIndexed' # 0 /\ lastIndexed' <= Tip'
    BY <1>2, <1>3, ChainKept
  <2> QED
    BY <1>2, <1>10, <2>3, <2>4, <2>6, <2>7, <2>8, <2>9, <2>10 DEF CleanOK
<1> QED
  BY <1>1, <1>2, <1>8, <1>9, <1>10, ChainKept DEF CleanOK

\* A message moves from the write buffer to the subscription, or is lost on
\* the way.
LEMMA MirrorFlush == MirrorInv /\ Flush => MirrorInv'
<1> SUFFICES ASSUME MirrorInv, Flush PROVE MirrorInv'
  OBVIOUS
<1> USE DEF MirrorInv
<1>1. TypeInv'
  BY TypeFlush
<1>2. /\ outbuf # <<>> /\ outbuf' = Tail(outbuf)
      /\ inbox' = IF cuState = "run" THEN Append(inbox, Head(outbuf)) ELSE inbox
      /\ UNCHANGED chainVars
      /\ UNCHANGED <<ixState, lastIndexed, cuState, toSnap, ledger, cur, ev, step, known,
                     snapAt, applied, clean>>
  BY DEF Flush, historyVars
<1>3. outbuf \in Seq(SUBSET Nat) /\ inbox \in Seq(SUBSET Nat)
  BY DEF TypeInv, TypeOK
<1> DEFINE S == Head(outbuf)
<1>4. S \in SUBSET Nat
  BY <1>2, <1>3, HeadTailProperties
<1>5. Held(outbuf) = S \cup Held(outbuf')
  BY <1>2, <1>3, HeldTail
<1>6. inbox' \in {inbox, Append(inbox, S)} /\ (cuState = "run" => inbox' = Append(inbox, S))
  BY <1>2
<1> HIDE DEF S
<1>7. Pending' \subseteq Pending /\ (cuState = "run" => Pending' = Pending)
  <2>1. Held(inbox') \subseteq Held(inbox) \cup S
    BY <1>3, <1>4, <1>6, HeldAppend
  <2>2. cuState = "run" => Held(inbox') = Held(inbox) \cup S
    BY <1>3, <1>4, <1>6, HeldAppend
  <2> QED
    BY <1>2, <1>5, <2>1, <2>2 DEF Pending
<1>8. SealedOK' /\ BootOK'
  BY <1>2, <1>7, ChainKept DEF SealedOK, BootOK, Done
<1>9. ASSUME clean PROVE CleanOK'
  <2>1. PICK c \in 0 .. EndOf(lastIndexed) : StandsAt(c) /\ Complements(c)
    BY <1>9 DEF CleanOK
  <2>2. Event' = Event /\ Pending' = Pending /\ inbox' = Append(inbox, S)
    BY <1>2, <1>6, <1>7, <1>9 DEF Event, chainVars, CleanOK
  <2>3. StandsAt(c)'
    BY <1>2, <2>1, <2>2, ChainKept DEF StandsAt, Half, Done
  <2>4. Complements(c)'
    BY <1>2, <2>1, <2>2, ChainKept DEF Complements, chainVars
  <2>5. StagesSorted'
    <3>1. /\ Sorted(outbuf') /\ BeforeAll(S, outbuf')
          /\ BeforeAll(cur, outbuf') /\ Before(cur, S)
          /\ \A i \in 1 .. Len(inbox) : BeforeAll(inbox[i], outbuf') /\ Before(inbox[i], S)
      BY <1>2, <1>3, <1>9, SortedTail, BeforeAllTail DEF StagesSorted, CleanOK, S
    <3>2. BeforeAll(cur, inbox') /\ Sorted(inbox')
      BY <1>3, <1>4, <1>9, <2>2, <3>1, BeforeAllAppend, SortedAppend DEF StagesSorted, CleanOK
    <3>3. \A i \in 1 .. Len(inbox') : inbox'[i] = S \/ \E j \in 1 .. Len(inbox) : inbox'[i] = inbox[j]
      BY <1>3, <1>4, <2>2, AppendProperties
    <3> QED
      BY <1>2, <3>1, <3>2, <3>3 DEF StagesSorted
  <2>6. CurrentOK'
    BY <1>2, <1>9, <2>2 DEF CurrentOK, CleanOK
  <2> QED
    BY <1>2, <1>9, <2>1, <2>3, <2>4, <2>5, <2>6, ChainKept DEF CleanOK
<1> QED
  BY <1>1, <1>2, <1>8, <1>9, ChainKept DEF CleanOK

\* The snapshots, and the subscription: after a quiet start the ledger stands
\* at the end of the sealed chain and nothing waits.
LEMMA MirrorBoot == MirrorInv /\ Boot => MirrorInv'
<1> SUFFICES ASSUME MirrorInv, Boot PROVE MirrorInv'
  OBVIOUS
<1> USE DEF MirrorInv
<1>1. TypeInv'
  BY TypeBoot
<1>2. /\ UNCHANGED chainVars
      /\ UNCHANGED <<ixState, lastIndexed, outbuf, inbox, cur, ev, step, known, applied>>
      /\ Pending' = Pending /\ Done' = Done
  BY DEF Boot, CustodyStart, Snapshot, Subscribe, indexerVars, historyVars, Pending, Done
<1>3. EndOf(Tip) \in Nat
  BY TypedFacts
<1>4. CASE CustodyStart
  <2>1. /\ toSnap' = Custody /\ cuState = "down" /\ clean' = FALSE
        /\ cuState' = IF Custody = {} THEN "dial" ELSE "boot"
        /\ ledger' = [a \in Custody |-> 0] /\ snapAt' = [a \in Custody |-> 0]
    BY <1>4 DEF CustodyStart, EmptyLedger, Custodied
  <2>2. SealedOK' /\ BootOK'
    BY <1>2, <1>3, <2>1, ChainKept DEF SealedOK, BootOK
  <2> QED
    BY <1>1, <1>2, <2>1, <2>2, ChainKept DEF CleanOK
<1>5. ASSUME NEW a \in Custody, Snapshot(a) PROVE MirrorInv'
  <2>1. /\ cuState = "boot" /\ a \in toSnap
        /\ ledger' = [ledger EXCEPT ![a] = @ + LatestBalances[a]]
        /\ snapAt' = [snapAt EXCEPT ![a] = EndOf(Tip)]
        /\ toSnap' = toSnap \ {a} /\ clean' = clean
        /\ cuState' = IF toSnap = {a} THEN "dial" ELSE "boot"
        /\ ledger \in [Custody -> Int] /\ snapAt \in [Custody -> Nat]
    BY <1>5 DEF Snapshot, UpdateBalance, TypeInv, TypeOK
  <2>2. LatestBalances[a] \in Int
    BY TypedFacts, BalancesTyped, ChainAssumption DEF LatestBalances
  <2>3. ledger'[a] = BalancesAfter(EndOf(Tip))[a] /\ snapAt'[a] = EndOf(Tip)
    BY <2>1, <2>2 DEF BootOK, LatestBalances
  <2>4. \A b \in Custody \ {a} : ledger'[b] = ledger[b] /\ snapAt'[b] = snapAt[b]
    BY <2>1
  <2>5. \A b \in Custody :
          ledger'[b] = IF b \in toSnap' THEN 0 ELSE BalancesAfter(snapAt'[b])[b]
    BY <2>1, <2>3, <2>4 DEF BootOK
  <2>6. BootOK'
    BY <1>2, <2>1, <2>5, ChainKept DEF BootOK
  <2>7. SealedOK'
    BY <1>2, <1>3, <2>3, <2>4, ChainKept DEF SealedOK
  <2> QED
    BY <1>1, <1>2, <2>1, <2>6, <2>7, ChainKept DEF CleanOK
<1>6. CASE Subscribe
  <2>1. /\ cuState = "dial" /\ cuState' = "run" /\ clean' = QuietStart
        /\ UNCHANGED <<toSnap, ledger, snapAt>>
    BY <1>6 DEF Subscribe
  <2>2. SealedOK' /\ BootOK'
    BY <1>2, <2>1, ChainKept DEF SealedOK, BootOK
  <2>3. ASSUME QuietStart PROVE CleanOK'
    <3>0. PICK c \in Nat : c = EndOf(Tip)
      BY <1>3
    <3>1. /\ \A a \in Custody : snapAt[a] = c
          /\ ixState # "down" /\ lastIndexed = Tip /\ lastIndexed # 0 /\ outbuf = <<>>
          /\ inbox = <<>> /\ cur = {} /\ step = "lookup"
          /\ \A a \in Custody : ledger[a] = BalancesAfter(snapAt[a])[a]
      BY <2>1, <2>3, <3>0 DEF QuietStart, BootOK
    <3>2. Pending' = {}
      BY <1>2, <3>1, PendingEmpty
    <3>3. EndOf(lastIndexed)' = c
      BY <1>2, <3>0, <3>1, ChainKept
    <3>4. \A a \in Custody : BalancesAfter(c)[a] \in Int /\ Half(a)' = 0
      <4>1. BalancesAfter(c) \in [Addr -> Int]
        BY <3>0, TypedFacts, BalancesTyped
      <4> QED
        BY <1>2, <3>1, <4>1, ChainAssumption DEF Half
    <3>5. Done \subseteq 1 .. c
      BY <3>0 DEF SealedOK
    <3>6. StandsAt(c)'
      <4>1. \A i \in 1 .. Len(applied) : applied[i] <= c
        BY <3>5 DEF Done
      <4>2. \A a \in Custody : ledger'[a] = BalancesAfter(c)'[a] - Half(a)'
        BY <1>2, <2>1, <3>1, <3>4, ChainKept
      <4> QED
        BY <1>2, <2>1, <3>1, <4>1, <4>2 DEF StandsAt, Done
    <3>7. Complements(c)'
      BY <3>2, <3>3 DEF Complements
    <3>8. CurrentOK' /\ StagesSorted'
      BY <1>2, <3>1, BeforeAllEmpty DEF CurrentOK, StagesSorted
    <3>9. Tip \in Nat /\ Tip' = Tip /\ c \in 0 .. EndOf(lastIndexed)'
      BY <1>2, <3>0, <3>1, TypedFacts, ChainKept
    <3> QED
      BY <1>2, <2>1, <3>1, <3>6, <3>7, <3>8, <3>9 DEF CleanOK
  <2> QED
    BY <1>1, <1>2, <2>1, <2>2, <2>3, ChainKept DEF CleanOK
<1> QED
  BY <1>4, <1>5, <1>6 DEF Boot
\* The event in progress is the next one that matters: completing it takes
\* every custodied balance from the position the ledger stands at to its own.
LEMMA EventCompletes ==
  ASSUME MirrorInv, clean, step # "lookup",
         NEW c \in 0 .. EndOf(lastIndexed), StandsAt(c), Complements(c)
  PROVE  /\ ev \in Pending /\ ev \in 1 .. EndOf(Tip) /\ c < ev /\ known # {}
         /\ \A q \in Pending : ev <= q
         /\ \A q \in Held(inbox) \cup Held(outbuf) : ev < q
         /\ \A a \in Custody :
              BalancesAfter(ev)[a] = BalancesAfter(c)[a]
                                     - (IF Event.from = a THEN Event.amount ELSE 0)
                                     + (IF Event.to = a THEN Event.amount ELSE 0)
<1> USE DEF MirrorInv
<1>1. /\ ev \in cur /\ \A q \in cur : ev <= q
      /\ Event.token = USDC /\ known = {Event.from, Event.to} \cap Custody
      /\ lastIndexed <= Tip /\ StagesSorted
  BY DEF CleanOK, CurrentOK
<1>2. /\ log \in Seq(Entry) /\ ends \in Seq(Nat) /\ ChainOK /\ Tip \in Nat
      /\ lastIndexed \in Nat /\ EndOf(Tip) \in 0 .. Len(log) /\ Len(log) \in Nat
  BY TypedFacts
<1>3. /\ EndOf(lastIndexed) \in Nat /\ EndOf(lastIndexed) <= EndOf(Tip)
  BY <1>1, <1>2, EndOfTyped, EndOfMonotone
<1>4. /\ ev \in Pending /\ \A q \in Pending : ev <= q
      /\ \A q \in Held(inbox) \cup Held(outbuf) : ev < q
  BY <1>1, FirstOfPending
<1>5. ev \in 1 .. EndOf(Tip) /\ c < ev /\ ev <= EndOf(lastIndexed) /\ Relevant(ev)
  BY <1>4 DEF Complements, SealedOK
<1>6. known # {}
  BY <1>1, <1>5 DEF Relevant, Event
<1>7. ASSUME NEW a \in Custody
      PROVE  BalancesAfter(ev)[a] = BalancesAfter(c)[a]
                                    - (IF Event.from = a THEN Event.amount ELSE 0)
                                    + (IF Event.to = a THEN Event.amount ELSE 0)
  <2>1. c \in 0 .. Len(log) /\ ev - 1 \in 0 .. Len(log) /\ c <= ev - 1 /\ ev \in 1 .. Len(log)
    BY <1>2, <1>3, <1>5
  <2>2. ASSUME NEW q \in c + 1 .. ev - 1 PROVE ~ MovesBalance(q, a)
    <3>1. q \in c + 1 .. EndOf(lastIndexed) /\ ~ (ev <= q)
      BY <1>3, <1>5, <2>1
    <3>2. ~ (log[q].event.token = USDC /\ Relevant(q))
      BY <1>4, <3>1 DEF Complements
    <3> QED
      BY <3>2 DEF MovesBalance, Relevant
  <2>3. BalancesAfter(ev - 1)[a] = BalancesAfter(c)[a]
    BY <2>1, <2>2 DEF LogOK
  <2>4. BalancesAfter(ev) = Settle(BalancesAfter(ev - 1), Event)
    BY <1>1, <2>1 DEF LogOK, Event
  <2>5. BalancesAfter(ev - 1) \in [Addr -> Int] /\ Event \in Transfers
    BY <1>2, <2>1, BalancesTyped, TypedFacts DEF Event
  <2> QED
    BY <2>3, <2>4, <2>5, SettleAt
<1> QED
  BY <1>4, <1>5, <1>6, <1>7

\* Taking an event, and giving up on one of another token.
LEMMA MirrorTake ==
  ASSUME MirrorInv, NEW p \in cur, Ignore(p) \/ Lookup(p)
  PROVE  MirrorInv'
<1> USE DEF MirrorInv
<1>1. TypeInv'
  BY TypeConsume DEF Consume
<1>2. /\ step = "lookup" /\ \A q \in cur : p <= q
      /\ UNCHANGED chainVars /\ UNCHANGED <<log, ends>>
      /\ UNCHANGED <<ixState, lastIndexed, outbuf, cuState, toSnap, ledger, inbox,
                     snapAt, applied, clean>>
      /\ cur' \subseteq cur /\ step' \in {"lookup", "debit"}
      /\ Done' = Done
  BY DEF Ignore, Lookup, Takes, indexerVars, historyVars, chainVars, Done
<1>3. cuState = "run"
  BY DEF BootOK
<1>4. Pending' \subseteq Pending
  BY <1>2 DEF Pending
<1>5. SealedOK' /\ BootOK'
  BY <1>2, <1>3, <1>4, ChainKept DEF SealedOK, BootOK
<1>6. ASSUME clean PROVE CleanOK'
  <2>1. PICK c \in 0 .. EndOf(lastIndexed) : StandsAt(c) /\ Complements(c)
    BY <1>6 DEF CleanOK
  <2>2. StandsAt(c)'
    BY <1>2, <2>1, ChainKept DEF StandsAt, Half
  <2>3. \A q \in Pending \ Pending' : log[q].event.token # USDC
    <3>1. CASE Ignore(p)
      BY <1>2, <3>1 DEF Ignore, Pending
    <3>2. CASE Lookup(p)
      BY <1>2, <3>2 DEF Lookup, Pending
    <3> QED
      BY <3>1, <3>2
  <2>4. Complements(c)'
    BY <1>2, <1>4, <2>1, <2>3, ChainKept DEF Complements
  <2>5. StagesSorted'
    BY <1>2, <1>6 DEF StagesSorted, CleanOK, BeforeAll, Before
  <2>6. CurrentOK'
    <3>1. CASE Ignore(p)
      BY <1>2, <3>1 DEF Ignore, CurrentOK
    <3>2. CASE Lookup(p)
      <4>1. /\ ev' = p /\ cur' = cur /\ log[p].event.token = USDC
            /\ known' = Custodied({log[p].event.from, log[p].event.to})
        BY <3>2 DEF Lookup
      <4>2. Event' = log[p].event
        BY <1>2, <4>1 DEF Event
      <4> QED
        BY <1>2, <4>1, <4>2 DEF CurrentOK, Custodied
    <3> QED
      BY <3>1, <3>2
  <2> QED
    BY <1>2, <1>6, <2>1, <2>2, <2>4, <2>5, <2>6, ChainKept DEF CleanOK
<1> QED
  BY <1>1, <1>2, <1>5, <1>6, ChainKept DEF CleanOK

\* A message is taken from the subscription's queue.
LEMMA MirrorReceive ==
  ASSUME MirrorInv, Receive
  PROVE  MirrorInv'
<1> USE DEF MirrorInv
<1>1. TypeInv'
  BY TypeConsume DEF Consume
<1>2. /\ cuState = "run" /\ cur = {} /\ inbox # <<>>
      /\ cur' = Head(inbox) /\ inbox' = Tail(inbox)
      /\ UNCHANGED chainVars /\ UNCHANGED <<log, ends>>
      /\ UNCHANGED <<ixState, lastIndexed, outbuf, cuState, toSnap, ledger, step,
                     snapAt, applied, clean>>
      /\ step = "lookup" /\ Done' = Done
  BY DEF Receive, indexerVars, historyVars, chainVars, Done, TypeInv, PositionsOK
<1>3. outbuf \in Seq(SUBSET Nat) /\ inbox \in Seq(SUBSET Nat)
  BY DEF TypeInv, TypeOK
<1>4. Pending' = Pending
  <2>1. Held(inbox) = cur' \cup Held(inbox')
    BY <1>2, <1>3, HeldTail
  <2> QED
    BY <1>2, <2>1 DEF Pending
<1>5. SealedOK' /\ BootOK'
  BY <1>2, <1>4, ChainKept DEF SealedOK, BootOK
<1>6. ASSUME clean PROVE CleanOK'
  <2>1. PICK c \in 0 .. EndOf(lastIndexed) : StandsAt(c) /\ Complements(c)
    BY <1>6 DEF CleanOK
  <2>2. StandsAt(c)' /\ Complements(c)' /\ CurrentOK'
    <3>1. StandsAt(c)'
      BY <1>2, <2>1, ChainKept DEF StandsAt, Half
    <3>2. Complements(c)'
      BY <1>2, <1>4, <2>1, ChainKept DEF Complements
    <3> QED
      BY <1>2, <3>1, <3>2 DEF CurrentOK
  <2>3. StagesSorted'
    <3>1. Sorted(inbox') /\ BeforeAll(cur', inbox')
      BY <1>2, <1>3, <1>6, SortedTail DEF StagesSorted, CleanOK
    <3>2. 1 \in 1 .. Len(inbox) /\ Head(inbox) = inbox[1]
      BY <1>2, <1>3, HeadTailProperties
    <3>3. BeforeAll(cur', outbuf) /\ \A i \in 1 .. Len(inbox') : BeforeAll(inbox'[i], outbuf)
      BY <1>2, <1>3, <1>6, <3>2, TailElements DEF StagesSorted, CleanOK
    <3> QED
      BY <1>2, <1>6, <3>1, <3>3 DEF StagesSorted, CleanOK
  <2> QED
    BY <1>2, <1>6, <2>1, <2>2, <2>3, ChainKept DEF CleanOK
<1> QED
  BY <1>1, <1>2, <1>5, <1>6, ChainKept DEF CleanOK

\* The debit of the event in progress.
LEMMA MirrorDebit ==
  ASSUME MirrorInv, Debit
  PROVE  MirrorInv'
<1> USE DEF MirrorInv
<1>1. TypeInv'
  BY TypeConsume DEF Consume
<1>2. /\ step = "debit" /\ step' = "credit"
      /\ ledger' = IF Event.from \in known
                   THEN [ledger EXCEPT ![Event.from] = @ - Event.amount]
                   ELSE ledger
      /\ UNCHANGED chainVars /\ UNCHANGED <<log, ends>>
      /\ UNCHANGED <<ixState, lastIndexed, outbuf, cuState, toSnap, inbox, cur, ev, known,
                     snapAt, applied, clean>>
      /\ Done' = Done /\ Pending' = Pending /\ Event' = Event
  <2>1. ledger \in [Custody -> Int] /\ ev \in 1 .. Len(log) /\ step # "lookup"
    BY DEF Debit, TypeInv, TypeOK, PositionsOK
  <2>2. Event.amount \in Int
    BY <2>1, TypedFacts DEF Event
  <2>3. \A a \in Custody : ledger[a] + (- Event.amount) = ledger[a] - Event.amount
    BY <2>1, <2>2
  <2> QED
    BY <2>1, <2>3
       DEF Debit, UpdateBalance, indexerVars, historyVars, chainVars, Done, Pending, Event,
           TypeInv, TypeOK
<1>3. cuState = "run"
  BY <1>2 DEF BootOK
<1>4. SealedOK' /\ BootOK'
  BY <1>2, <1>3, ChainKept DEF SealedOK, BootOK
<1>5. ASSUME clean PROVE CleanOK'
  <2>1. PICK c \in 0 .. EndOf(lastIndexed) : StandsAt(c) /\ Complements(c)
    BY <1>5 DEF CleanOK
  <2>2. known = {Event.from, Event.to} \cap Custody
    BY <1>2, <1>5 DEF CleanOK, CurrentOK
  <2>3. ASSUME NEW a \in Custody PROVE ledger'[a] = BalancesAfter(c)[a] - Half(a)'
    <3>1. /\ BalancesAfter(c)[a] - Half(a) = ledger[a] /\ Half(a) = 0
          /\ ledger \in [Custody -> Int]
      BY <1>2, <2>1 DEF StandsAt, Half, TypeInv, TypeOK
    <3>2. c \in 0 .. Len(log)
      <4>1. EndOf(lastIndexed) \in 0 .. Len(log)
        BY <1>5, TypedFacts, EndOfTyped DEF CleanOK
      <4> QED
        BY <2>1, <4>1, TypedFacts
    <3>3. BalancesAfter(c)[a] \in Int
      BY <3>2, TypedFacts, BalancesTyped, ChainAssumption
    <3>4. Half(a)' = IF Event.from = a THEN Event.amount ELSE 0
      BY <1>2 DEF Half
    <3>5. Event.from = a => ledger'[a] = ledger[a] - Event.amount
      BY <1>2, <2>2, <3>1
    <3>6. Event.from # a => ledger'[a] = ledger[a]
      BY <1>2, <2>2, <3>1
    <3> QED
      BY <3>1, <3>3, <3>4, <3>5, <3>6
  <2>4. StandsAt(c)'
    BY <1>2, <2>1, <2>3, ChainKept DEF StandsAt
  <2>5. Complements(c)'
    BY <1>2, <2>1, ChainKept DEF Complements
  <2>6. CurrentOK' /\ StagesSorted'
    BY <1>2, <1>5 DEF CurrentOK, StagesSorted, CleanOK
  <2> QED
    BY <1>2, <1>5, <2>1, <2>4, <2>5, <2>6, ChainKept DEF CleanOK
<1> QED
  BY <1>1, <1>2, <1>4, <1>5, ChainKept DEF CleanOK
\* The credit, after which the ledger stands at the event.
LEMMA MirrorCredit ==
  ASSUME MirrorInv, Credit
  PROVE  MirrorInv'
<1> USE DEF MirrorInv
<1>1. TypeInv'
  BY TypeConsume DEF Consume
<1>2. /\ step = "credit" /\ step' = "lookup" /\ cur' = cur \ {ev}
      /\ ledger' = IF Event.to \in known THEN UpdateBalance(Event.to, Event.amount) ELSE ledger
      /\ applied' = IF known = {} THEN applied ELSE Append(applied, ev)
      /\ UNCHANGED chainVars /\ UNCHANGED <<log, ends>>
      /\ UNCHANGED <<ixState, lastIndexed, outbuf, cuState, toSnap, inbox, ev, known,
                     snapAt, clean>>
  BY DEF Credit, indexerVars, chainVars
<1>3. /\ ev \in cur /\ cuState = "run" /\ ev \in 1 .. Len(log)
      /\ applied \in Seq(Nat) /\ ledger \in [Custody -> Int]
      /\ cur \in SUBSET Nat /\ ev \in Nat /\ snapAt \in [Custody -> Nat]
  BY <1>2 DEF TypeInv, TypeOK, PositionsOK, BootOK
<1>4. /\ Done' \subseteq Done \cup {ev}
      /\ known # {} => Done' = Done \cup {ev}
  <2>1. CASE known = {}
    BY <1>2, <2>1 DEF Done
  <2>2. CASE known # {}
    <3>1. /\ Len(applied') = Len(applied) + 1 /\ Len(applied) \in Nat
          /\ applied'[Len(applied) + 1] = ev
          /\ \A i \in 1 .. Len(applied) : applied'[i] = applied[i]
      BY <1>2, <1>3, <2>2, AppendProperties
    <3>2. \A i \in 1 .. Len(applied') : i \in 1 .. Len(applied) \/ i = Len(applied) + 1
      BY <3>1
    <3>3. Len(applied) + 1 \in 1 .. Len(applied') /\ 1 .. Len(applied) \subseteq 1 .. Len(applied')
      BY <3>1
    <3> QED
      BY <2>2, <3>1, <3>2, <3>3 DEF Done
  <2> QED
    BY <2>1, <2>2
<1>5. Pending' \subseteq Pending
  BY <1>2 DEF Pending
<1>6. SealedOK'
  <2>1. ev \in Pending
    BY <1>3 DEF Pending
  <2> QED
    BY <1>2, <1>4, <1>5, <2>1, ChainKept DEF SealedOK
<1>7. BootOK'
  BY <1>2, <1>3 DEF BootOK
<1>8. ASSUME clean PROVE CleanOK'
  <2>1. PICK c \in 0 .. EndOf(lastIndexed) : StandsAt(c) /\ Complements(c)
    BY <1>8 DEF CleanOK
  <2>2. /\ ev \in Pending /\ ev \in 1 .. EndOf(Tip) /\ c < ev /\ known # {}
        /\ \A q \in Pending : ev <= q
        /\ \A q \in Held(inbox) \cup Held(outbuf) : ev < q
        /\ \A a \in Custody :
             BalancesAfter(ev)[a] = BalancesAfter(c)[a]
                                    - (IF Event.from = a THEN Event.amount ELSE 0)
                                    + (IF Event.to = a THEN Event.amount ELSE 0)
    BY <1>2, <1>8, <2>1, EventCompletes
  <2>3. /\ EndOf(lastIndexed) \in 0 .. Len(log) /\ c \in 0 .. Len(log)
        /\ Len(log) \in Nat /\ EndOf(lastIndexed) \in Nat /\ c \in Nat
    <3>1. EndOf(lastIndexed) \in 0 .. Len(log) /\ Len(log) \in Nat
      BY <1>8, TypedFacts, EndOfTyped DEF CleanOK
    <3> QED
      BY <2>1, <3>1
  <2>4. ev \in 0 .. EndOf(lastIndexed)
    BY <1>3, <2>1, <2>2, <2>3 DEF Complements
  <2>5. known = {Event.from, Event.to} \cap Custody
    BY <1>2, <1>8 DEF CleanOK, CurrentOK
  <2>6. ASSUME NEW a \in Custody PROVE ledger'[a] = BalancesAfter(ev)[a] - Half(a)'
    <3>1. Event.amount \in Int /\ Half(a)' = 0
      BY <1>2, <1>3, TypedFacts DEF Event, Half
    <3>2. /\ BalancesAfter(c) \in [Addr -> Int] /\ a \in Addr
          /\ BalancesAfter(ev) \in [Addr -> Int]
      <4>1. log \in Seq(Entry) /\ ev \in 0 .. Len(log)
        BY <1>3, TypedFacts
      <4>2. BalancesAfter(c) \in [Addr -> Int] /\ BalancesAfter(ev) \in [Addr -> Int]
        BY <2>3, <4>1, BalancesTyped
      <4> QED
        BY <4>2, ChainAssumption
    <3>3. ledger[a] = BalancesAfter(c)[a] - (IF Event.from = a THEN Event.amount ELSE 0)
      BY <1>2, <2>1 DEF StandsAt, Half
    <3>4. ledger'[a] = ledger[a] + (IF Event.to = a THEN Event.amount ELSE 0)
      <4>1. CASE Event.to = a
        BY <1>2, <1>3, <2>5, <4>1 DEF UpdateBalance
      <4>2. CASE Event.to # a
        BY <1>2, <1>3, <3>1, <4>2 DEF UpdateBalance
      <4> QED
        BY <4>1, <4>2
    <3>5. BalancesAfter(c)[a] \in Int /\ BalancesAfter(ev)[a] \in Int
      BY <3>2
    <3> QED
      BY <2>2, <3>1, <3>3, <3>4, <3>5
  <2>7. ASSUME NEW e, e = ev PROVE StandsAt(e)'
    <3>1. \A a \in Custody : snapAt[a] <= e
      <4>1. \A a \in Custody : snapAt[a] \in Nat /\ snapAt[a] <= c
        BY <1>3, <2>1 DEF StandsAt
      <4> QED
        BY <1>3, <2>2, <2>3, <2>7, <4>1
    <3>2. \A i \in 1 .. Len(applied') : applied'[i] <= e
      <4>1. \A p \in Done : p \in Nat /\ p <= c
        BY <1>3, <2>1, ElementOfSeq DEF StandsAt, Done
      <4>2. \A p \in Done' : p <= e
        BY <1>3, <1>4, <2>2, <2>3, <2>7, <4>1
      <4> QED
        BY <4>2 DEF Done
    <3>3. e \in Done'
      BY <1>4, <2>2, <2>7
    <3> QED
      BY <1>2, <2>6, <2>7, <3>1, <3>2, <3>3, ChainKept DEF StandsAt
  <2>8. ASSUME NEW e, e = ev PROVE Complements(e)'
    <3>1. ASSUME NEW p \in e + 1 .. EndOf(lastIndexed), log[p].event.token = USDC, Relevant(p)
          PROVE  p \in Pending'
      <4>1. p \in c + 1 .. EndOf(lastIndexed) /\ p # ev
        BY <1>3, <2>2, <2>3, <2>8
      <4>2. p \in Pending
        BY <2>1, <3>1, <4>1 DEF Complements
      <4> QED
        BY <1>2, <4>1, <4>2 DEF Pending
    <3>2. ASSUME NEW p \in Pending' PROVE e < p /\ p <= EndOf(lastIndexed) /\ Relevant(p)
      <4>1. p \in Pending /\ (p \in cur \ {ev} \/ p \in Held(inbox) \cup Held(outbuf))
        BY <1>2, <3>2 DEF Pending
      <4>2. p # ev /\ ev <= p
        BY <1>3, <2>2, <4>1
      <4>3. p \in Nat
        BY <4>1, TypedFacts DEF SealedOK
      <4> QED
        BY <1>3, <2>1, <2>8, <4>1, <4>2, <4>3 DEF Complements
    <3> QED
      BY <1>2, <3>1, <3>2, ChainKept DEF Complements
  <2>9. StagesSorted' /\ CurrentOK'
    BY <1>2, <1>8 DEF StagesSorted, CurrentOK, CleanOK, BeforeAll, Before
  <2>10. \E e \in 0 .. EndOf(lastIndexed) : StandsAt(e)' /\ Complements(e)'
    BY <2>4, <2>7, <2>8
  <2> QED
    BY <1>2, <1>8, <2>9, <2>10, ChainKept DEF CleanOK
<1> QED
  BY <1>1, <1>2, <1>6, <1>7, <1>8, ChainKept DEF CleanOK

\* After a fault the ledger promises nothing, but what remains in the
\* pipeline was sealed.
LEMMA MirrorFault == MirrorInv /\ Fault => MirrorInv'
<1> SUFFICES ASSUME MirrorInv, Fault PROVE MirrorInv'
  OBVIOUS
<1> USE DEF MirrorInv
<1>1. TypeInv'
  BY TypeFault
<1>2. /\ UNCHANGED chainVars /\ UNCHANGED <<snapAt, applied>> /\ clean' = FALSE
      /\ Done' = Done
  BY DEF Fault, LoseIndexer, IndexerExit, IndexerDies, Drop, CustodyExit, LookupFails, Done
<1>3. outbuf \in Seq(SUBSET Nat)
  BY DEF TypeInv, TypeOK
<1>4. Pending' \subseteq Pending /\ BootOK'
  <2>1. CASE LoseIndexer
    <3>1. /\ outbuf' = <<>>
          /\ UNCHANGED <<cuState, toSnap, ledger, inbox, cur, step>>
      BY <2>1 DEF LoseIndexer, IndexerExit, IndexerDies, custodyVars
    <3> QED
      BY <1>2, <3>1, HeldEmpty, ChainKept DEF Pending, BootOK
  <2>2. CASE Drop
    <3>1. /\ outbuf # <<>> /\ outbuf' = Tail(outbuf)
          /\ UNCHANGED <<cuState, toSnap, ledger, inbox, cur, step>>
      BY <2>2 DEF Drop, custodyVars
    <3>2. Held(outbuf') \subseteq Held(outbuf)
      BY <1>3, <3>1, HeldTail
    <3> QED
      BY <1>2, <3>1, <3>2, ChainKept DEF Pending, BootOK
  <2>3. CASE CustodyExit
    <3>1. /\ cuState' = "down" /\ inbox' = <<>> /\ cur' = {} /\ step' = "lookup"
          /\ outbuf' = outbuf
      BY <2>3 DEF CustodyExit, indexerVars
    <3> QED
      BY <3>1, HeldEmpty DEF Pending, BootOK
  <2>4. ASSUME NEW p \in cur, LookupFails(p) PROVE Pending' \subseteq Pending /\ BootOK'
    <3>1. cuState = "run" /\ UNCHANGED <<cuState, inbox, cur, outbuf>>
      BY <2>4 DEF LookupFails, BootOK, indexerVars
    <3> QED
      BY <3>1 DEF Pending, BootOK
  <2> QED
    BY <2>1, <2>2, <2>3, <2>4 DEF Fault
<1>5. SealedOK'
  BY <1>2, <1>4, ChainKept DEF SealedOK
<1> QED
  BY <1>1, <1>2, <1>4, <1>5, ChainKept DEF CleanOK

LEMMA MirrorStutter == MirrorInv /\ UNCHANGED vars => MirrorInv'
<1> SUFFICES ASSUME MirrorInv, UNCHANGED vars PROVE MirrorInv'
  OBVIOUS
<1> USE DEF MirrorInv
<1>1. TypeInv'
  BY TypeStutter
<1>2. /\ UNCHANGED chainVars
      /\ UNCHANGED <<log, ends, ixState, lastIndexed, outbuf, cuState, toSnap, ledger, inbox,
                     cur, ev, step, known, snapAt, applied, clean>>
      /\ Pending' = Pending /\ Done' = Done /\ Event' = Event
  BY DEF vars, chainVars, indexerVars, custodyVars, historyVars, Pending, Done, Event
<1>3. SealedOK' /\ BootOK'
  BY <1>2, ChainKept DEF SealedOK, BootOK
<1>4. ASSUME clean PROVE CleanOK'
  <2>1. PICK c \in 0 .. EndOf(lastIndexed) : StandsAt(c) /\ Complements(c)
    BY <1>4 DEF CleanOK
  <2>2. StandsAt(c)'
    BY <1>2, <2>1, ChainKept DEF StandsAt, Half
  <2>3. Complements(c)'
    BY <1>2, <2>1, ChainKept DEF Complements
  <2>4. CurrentOK' /\ StagesSorted'
    BY <1>2, <1>4 DEF CurrentOK, StagesSorted, CleanOK
  <2> QED
    BY <1>2, <1>4, <2>1, <2>2, <2>3, <2>4, ChainKept DEF CleanOK
<1> QED
  BY <1>1, <1>2, <1>3, <1>4, ChainKept DEF CleanOK

-----------------------------------------------------------------------------
(* What follows. *)

LEMMA MirrorNextStep == MirrorInv /\ [Next]_vars => MirrorInv'
<1>1. MirrorInv /\ Index => MirrorInv'
  BY MirrorTicks, MirrorIndexBlock DEF Index, IndexerStep
<1>2. MirrorInv /\ Consume => MirrorInv'
  BY MirrorReceive, MirrorTake, MirrorDebit, MirrorCredit DEF Consume
<1> QED
  BY <1>1, <1>2, MirrorMine, MirrorStartIndexer, MirrorFlush, MirrorBoot, MirrorFault,
     MirrorStutter DEF Next

\* The inductive invariant of this module.
THEOREM MirrorInvariant == Spec => []MirrorInv
<1> QED
  BY MirrorInit, MirrorNextStep, PTL DEF Spec

\* After a quiet start, and without a fault since, the ledger equals the
\* chain's balances whenever the pipeline is empty.
THEOREM ExactWhenAtRest == Spec => []ExactAtRest
<1>1. MirrorInv => ExactAtRest
  <2> SUFFICES ASSUME MirrorInv, clean, AtRest, NEW a \in Custody
               PROVE  ledger[a] = LatestBalances[a]
    BY DEF ExactAtRest
  <2> USE DEF MirrorInv
  <2>1. PICK c \in 0 .. EndOf(lastIndexed) : StandsAt(c) /\ Complements(c)
    BY DEF CleanOK
  <2>2. Pending = {} /\ lastIndexed = Tip /\ step = "lookup"
    BY PendingEmpty DEF AtRest, TypeInv, PositionsOK
  <2>3. /\ EndOf(Tip) \in 0 .. Len(log) /\ c \in 0 .. Len(log) /\ c <= EndOf(Tip)
    BY <2>1, <2>2, TypedFacts
  <2>4. \A q \in c + 1 .. EndOf(Tip) : ~ MovesBalance(q, a)
    BY <2>1, <2>2 DEF Complements, MovesBalance, Relevant
  <2>5. BalancesAfter(EndOf(Tip))[a] = BalancesAfter(c)[a]
    BY <2>3, <2>4 DEF LogOK
  <2>6. ledger[a] = BalancesAfter(c)[a] - 0
    BY <2>1, <2>2 DEF StandsAt, Half
  <2>7. BalancesAfter(c)[a] \in Int
    BY <2>3, TypedFacts, BalancesTyped, ChainAssumption
  <2> QED
    BY <2>5, <2>6, <2>7 DEF LatestBalances
<1> QED
  BY <1>1, MirrorInvariant, PTL

\* After a quiet start, and as long as nothing fails, a balance the API
\* reports is stale at worst: the chain had it, at the snapshot or later.
THEOREM BalancesArePast == Spec => []BalanceIsPast
<1>1. MirrorInv => BalanceIsPast
  <2> SUFFICES ASSUME MirrorInv, clean, NEW a \in Custody, ~ InSelfTransfer(a)
               PROVE  \E k \in snapAt[a] .. EndOf(Tip) : ledger[a] = BalancesAfter(k)[a]
    BY DEF BalanceIsPast
  <2>1. PICK c \in 0 .. EndOf(lastIndexed) : StandsAt(c) /\ Complements(c)
    BY DEF MirrorInv, CleanOK
  <2>2. /\ EndOf(lastIndexed) <= EndOf(Tip) /\ EndOf(Tip) \in 0 .. Len(log)
        /\ EndOf(lastIndexed) \in Nat /\ Len(log) \in Nat
    BY TypedFacts, EndOfTyped, EndOfMonotone DEF MirrorInv, CleanOK
  <2>3. snapAt[a] \in Nat /\ snapAt[a] <= c /\ c \in 0 .. Len(log) /\ c <= EndOf(Tip)
    BY <2>1, <2>2 DEF StandsAt, MirrorInv, TypeInv, TypeOK
  <2>4. BalancesAfter(c)[a] \in Int
    BY <2>3, TypedFacts, BalancesTyped, ChainAssumption DEF MirrorInv
  <2>5. ledger[a] = BalancesAfter(c)[a] - Half(a)
    BY <2>1 DEF StandsAt
  <2>6. CASE step = "credit" /\ Event.from = a
    <3>1. /\ ev \in 1 .. EndOf(Tip) /\ c < ev
          /\ BalancesAfter(ev)[a] = BalancesAfter(c)[a]
                                    - (IF Event.from = a THEN Event.amount ELSE 0)
                                    + (IF Event.to = a THEN Event.amount ELSE 0)
      BY <2>1, <2>6, EventCompletes
    <3>2. Event.to # a /\ Half(a) = Event.amount
      BY <2>6 DEF InSelfTransfer, Half
    <3>3. Event.amount \in Nat
      BY <2>2, <3>1, TypedFacts DEF Event, MirrorInv
    <3>4. ledger[a] = BalancesAfter(ev)[a] /\ ev \in snapAt[a] .. EndOf(Tip)
      BY <2>2, <2>3, <2>4, <2>5, <2>6, <3>1, <3>2, <3>3
    <3> QED
      BY <3>4
  <2>7. CASE ~ (step = "credit" /\ Event.from = a)
    <3>1. ledger[a] = BalancesAfter(c)[a] /\ c \in snapAt[a] .. EndOf(Tip)
      BY <2>2, <2>3, <2>4, <2>5, <2>7 DEF Half
    <3> QED
      BY <3>1
  <2> QED
    BY <2>6, <2>7
<1> QED
  BY <1>1, MirrorInvariant, PTL
-----------------------------------------------------------------------------
(* The refinement. *)

LEMMA GreatestChosen ==
  ASSUME NEW S \in SUBSET Nat, NEW m \in S, \A q \in S : q <= m
  PROVE  (CHOOSE p \in S : \A q \in S : q <= p) = m
<1>1. \A p \in S : (\A q \in S : q <= p) => p = m
  OBVIOUS
<1> QED
  BY <1>1

\* The positions among which Position is the greatest.
Stands ==
  {snapAt[a] : a \in Custody} \cup Done
  \cup (IF step = "credit" /\ known # {} THEN {ev} ELSE {})

LEMMA PositionIs ==
  ASSUME NEW m \in Stands, Stands \subseteq Nat, \A q \in Stands : q <= m
  PROVE  Position = m
<1>1. Position = IF Stands = {} THEN 0 ELSE CHOOSE p \in Stands : \A q \in Stands : q <= p
  BY DEF Position, Stands, Done
<1> QED
  BY <1>1, GreatestChosen

\* While clean, the mirror is at a sealed position and shows its balances.
Shows ==
  clean =>
    /\ Position \in Stands
    /\ \A q \in Stands : q <= Position
    /\ Position \in 0 .. EndOf(Tip)
    /\ Completed = [a \in Custody |-> BalancesAfter(Position)[a]]

LEMMA MirrorShows == MirrorInv /\ Custody # {} => Shows
<1> SUFFICES ASSUME MirrorInv, clean, Custody # {}
             PROVE  /\ Position \in Stands
                    /\ \A q \in Stands : q <= Position
                    /\ Position \in 0 .. EndOf(Tip)
                    /\ Completed = [a \in Custody |-> BalancesAfter(Position)[a]]
  BY DEF Shows
<1> USE DEF MirrorInv
<1>1. PICK c \in 0 .. EndOf(lastIndexed) : StandsAt(c) /\ Complements(c)
  BY DEF CleanOK
<1>2. /\ EndOf(lastIndexed) <= EndOf(Tip) /\ EndOf(Tip) \in 0 .. Len(log)
      /\ EndOf(lastIndexed) \in Nat /\ Len(log) \in Nat
  BY TypedFacts, EndOfTyped, EndOfMonotone DEF CleanOK
<1>3. /\ c \in 0 .. Len(log) /\ c \in Nat /\ c <= EndOf(Tip)
      /\ ledger \in [Custody -> Int] /\ ev \in Nat
      /\ snapAt \in [Custody -> Nat] /\ applied \in Seq(Nat)
  BY <1>1, <1>2 DEF TypeInv, TypeOK
<1>4. /\ {snapAt[a] : a \in Custody} \cup Done \subseteq Nat
      /\ \A q \in {snapAt[a] : a \in Custody} \cup Done : q <= c
      /\ c \in {snapAt[a] : a \in Custody} \cup Done
  <2>1. \A i \in 1 .. Len(applied) : applied[i] \in Nat
    BY <1>3, ElementOfSeq
  <2> QED
    BY <1>1, <1>3, <2>1 DEF StandsAt, Done
<1>5. CASE step = "credit"
  <2>1. /\ ev \in 1 .. EndOf(Tip) /\ c < ev /\ known # {}
        /\ \A a \in Custody :
             BalancesAfter(ev)[a] = BalancesAfter(c)[a]
                                    - (IF Event.from = a THEN Event.amount ELSE 0)
                                    + (IF Event.to = a THEN Event.amount ELSE 0)
    BY <1>1, <1>5, EventCompletes
  <2>2. known = {Event.from, Event.to} \cap Custody
    BY <1>5 DEF CleanOK, CurrentOK
  <2>3. Stands = {snapAt[a] : a \in Custody} \cup Done \cup {ev}
    BY <1>5, <2>1 DEF Stands
  <2>4. Position = ev /\ ev \in Stands /\ \A q \in Stands : q <= ev
    <3>1. ev \in Stands /\ Stands \subseteq Nat /\ \A q \in Stands : q <= ev
      <4>1. \A q \in {snapAt[a] : a \in Custody} \cup Done : q \in Nat /\ q <= c
        BY <1>4
      <4> QED
        BY <1>3, <2>1, <2>3, <4>1
    <3> QED
      BY <3>1, PositionIs
  <2>5. ASSUME NEW a \in Custody
        PROVE  ledger[a] + (IF Event.to = a THEN Event.amount ELSE 0) = BalancesAfter(ev)[a]
    <3>1. Event.amount \in Nat
      BY <1>2, <2>1, TypedFacts DEF Event
    <3>2. BalancesAfter(c)[a] \in Int /\ ledger[a] \in Int
      BY <1>3, TypedFacts, BalancesTyped, ChainAssumption
    <3>3. ledger[a] = BalancesAfter(c)[a] - (IF Event.from = a THEN Event.amount ELSE 0)
      BY <1>1, <1>5 DEF StandsAt, Half
    <3> QED
      BY <2>1, <3>1, <3>2, <3>3
  <2>6. /\ Completed \in [Custody -> Int]
        /\ \A a \in Custody :
             Completed[a] = ledger[a] + (IF Event.to = a THEN Event.amount ELSE 0)
    <3>1. Event.amount \in Nat
      BY <1>2, <2>1, TypedFacts DEF Event
    <3>2. CASE Event.to \in known
      BY <1>3, <1>5, <2>2, <3>1, <3>2 DEF Completed, UpdateBalance
    <3>3. CASE Event.to \notin known
      BY <1>3, <2>2, <3>1, <3>3 DEF Completed
    <3> QED
      BY <3>2, <3>3
  <2>7. Completed = [a \in Custody |-> BalancesAfter(ev)[a]]
    BY <2>5, <2>6
  <2> QED
    BY <1>2, <2>1, <2>4, <2>7
<1>6. CASE step # "credit"
  <2>1. Stands = {snapAt[a] : a \in Custody} \cup Done
    BY <1>6 DEF Stands
  <2>2. Position = c /\ c \in Stands /\ \A q \in Stands : q <= c
    BY <1>4, <2>1, PositionIs
  <2>3. Completed = ledger
    BY <1>6 DEF Completed
  <2>4. \A a \in Custody : ledger[a] = BalancesAfter(c)[a]
    <3>1. ASSUME NEW a \in Custody PROVE ledger[a] = BalancesAfter(c)[a]
      <4>1. BalancesAfter(c)[a] \in Int
        BY <1>3, TypedFacts, BalancesTyped, ChainAssumption
      <4>2. ledger[a] = BalancesAfter(c)[a] - 0
        BY <1>1, <1>6 DEF StandsAt, Half
      <4> QED
        BY <4>1, <4>2
    <3> QED
      BY <3>1
  <2>5. ledger = [a \in Custody |-> BalancesAfter(c)[a]]
    BY <1>3, <2>4
  <2> QED
    BY <1>3, <2>2, <2>3, <2>5
<1> QED
  BY <1>5, <1>6

\* While the promise lasts the mirror only moves forward.
LEMMA StandsGrow ==
  ASSUME MirrorInv, clean, clean', Next
  PROVE  Stands \subseteq Stands'
<1> USE DEF MirrorInv
<1>1. cuState = "run"
  BY DEF CleanOK
<1>2. CASE Mine \/ StartIndexer \/ Index \/ Flush
  BY <1>2 DEF Mine, StartIndexer, Index, Flush, custodyVars, historyVars, Stands, Done
<1>3. CASE Boot
  BY <1>1, <1>3 DEF Boot, CustodyStart, Snapshot, Subscribe
<1>4. CASE Receive
  BY <1>4 DEF Receive, historyVars, Stands, Done
<1>5. ASSUME NEW p \in cur, Ignore(p) \/ Lookup(p) PROVE Stands \subseteq Stands'
  BY <1>5 DEF Ignore, Lookup, Takes, historyVars, Stands, Done
<1>6. CASE Debit
  BY <1>6 DEF Debit, historyVars, Stands, Done
<1>7. CASE Credit
  <2>1. /\ step = "credit" /\ snapAt' = snapAt /\ applied \in Seq(Nat) /\ ev \in Nat
        /\ applied' = IF known = {} THEN applied ELSE Append(applied, ev)
    BY <1>7 DEF Credit, TypeInv, TypeOK
  <2>2. CASE known = {}
    BY <2>1, <2>2 DEF Stands, Done
  <2>3. CASE known # {}
    <3>1. /\ Len(applied') = Len(applied) + 1 /\ Len(applied) \in Nat
          /\ applied'[Len(applied) + 1] = ev
          /\ \A i \in 1 .. Len(applied) : applied'[i] = applied[i]
      BY <2>1, <2>3, AppendProperties
    <3>2. Len(applied) + 1 \in 1 .. Len(applied') /\ 1 .. Len(applied) \subseteq 1 .. Len(applied')
      BY <3>1
    <3>3. Done \cup {ev} \subseteq Done'
      BY <3>1, <3>2 DEF Done
    <3> QED
      BY <2>1, <3>3 DEF Stands
  <2> QED
    BY <2>2, <2>3
<1>8. CASE Fault
  BY <1>8 DEF Fault, LoseIndexer, Drop, CustodyExit, LookupFails
<1> QED
  BY <1>2, <1>3, <1>4, <1>5, <1>6, <1>7, <1>8 DEF Next, Consume
LEMMA MirrorChain ==
  /\ Mirror!ChainInit <=> ChainInit
  /\ Mirror!ChainNext <=> ChainNext
  /\ \A h : Mirror!EndOf(h) = EndOf(h)
  /\ Mirror!Tip = Tip
  /\ \A n : Mirror!View(n) = [a \in Custody |-> BalancesAfter(n)[a]]
<1>1. \A n : Mirror!BalancesAfter(n) = BalancesAfter(n)
  BY DEF Mirror!BalancesAfter, BalancesAfter
<1>2. \A bal, t : Mirror!Settle(bal, t) = Settle(bal, t)
  BY DEF Mirror!Settle, Settle
<1>3. \A bal, t : Mirror!CanSettle(bal, t) <=> CanSettle(bal, t)
  BY DEF Mirror!CanSettle, CanSettle
<1>4. \A h : Mirror!EndOf(h) = EndOf(h)
  BY DEF Mirror!EndOf, EndOf
<1>5. Mirror!Tip = Tip
  BY DEF Mirror!Tip, Tip
<1>6. Mirror!ChainInit <=> ChainInit
  BY DEF Mirror!ChainInit, ChainInit
<1>7. Mirror!SealBlock <=> SealBlock
  BY <1>5 DEF Mirror!SealBlock, SealBlock
<1>8. \A t \in Transfers : Mirror!ExecTx(t) <=> ExecTx(t)
  BY <1>1, <1>2, <1>3, <1>5 DEF Mirror!ExecTx, ExecTx
<1>9. Mirror!ChainNext <=> ChainNext
  BY <1>7, <1>8 DEF Mirror!ChainNext, ChainNext
<1>10. \A n : Mirror!View(n) = [a \in Custody |-> BalancesAfter(n)[a]]
  BY <1>1 DEF Mirror!View
<1> QED
  BY <1>4, <1>5, <1>6, <1>9, <1>10

LEMMA MirrorStarts == SyncInit => Mirror!MirrorInit
<1> SUFFICES ASSUME SyncInit PROVE Mirror!MirrorInit
  OBVIOUS
<1> USE DEF SyncInit
<1>1. Completed = [a \in Custody |-> 0]
  BY DEF Completed, EmptyLedger
<1>2. Position = 0
  <2>1. Stands \subseteq {0}
    BY DEF Stands, Done
  <2>2. CASE Stands = {}
    BY <2>2 DEF Position, Stands, Done
  <2>3. CASE Stands # {}
    <3>1. Stands = {0}
      BY <2>1, <2>3
    <3> QED
      BY <3>1, PositionIs
  <2> QED
    BY <2>2, <2>3
<1> QED
  BY <1>1, <1>2, MirrorChain DEF Mirror!MirrorInit

\* What the replica shows depends on nothing a new log or block could change.
LEMMA MirrorGrows ==
  ASSUME MirrorInv, Mine
  PROVE  Mirror!Grow
<1>1. /\ ChainNext
      /\ UNCHANGED <<clean, snapAt, applied, step, ev, known, ledger, cur>>
  BY DEF Mine, custodyVars, historyVars
<1>2. Position' = Position
  BY <1>1 DEF Position
<1>3. Completed' = Completed
  <2>1. step = "credit" => log'[ev] = log[ev]
    <3>1. step = "credit" => ev \in 1 .. Len(log)
      BY DEF MirrorInv, TypeInv, PositionsOK
    <3> QED
      BY <1>1, <3>1, TypedFacts, ChainStep DEF MirrorInv
  <2> QED
    BY <1>1, <2>1 DEF Completed, UpdateBalance, Event
<1> QED
  BY <1>1, <1>2, <1>3, MirrorChain DEF Mirror!Grow

LEMMA MirrorMoves ==
  ASSUME MirrorInv, MirrorInv', Shows, Shows', [Next]_vars, Custody # {}
  PROVE  [Mirror!MirrorNext]_Mirror!mirrorVars
<1>1. CASE UNCHANGED vars
  <2>1. UNCHANGED <<clean, snapAt, applied, step, ev, known, ledger, log, ends>>
    BY <1>1 DEF vars, chainVars, custodyVars, historyVars
  <2>2. Position' = Position /\ Completed' = Completed
    BY <2>1 DEF Position, Completed, UpdateBalance, Event
  <2> QED
    BY <2>1, <2>2 DEF Mirror!mirrorVars, Mirror!chainVars
<1>2. CASE Mine
  BY <1>2, MirrorGrows DEF Mirror!MirrorNext
<1>3. CASE Next /\ ~ Mine
  <2>1. UNCHANGED chainVars /\ UNCHANGED Mirror!chainVars
    BY <1>3 DEF Next, StartIndexer, IndexerStart, Index, IndexerStep, Tick, ReadTip,
         IndexBlock, PoisonExit, IndexerDies, Flush, Boot, CustodyStart, Snapshot,
         Subscribe, Consume, Receive, Ignore, Lookup, Debit, Credit, Fault, LoseIndexer,
         IndexerExit, Drop, CustodyExit, LookupFails, chainVars, Mirror!chainVars
  <2>2. CASE clean' = FALSE
    BY <2>1, <2>2 DEF Mirror!MirrorNext, Mirror!Lost
  <2>3. clean' \in BOOLEAN /\ clean \in BOOLEAN
    BY DEF MirrorInv, TypeInv, TypeOK
  <2>4. ASSUME clean' = TRUE
        PROVE  /\ Position' \in Stands' /\ \A q \in Stands' : q <= Position'
               /\ Position' \in 0 .. EndOf(Tip)
               /\ Completed' = [a \in Custody |-> BalancesAfter(Position')[a]]
    <3>1. /\ Position' \in Stands' /\ \A q \in Stands' : q <= Position'
          /\ Position' \in 0 .. EndOf(Tip)'
          /\ Completed' = [a \in Custody |-> BalancesAfter(Position)'[a]]
      BY <2>4 DEF Shows
    <3>2. BalancesAfter(Position)' = BalancesAfter(Position')
      BY <2>1 DEF BalancesAfter, chainVars
    <3> QED
      BY <2>1, <3>1, <3>2, ChainKept
  <2>5. CASE clean' = TRUE /\ clean = TRUE
    <3>1. Position \in Stands /\ Position \in 0 .. EndOf(Tip)
      BY <2>5 DEF Shows
    <3>2. Position <= Position'
      BY <1>3, <2>4, <2>5, <3>1, StandsGrow
    <3>3. Position' \in Position .. EndOf(Tip)
      BY <2>4, <2>5, <3>1, <3>2, TypedFacts DEF MirrorInv
    <3> QED
      BY <2>1, <2>4, <2>5, <3>3, MirrorChain DEF Mirror!MirrorNext, Mirror!Follow
  <2>6. CASE clean' = TRUE /\ clean = FALSE
    <3>1. Subscribe /\ QuietStart
      BY <1>3, <2>6
         DEF Next, StartIndexer, IndexerStart, Index, IndexerStep, Tick, ReadTip,
             IndexBlock, PoisonExit, IndexerDies, Flush, Boot, CustodyStart, Snapshot,
             Subscribe, Consume, Receive, Ignore, Lookup, Debit, Credit, Fault,
             LoseIndexer, IndexerExit, Drop, CustodyExit, LookupFails, historyVars
    <3>2. PICK a \in Custody : snapAt'[a] = EndOf(Tip)
      BY <3>1 DEF Subscribe, QuietStart
    <3>3. EndOf(Tip) \in Stands'
      BY <3>2 DEF Stands
    <3>4. Position' = EndOf(Tip)
      BY <2>4, <2>6, <3>3, TypedFacts DEF MirrorInv
    <3> QED
      BY <2>1, <2>4, <2>6, <3>4, MirrorChain DEF Mirror!MirrorNext, Mirror!Begin
  <2> QED
    BY <2>2, <2>3, <2>5, <2>6
<1> QED
  BY <1>1, <1>2, <1>3

\* With an address in custody, the ledger (with the event in progress
\* completed) implements the abstract replica: after a quiet start, and as
\* long as nothing fails, it moves only forward through the balances the
\* chain went through.
THEOREM LedgerMirrorsChain ==
  ASSUME Custody # {}
  PROVE  Spec => MirrorsChain
<1>1. SyncInit => Mirror!MirrorInit
  BY MirrorStarts
<1>2. MirrorInv => Shows
  BY MirrorShows
<1>3. MirrorInv /\ MirrorInv' /\ Shows /\ Shows' /\ [Next]_vars
      => [Mirror!MirrorNext]_Mirror!mirrorVars
  BY MirrorMoves
<1> QED
  BY <1>1, <1>2, <1>3, MirrorInvariant, PTL DEF Spec, MirrorsChain, Mirror!MirrorSpec

-----------------------------------------------------------------------------
(* Catching up from a configured starting block. *)

CatchUpInv ==
  /\ StartingBlock > 0 => lastIndexed >= StartingBlock
  /\ NothingSkipped

\* With a configured starting block no block above it is ever skipped, even
\* by an indexer that crashes and restarts.
THEOREM NoBlockSkipped == Spec => []NothingSkipped
<1>1. SyncInit => CatchUpInv
  BY IndexerAssumption
     DEF SyncInit, ChainInit, IndexerInit, CatchUpInv, NothingSkipped
<1>2. CatchUpInv /\ TypeOK /\ [Next]_vars => CatchUpInv'
  <2> SUFFICES ASSUME CatchUpInv, TypeOK, [Next]_vars PROVE CatchUpInv'
    OBVIOUS
  <2> USE DEF CatchUpInv
  <2> lastIndexed \in Nat /\ Tip \in Nat
    BY DEF TypeOK, Tip
  <2>1. CASE UNCHANGED <<lastIndexed, indexed>>
    BY <2>1 DEF NothingSkipped
  <2>2. CASE Mine
    BY <2>1, <2>2 DEF Mine, indexerVars
  <2>3. CASE StartIndexer
    BY <2>3, IndexerAssumption
       DEF StartIndexer, IndexerStart, NothingSkipped
  <2>4. CASE Index
    <3>1. CASE IndexBlock
      <4>1. /\ lastIndexed' = lastIndexed + 1
            /\ indexed' = indexed \cup {lastIndexed + 1}
        BY <3>1 DEF IndexBlock
      <4>2. \A h \in StartingBlock + 1 .. lastIndexed + 1 :
              h \in StartingBlock + 1 .. lastIndexed \/ h = lastIndexed + 1
        BY IndexerAssumption
      <4> QED
        BY <4>1, <4>2, IndexerAssumption DEF NothingSkipped
    <3>2. CASE Tick
      BY <3>2, IndexerAssumption DEF Tick, NothingSkipped
    <3>3. CASE ReadTip \/ PoisonExit
      BY <2>1, <3>3 DEF ReadTip, PoisonExit, IndexerDies
    <3> QED
      BY <2>4, <3>1, <3>2, <3>3 DEF Index, IndexerStep
  <2>5. CASE Flush \/ Boot \/ Consume \/ Fault \/ UNCHANGED vars
    <3>1. UNCHANGED <<lastIndexed, indexed>>
      BY <2>5
         DEF Flush, Boot, CustodyStart, Snapshot, Subscribe, Consume, Receive, Ignore,
             Lookup, Debit, Credit, Fault, LoseIndexer, IndexerExit, IndexerDies, Drop,
             CustodyExit, LookupFails, indexerVars, vars
    <3> QED
      BY <2>1, <3>1
  <2> QED
    BY <2>2, <2>3, <2>4, <2>5 DEF Next
<1>3. CatchUpInv => NothingSkipped
  BY DEF CatchUpInv
<1> QED
  BY <1>1, <1>2, <1>3, TypeCorrect, PTL DEF Spec
=============================================================================
