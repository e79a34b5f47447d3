-------------------------- MODULE TransferProofs --------------------------
(***************************************************************************)
(* TransferFlow, for every set of requests and every instance: its types,  *)
(* that the pool never holds more than each sender's next transaction,     *)
(* that a broadcasted transfer keeps its nonce, that all this keeps the    *)
(* promise of Payments, and that a transfer reverts for two reasons only.  *)
(***************************************************************************)
EXTENDS TransferFlow, FiniteSetTheorems, FunctionTheorems, TLAPS

\* An abbreviation, expanded everywhere.
USE DEF built

\* A nonce that was read is at most the sender's, and the transaction on the
\* wire is the one its request built, not answered yet.
NoncesOK ==
  /\ \A r \in Requests : nonceOf[r] <= nonce[From(r)]
  /\ \A m \in wire :
       /\ m.tx = TxOf(m.req)
       /\ pc[m.req] \in {"sent", "failed"}
       /\ reply[m.req] = "none"

\* The request's transaction, or one that outbid it, is in the pool or mined.
Kept(r) ==
  \E t \in pool \cup Executed :
    /\ t.from = From(r)
    /\ t.nonce = nonceOf[r]
    /\ t = TxOf(r) \/ t.fee > feeOf[r]

\* Whoever was answered "ok" is kept, told or not.
RepliesOK ==
  /\ \A r \in Requests : reply[r] = "ok" => Kept(r)
  /\ \A r \in Requests : pc[r] = "broadcasted" => reply[r] = "ok"

FlowInv == TypeOK /\ NoncesOK /\ NextInLine /\ RepliesOK

-----------------------------------------------------------------------------
(* Types. *)

\* What the assumption on the requests says of the transaction they build.
LEMMA IntentFacts ==
  ASSUME NEW r \in Requests
  PROVE  /\ From(r) \in Addr
         /\ Intent[r].to \in Addr
         /\ Amount(r) \in 0 .. Wrap - 1
         /\ nonceOf[r] \in Nat /\ gasOf[r] \in {Cheap, Dear} /\ feeOf[r] \in Nat
            => TxOf(r) \in Tx
<1>1. From(r) \in Addr /\ Intent[r].to \in Addr
  BY TransferAssumption DEF From
<1>2. Amount(r) \in 0 .. Wrap - 1
  BY TransferAssumption, NodeAssumption DEF Amount, Packed
<1>3. ASSUME nonceOf[r] \in Nat, gasOf[r] \in {Cheap, Dear}, feeOf[r] \in Nat
      PROVE  TxOf(r) \in Tx
  BY <1>1, <1>2, <1>3 DEF TxOf, Tx
<1> QED BY <1>1, <1>2, <1>3

\* Moving money between two holders leaves every balance a natural number as
\* long as the payer has it.
LEMMA MoveFacts ==
  ASSUME bal \in [Addr -> Nat], NEW from \in Addr, NEW to \in Addr,
         NEW amount \in Nat, Covers(from, amount)
  PROVE  /\ Move(from, to, amount) \in [Addr -> Nat]
         /\ \A a \in Addr \ {from} : Move(from, to, amount)[a] >= bal[a]
<1> DEFINE debited == [bal EXCEPT ![from] = @ - amount]
<1>1. debited \in [Addr -> Nat]
  BY DEF Covers
<1>2. Move(from, to, amount) = [debited EXCEPT ![to] = @ + amount]
  BY DEF Move
<1>3. \A a \in Addr \ {from} : debited[a] = bal[a]
  OBVIOUS
<1> HIDE DEF debited
<1> QED BY <1>1, <1>2, <1>3

\* A step of the node other than taking a transaction keeps the types.
LEMMA TypeChain == TypeOK /\ Chain => TypeOK'
<1> SUFFICES ASSUME TypeOK, Chain PROVE TypeOK'
  OBVIOUS
<1> USE DEF TypeOK
<1>0. UNCHANGED <<requestVars, faults>>
  BY DEF Chain
<1>1. ASSUME NEW t \in pool, Mine(t) PROVE TypeOK'
  <2>1. t \in Tx /\ t.from \in Addr /\ t.to \in Addr /\ t.amount \in Nat
    BY NodeAssumption DEF Tx
  <2>2. nonce' \in [Addr -> Nat] /\ pool' \subseteq Tx /\ baseFee' \in BaseFees
    BY <1>1, <2>1 DEF Mine
  <2>3. mined' \subseteq [tx : Tx, ok : BOOLEAN]
    <3>1. Succeeds(t) \in BOOLEAN
      BY DEF Succeeds
    <3> QED BY <1>1, <2>1, <3>1 DEF Mine
  <2>4. bal' \in [Addr -> Nat]
    <3>1. CASE Succeeds(t)
      <4>1. Move(t.from, t.to, t.amount) \in [Addr -> Nat]
        BY <2>1, <3>1, MoveFacts DEF Succeeds
      <4> QED BY <1>1, <3>1, <4>1 DEF Mine
    <3>2. CASE ~Succeeds(t)
      BY <1>1, <3>2 DEF Mine
    <3> QED BY <3>1, <3>2
  <2> QED BY <1>0, <2>2, <2>3, <2>4 DEF requestVars
<1>2. ASSUME NEW from \in Addr \ Keys, NEW to \in Keys, Deposit(from, to) PROVE TypeOK'
  <2>1. from \in Addr /\ to \in Addr /\ bal[from] \in Nat
    BY NodeAssumption
  <2>2. Covers(from, 1)
    BY <1>2, <2>1 DEF Deposit, Covers
  <2>3. Move(from, to, 1) \in [Addr -> Nat]
    BY <2>1, <2>2, MoveFacts
  <2> QED BY <1>0, <1>2, <2>3 DEF requestVars, Deposit
<1>3. ASSUME NEW fee \in BaseFees, Drift(fee) PROVE TypeOK'
  BY <1>0, <1>3 DEF requestVars, Drift
<1> QED BY <1>1, <1>2, <1>3 DEF Chain

\* A request's own step keeps the types.
LEMMA TypeRequest ==
  TypeOK /\ (\E r \in Requests : Ask(r) \/ Work(r) \/ CallFails(r) \/ GiveUp(r)) => TypeOK'
<1> SUFFICES ASSUME TypeOK, NEW r \in Requests,
                    Ask(r) \/ Work(r) \/ CallFails(r) \/ GiveUp(r)
             PROVE  TypeOK'
  OBVIOUS
<1> USE DEF TypeOK, Goto, Calls, Answers
<1>1. CASE Ask(r)
  BY <1>1 DEF Ask, nodeVars
<1>2. CASE Simulate(r)
  BY <1>2, IntentFacts DEF Simulate, nodeVars
<1>3. CASE ReadNonce(r)
  BY <1>3, IntentFacts DEF ReadNonce, nodeVars
<1>4. CASE EstimateGas(r)
  BY <1>4 DEF EstimateGas, nodeVars
<1>5. CASE ReadFees(r)
  <2>1. 2 * baseFee + Tip \in Nat
    BY NodeAssumption
  <2> QED BY <1>5, <2>1 DEF ReadFees, nodeVars
<1>6. CASE Sign(r)
  BY <1>6 DEF Sign, nodeVars
<1>7. CASE Send(r)
  <2>1. [req |-> r, tx |-> TxOf(r)] \in RawTx
    BY IntentFacts DEF RawTx
  <2> QED BY <1>7, <2>1 DEF Send, nodeVars
<1>8. CASE Answer(r)
  BY <1>8 DEF Answer, nodeVars
<1>9. CASE CallFails(r)
  BY <1>9, TransferAssumption DEF CallFails, Fault, nodeVars
<1>10. CASE GiveUp(r)
  BY <1>10, TransferAssumption DEF GiveUp, Fault, nodeVars
<1> QED BY <1>1, <1>2, <1>3, <1>4, <1>5, <1>6, <1>7, <1>8, <1>9, <1>10 DEF Work

\* What happens on the wire keeps the types; what is on it was sent.
LEMMA TypeWire ==
  TypeOK /\ NoncesOK /\ (\E m \in wire : Arrive(m) \/ Lose(m)) => TypeOK'
<1> SUFFICES ASSUME TypeOK, NoncesOK, NEW m \in wire, Arrive(m) \/ Lose(m)
             PROVE  TypeOK'
  OBVIOUS
<1>0. m.req \in Requests /\ m.tx \in Tx /\ pc[m.req] \in {"sent", "failed"}
  BY DEF TypeOK, RawTx, NoncesOK
<1> USE DEF TypeOK, Answers
<1>1. CASE Arrive(m)
  BY <1>0, <1>1 DEF Arrive, Admit
<1>2. CASE Lose(m)
  BY <1>0, <1>2, TransferAssumption DEF Lose, Fault, nodeVars
<1> QED BY <1>1, <1>2

-----------------------------------------------------------------------------
(* Nonces: what is on the wire, and what the pool takes. *)

\* A request's own step changes no other request's transaction, and keeps
\* what is known of the nonces.
LEMMA NoncesRequest ==
  /\ TypeOK
  /\ NoncesOK
  /\ \E r \in Requests : Ask(r) \/ Work(r) \/ CallFails(r) \/ GiveUp(r)
  => NoncesOK'
<1> SUFFICES ASSUME TypeOK, NoncesOK, NEW r \in Requests,
                    Ask(r) \/ Work(r) \/ CallFails(r) \/ GiveUp(r)
             PROVE  NoncesOK'
  OBVIOUS
<1>0. \A m \in wire : m.req \in Requests
  BY DEF TypeOK, RawTx
<1>a. From(r) \in Addr
  BY IntentFacts
<1> USE DEF TypeOK, NoncesOK, Goto, Calls, Answers
<1>1. CASE Ask(r)
  BY <1>0, <1>1 DEF Ask, nodeVars, TxOf
<1>2. CASE Simulate(r)
  BY <1>0, <1>2 DEF Simulate, nodeVars, TxOf
<1>3. CASE ReadNonce(r)
  <2>1. \A m \in wire : m.req # r
    BY <1>3 DEF ReadNonce
  <2>2. \A m \in wire : TxOf(m.req)' = TxOf(m.req)
    BY <1>0, <1>3, <2>1 DEF ReadNonce, TxOf
  <2>3. \A q \in Requests : nonceOf'[q] <= nonce[From(q)]
    BY <1>3, <1>a DEF ReadNonce
  <2> QED BY <1>0, <1>3, <2>1, <2>2, <2>3 DEF ReadNonce, nodeVars
<1>4. CASE EstimateGas(r)
  BY <1>0, <1>4 DEF EstimateGas, nodeVars, TxOf
<1>5. CASE ReadFees(r)
  <2>1. \A m \in wire : m.req # r
    BY <1>5 DEF ReadFees
  <2>2. \A m \in wire : TxOf(m.req)' = TxOf(m.req)
    BY <1>0, <1>5, <2>1 DEF ReadFees, TxOf
  <2> QED BY <1>0, <1>5, <2>1, <2>2 DEF ReadFees, nodeVars
<1>6. CASE Sign(r)
  BY <1>0, <1>6 DEF Sign, nodeVars, TxOf
<1>7. CASE Send(r)
  <2>1. \A q \in Requests : TxOf(q)' = TxOf(q)
    BY <1>7 DEF Send, TxOf
  <2>2. \A m \in wire' : m \in wire \/ m = [req |-> r, tx |-> TxOf(r)]
    BY <1>7 DEF Send
  <2>3. reply[r] = "none"
    BY <1>7 DEF Send
  <2> QED BY <1>0, <1>7, <2>1, <2>2, <2>3 DEF Send, nodeVars
<1>8. CASE Answer(r)
  BY <1>0, <1>8 DEF Answer, nodeVars, TxOf
<1>9. CASE CallFails(r)
  BY <1>0, <1>9 DEF CallFails, nodeVars, TxOf
<1>10. CASE GiveUp(r)
  BY <1>0, <1>10 DEF GiveUp, nodeVars, TxOf
<1> QED BY <1>1, <1>2, <1>3, <1>4, <1>5, <1>6, <1>7, <1>8, <1>9, <1>10 DEF Work

\* Nothing that happens on the wire changes a nonce.
LEMMA NoncesWire ==
  TypeOK /\ NoncesOK /\ (\E m \in wire : Arrive(m) \/ Lose(m)) => NoncesOK'
<1> SUFFICES ASSUME TypeOK, NoncesOK, NEW m \in wire, Arrive(m) \/ Lose(m)
             PROVE  NoncesOK'
  OBVIOUS
<1>1. /\ wire' = wire \ {m}
      /\ UNCHANGED <<pc, nonce, built>>
      /\ \A q \in Requests \ {m.req} : reply'[q] = reply[q]
  BY DEF Arrive, Lose, nodeVars, TypeOK
<1>2. \A q \in Requests : TxOf(q)' = TxOf(q)
  BY <1>1 DEF TxOf
<1>3. \A w \in wire' : w.req \in Requests /\ w.req # m.req
  <2>1. \A w \in wire : /\ w = [req |-> w.req, tx |-> w.tx]
                        /\ w.req \in Requests
                        /\ w.tx = TxOf(w.req)
    BY DEF TypeOK, RawTx, NoncesOK
  <2> QED BY <1>1, <2>1
<1> QED BY <1>1, <1>2, <1>3 DEF NoncesOK

\* A sender's nonce only grows.
LEMMA NoncesChain == TypeOK /\ NoncesOK /\ Chain => NoncesOK'
<1> SUFFICES ASSUME TypeOK, NoncesOK, Chain PROVE NoncesOK'
  OBVIOUS
<1>1. UNCHANGED <<pc, built, wire, reply>>
  BY DEF Chain, requestVars
<1>2. \A a \in Addr : nonce[a] <= nonce'[a]
  <2>1. ASSUME NEW t \in pool, Mine(t) PROVE \A a \in Addr : nonce[a] <= nonce'[a]
    <3>1. nonce' = [nonce EXCEPT ![t.from] = @ + 1] /\ nonce \in [Addr -> Nat]
      BY <2>1 DEF Mine, TypeOK
    <3> QED BY <3>1
  <2>2. CASE UNCHANGED nonce
    BY <2>2 DEF TypeOK
  <2> QED BY <2>1, <2>2 DEF Chain, Deposit, Drift
<1>3. \A a \in Addr : nonce[a] \in Nat /\ nonce'[a] \in Nat
  <2>1. TypeOK'
    BY TypeChain
  <2> QED BY <2>1 DEF TypeOK
<1>4. \A q \in Requests : nonceOf'[q] <= nonce'[From(q)]
  BY <1>1, <1>2, <1>3, IntentFacts DEF NoncesOK, TypeOK
<1>5. \A q \in Requests : TxOf(q)' = TxOf(q)
  BY <1>1 DEF TxOf
<1> QED BY <1>1, <1>4, <1>5 DEF NoncesOK, TypeOK, RawTx

\* The pool takes a transaction only in the place of its sender's pending
\* one, and mining leaves no transaction of that sender behind.
LEMMA NextInLineStep == TypeOK /\ NoncesOK /\ NextInLine /\ [Next]_vars => NextInLine'
<1> SUFFICES ASSUME TypeOK, NoncesOK, NextInLine, [Next]_vars PROVE NextInLine'
  OBVIOUS
<1>1. CASE UNCHANGED <<pool, nonce>>
  BY <1>1 DEF NextInLine
<1>2. ASSUME NEW m \in wire, Arrive(m) PROVE NextInLine'
  <2>1. /\ m.tx \in Tx
        /\ m.tx.from \in Addr
        /\ m.tx.nonce \in Nat
        /\ m.tx.nonce <= nonce[m.tx.from]
    <3>1. m.tx \in Tx /\ m.req \in Requests
      BY DEF TypeOK, RawTx
    <3>2. m.tx.from \in Addr /\ m.tx.nonce \in Nat
      BY <3>1 DEF Tx
    <3>3. m.tx = TxOf(m.req)
      BY DEF NoncesOK
    <3>4. m.tx.from = From(m.req) /\ m.tx.nonce = nonceOf[m.req]
      BY <3>3 DEF TxOf
    <3>5. nonceOf[m.req] <= nonce[From(m.req)]
      BY <3>1 DEF NoncesOK
    <3> QED BY <3>1, <3>2, <3>4, <3>5
  <2>2. CASE UNCHANGED pool
    BY <1>2, <2>2 DEF Arrive, NextInLine
  <2>3. CASE Admissible(m.tx) /\ Admit(m.tx)
    <3>1. m.tx.nonce = nonce[m.tx.from]
      BY <2>1, <2>3 DEF Admissible, TypeOK
    <3>2. \A u \in pool : u.from = m.tx.from => u \in Rivals(m.tx)
      BY <3>1 DEF Rivals, NextInLine
    <3>3. pool' = (pool \ Rivals(m.tx)) \cup {m.tx} /\ nonce' = nonce
      BY <1>2, <2>3 DEF Admit, Arrive
    <3> QED BY <3>1, <3>2, <3>3 DEF NextInLine
  <2> QED BY <1>2, <2>2, <2>3 DEF Arrive
<1>3. ASSUME NEW t \in pool, Mine(t) PROVE NextInLine'
  BY <1>3 DEF Mine, NextInLine, TypeOK, Tx
<1>4. CASE \E r \in Requests : Ask(r) \/ Work(r) \/ CallFails(r) \/ GiveUp(r)
  BY <1>1, <1>4 DEF Ask, Work, CallFails, GiveUp, Simulate, ReadNonce, EstimateGas,
                    ReadFees, Sign, Send, Answer, nodeVars
<1>5. CASE \E m \in wire : Lose(m)
  BY <1>1, <1>5 DEF Lose, nodeVars
<1>6. CASE UNCHANGED vars
  BY <1>1, <1>6 DEF vars, nodeVars
<1> QED BY <1>1, <1>2, <1>3, <1>4, <1>5, <1>6 DEF Next, Chain, Deposit, Drift

-----------------------------------------------------------------------------
(* Replies. *)

\* While a request's transaction stays as built, it stays kept: whatever the
\* pool puts in its place pays more, and mining moves it to the chain.
LEMMA KeptStep ==
  ASSUME TypeOK, NextInLine, [Next]_vars, NEW r \in Requests, Kept(r),
         nonceOf'[r] = nonceOf[r], gasOf'[r] = gasOf[r], feeOf'[r] = feeOf[r]
  PROVE  Kept(r)'
<1>0. TxOf(r)' = TxOf(r)
  BY DEF TxOf
<1>1. PICK t \in pool \cup Executed : /\ t.from = From(r)
                                      /\ t.nonce = nonceOf[r]
                                      /\ t = TxOf(r) \/ t.fee > feeOf[r]
  BY DEF Kept
<1>2. CASE t \in (pool \cup Executed)'
  BY <1>0, <1>1, <1>2 DEF Kept
<1>3. CASE t \notin (pool \cup Executed)'
  <2>1. CASE UNCHANGED <<pool, mined>>
    BY <1>3, <2>1 DEF Executed
  <2>2. ASSUME NEW u \in pool, Mine(u) PROVE FALSE
    <3>1. mined \subseteq mined' /\ pool' = pool \ {u}
      BY <2>2 DEF Mine
    <3>2. u \in Executed'
      <4>1. [tx |-> u, ok |-> Succeeds(u)] \in mined'
        BY <2>2 DEF Mine
      <4> QED BY <4>1 DEF Executed
    <3> QED BY <1>3, <3>1, <3>2 DEF Executed
  <2>3. ASSUME NEW m \in wire, Arrive(m) PROVE Kept(r)'
    <3>1. mined' = mined
      BY <2>3 DEF Arrive
    <3>2. Admissible(m.tx) /\ pool' = (pool \ Rivals(m.tx)) \cup {m.tx}
      BY <1>3, <2>3, <3>1 DEF Arrive, Admit, Executed
    <3>3. t \in Rivals(m.tx)
      BY <1>3, <3>1, <3>2 DEF Executed
    <3>4. m.tx.from = t.from /\ m.tx.nonce = t.nonce /\ m.tx.fee > t.fee
      BY <3>2, <3>3 DEF Rivals, Admissible
    <3>5. m.tx.fee > feeOf[r]
      <4>1. t.fee \in Nat /\ m.tx.fee \in Nat /\ feeOf[r] \in Nat
        BY <3>3 DEF Rivals, TypeOK, RawTx, Tx
      <4>2. t.fee = feeOf[r] \/ t.fee > feeOf[r]
        BY <1>1 DEF TxOf
      <4> QED BY <3>4, <4>1, <4>2
    <3> QED BY <1>1, <3>2, <3>4, <3>5 DEF Kept
  <2>4. CASE \E q \in Requests : Ask(q) \/ Work(q) \/ CallFails(q) \/ GiveUp(q)
    BY <2>1, <2>4, <1>3 DEF Ask, Work, CallFails, GiveUp, Simulate, ReadNonce, EstimateGas,
                      ReadFees, Sign, Send, Answer, nodeVars, Executed
  <2>5. CASE \E m \in wire : Lose(m)
    BY <2>1, <2>5, <1>3 DEF Lose, nodeVars, Executed
  <2>6. CASE UNCHANGED vars
    BY <2>1, <2>6, <1>3 DEF vars, nodeVars, Executed
  <2> QED BY <1>3, <2>1, <2>2, <2>3, <2>4, <2>5, <2>6
        DEF Next, Chain, Deposit, Drift, Executed
<1> QED BY <1>2, <1>3

\* A request's nonce, gas limit and fee cap, and what is remembered of its
\* simulation.
Built(r) == <<checkedAt[r], nonceOf[r], gasOf[r], feeOf[r]>>

\* All this is fixed once the transaction is out.
LEMMA BuiltIsFixed ==
  ASSUME TypeOK, [Next]_vars, NEW r \in Requests, pc[r] \in {"sent"} \cup Answers
  PROVE  Built(r)' = Built(r)
<1> USE DEF TypeOK, Built, Answers
<1>1. CASE UNCHANGED built
  BY <1>1 DEF built
<1>2. CASE \E q \in Requests : Ask(q) \/ Work(q) \/ CallFails(q) \/ GiveUp(q)
  <2>1. PICK q \in Requests : Ask(q) \/ Work(q) \/ CallFails(q) \/ GiveUp(q)
    BY <1>2
  <2>2. CASE Simulate(q)
    BY <2>2 DEF Simulate
  <2>3. CASE ReadNonce(q)
    BY <2>3 DEF ReadNonce
  <2>4. CASE EstimateGas(q)
    BY <2>4 DEF EstimateGas
  <2>5. CASE ReadFees(q)
    BY <2>5 DEF ReadFees
  <2>6. CASE Ask(q) \/ Sign(q) \/ Send(q) \/ Answer(q) \/ CallFails(q) \/ GiveUp(q)
    BY <1>1, <2>6 DEF Ask, Sign, Send, Answer, CallFails, GiveUp
  <2> QED BY <2>1, <2>2, <2>3, <2>4, <2>5, <2>6 DEF Work
<1>3. CASE \E m \in wire : Arrive(m) \/ Lose(m)
  BY <1>1, <1>3 DEF Arrive, Lose
<1>4. CASE Chain \/ UNCHANGED vars
  BY <1>1, <1>4 DEF Chain, vars, requestVars
<1> QED BY <1>2, <1>3, <1>4 DEF Next

\* The node answers "ok" only when it has taken the transaction, and only
\* that answer is passed on as "broadcasted".
LEMMA RepliesStep ==
  /\ TypeOK
  /\ NoncesOK
  /\ NextInLine
  /\ RepliesOK
  /\ [Next]_vars
  => RepliesOK'
<1> SUFFICES ASSUME TypeOK, NoncesOK, NextInLine, RepliesOK, [Next]_vars
             PROVE  RepliesOK'
  OBVIOUS
<1>1. \A r \in Requests : reply[r] = "ok" => Kept(r)'
  <2> SUFFICES ASSUME NEW r \in Requests, reply[r] = "ok" PROVE Kept(r)'
    OBVIOUS
  <2>1. Built(r)' = Built(r)
    BY BuiltIsFixed DEF TypeOK
  <2> QED BY <2>1, KeptStep DEF RepliesOK, Built
<1>2. CASE \E q \in Requests : Ask(q) \/ Work(q) \/ CallFails(q) \/ GiveUp(q)
  <2>1. PICK q \in Requests : Ask(q) \/ Work(q) \/ CallFails(q) \/ GiveUp(q)
    BY <1>2
  <2>2. reply' = reply
    BY <2>1 DEF Ask, Work, CallFails, GiveUp, Simulate, ReadNonce, EstimateGas,
                ReadFees, Sign, Send, Answer
  <2>3. \A r \in Requests : pc'[r] = "broadcasted" => reply[r] = "ok"
    <3>1. CASE Answer(q)
      BY <3>1 DEF Answer, Goto, TypeOK, RepliesOK
    <3>2. CASE ~Answer(q)
      BY <2>1, <3>2 DEF Ask, Work, CallFails, GiveUp, Simulate, ReadNonce, EstimateGas,
                        ReadFees, Sign, Send, Goto, TypeOK, RepliesOK
    <3> QED BY <3>1, <3>2
  <2> QED BY <1>1, <2>2, <2>3 DEF RepliesOK
<1>3. ASSUME NEW m \in wire, Arrive(m) PROVE RepliesOK'
  <2>1. m.req \in Requests /\ m.tx = TxOf(m.req) /\ pc[m.req] # "broadcasted"
    BY DEF TypeOK, RawTx, NoncesOK
  <2>2. pc' = pc /\ \A r \in Requests \ {m.req} : reply'[r] = reply[r]
    BY <1>3 DEF Arrive, TypeOK
  <2>3. reply'[m.req] = "ok" => Kept(m.req)'
    <3>1. CASE Admissible(m.tx) /\ Admit(m.tx)
      <4>1. m.tx \in (pool \cup Executed)'
        BY <3>1 DEF Admit
      <4>2. TxOf(m.req)' = TxOf(m.req) /\ nonceOf' = nonceOf
        BY <1>3 DEF Arrive, TxOf
      <4> QED BY <2>1, <4>1, <4>2 DEF Kept, TxOf
    <3>2. CASE reply' = [reply EXCEPT ![m.req] = "error"]
      BY <2>1, <3>2 DEF TypeOK
    <3> QED BY <1>3, <3>1, <3>2 DEF Arrive
  <2> QED BY <1>1, <2>1, <2>2, <2>3 DEF RepliesOK
<1>4. ASSUME NEW m \in wire, Lose(m) PROVE RepliesOK'
  <2>1. m.req \in Requests /\ pc[m.req] # "broadcasted"
    BY DEF TypeOK, RawTx, NoncesOK
  <2>2. /\ pc' = pc
        /\ reply'[m.req] = "error"
        /\ \A r \in Requests \ {m.req} : reply'[r] = reply[r]
    BY <1>4, <2>1 DEF Lose, TypeOK
  <2> QED BY <1>1, <2>1, <2>2 DEF RepliesOK
<1>5. CASE Chain \/ UNCHANGED vars
  BY <1>1, <1>5 DEF Chain, vars, requestVars, RepliesOK
<1> QED BY <1>2, <1>3, <1>4, <1>5 DEF Next

-----------------------------------------------------------------------------
(* The theorems. *)

\* Every request starts idle, with nothing sent, pending or mined.
LEMMA FlowInit == TransferInit => FlowInv
<1> SUFFICES ASSUME TransferInit PROVE FlowInv
  OBVIOUS
<1> USE DEF TransferInit, NodeInit
<1>1. TypeOK
  BY NodeAssumption, TransferAssumption DEF TypeOK
<1>2. NoncesOK
  BY IntentFacts DEF NoncesOK
<1>3. NextInLine /\ RepliesOK
  BY DEF NextInLine, RepliesOK
<1> QED BY <1>1, <1>2, <1>3 DEF FlowInv

\* Every step keeps the flow's invariant.
LEMMA FlowStep == FlowInv /\ [Next]_vars => FlowInv'
<1> SUFFICES ASSUME FlowInv, [Next]_vars PROVE FlowInv'
  OBVIOUS
<1>0. TypeOK /\ NoncesOK /\ NextInLine /\ RepliesOK
  BY DEF FlowInv
<1>1. CASE UNCHANGED vars
  <2>1. TypeOK'
    BY <1>0, <1>1 DEF TypeOK, vars, nodeVars, requestVars
  <2>2. NoncesOK'
    BY <1>0, <1>1 DEF NoncesOK, vars, nodeVars, requestVars, TxOf
  <2> QED BY <1>0, <2>1, <2>2, NextInLineStep, RepliesStep DEF FlowInv
<1>2. CASE Next
  <2>1. TypeOK'
    BY <1>0, <1>2, TypeChain, TypeRequest, TypeWire DEF Next
  <2>2. NoncesOK'
    BY <1>0, <1>2, NoncesChain, NoncesRequest, NoncesWire DEF Next
  <2> QED BY <1>0, <2>1, <2>2, NextInLineStep, RepliesStep DEF FlowInv
<1> QED BY <1>1, <1>2

\* The flow's invariant holds throughout.
LEMMA FlowInvariant == Spec => []FlowInv
<1>1. TransferInit => FlowInv
  BY FlowInit
<1>2. FlowInv /\ [Next]_vars => FlowInv'
  BY FlowStep
<1> QED BY <1>1, <1>2, PTL DEF Spec

\* The variables keep their types, and the node answers only what was sent.
THEOREM TransferTypeCorrect == Spec => []TypeOK
<1>1. FlowInv => TypeOK
  BY DEF FlowInv
<1> QED BY <1>1, FlowInvariant, PTL

\* The pool holds at most one transaction of a sender, and it is the next one:
\* transfers of one sender never queue up.
THEOREM PoolHasNoQueue == Spec => []NextInLine
<1>1. FlowInv => NextInLine
  BY DEF FlowInv
<1> QED BY <1>1, FlowInvariant, PTL

\* A caller told "broadcasted" has its nonce taken by its own transaction or
\* by one that pays more.
THEOREM BroadcastKept == Spec => []BroadcastIsKept
<1>1. FlowInv => BroadcastIsKept
  BY DEF FlowInv, RepliesOK, Kept, BroadcastIsKept
<1> QED BY <1>1, FlowInvariant, PTL

-----------------------------------------------------------------------------
(* The promise: an order is paid at most as often as it was asked for. *)

\* Requests whose transaction is out, or never will be.
Through == {"sent"} \cup Answers

\* What the node has taken was built by some request and stays as it was
\* built; what was mined has used its nonce up.
BuiltOK ==
  /\ \A u \in pool \cup Executed :
       \E r \in Requests : pc[r] \in Through /\ TxOf(r) = u
  /\ \A u \in Executed : u.nonce < nonce[u.from]

\* A request that is through changes neither its state nor its transaction.
LEMMA BuiltStays ==
  ASSUME TypeOK, [Next]_vars, NEW r \in Requests, pc[r] \in Through
  PROVE  pc'[r] \in Through /\ TxOf(r)' = TxOf(r)
<1> USE DEF TypeOK, Through, Calls, Answers
<1>1. pc'[r] \in Through
  <2>1. ASSUME NEW q \in Requests, Ask(q) \/ Work(q) \/ CallFails(q) \/ GiveUp(q)
        PROVE  pc'[r] \in Through
    <3>1. CASE Ask(q)
      BY <3>1 DEF Ask, Goto
    <3>2. CASE Simulate(q) \/ ReadNonce(q) \/ EstimateGas(q)
      BY <3>2 DEF Simulate, ReadNonce, EstimateGas, Goto
    <3>3. CASE ReadFees(q) \/ Sign(q) \/ Send(q)
      BY <3>3 DEF ReadFees, Sign, Send, Goto
    <3>4. CASE Answer(q) \/ CallFails(q) \/ GiveUp(q)
      BY <3>4 DEF Answer, CallFails, GiveUp, Goto
    <3> QED
      BY <2>1, <3>1, <3>2, <3>3, <3>4 DEF Work
  <2>2. CASE UNCHANGED pc
    BY <2>2
  <2>3. CASE (\E m \in wire : Arrive(m) \/ Lose(m)) \/ Chain \/ UNCHANGED vars
    BY <2>2, <2>3 DEF Arrive, Lose, Chain, requestVars, vars
  <2> QED
    BY <2>1, <2>3 DEF Next
<1>2. Built(r)' = Built(r)
  BY BuiltIsFixed
<1> QED
  BY <1>1, <1>2 DEF TxOf, Built

\* What the node holds after a step was in its hands or on the wire before.
LEMMA NodeTakes ==
  ASSUME TypeOK, [Next]_vars
  PROVE  /\ \A u \in (pool \cup Executed)' :
              u \in pool \cup Executed \/ \E m \in wire : u = m.tx
         /\ \A u \in Executed' :
              \/ u \in Executed
              \/ u \in pool /\ u.nonce = nonce[u.from] /\ nonce'[u.from] = nonce[u.from] + 1
         /\ \A a \in Addr : nonce'[a] >= nonce[a]
<1> USE DEF TypeOK
<1>0. \A a \in Addr : nonce[a] \in Nat
  OBVIOUS
<1>1. CASE UNCHANGED <<pool, mined, nonce>>
  BY <1>0, <1>1 DEF Executed
<1>2. CASE \E m \in wire : Arrive(m)
  BY <1>0, <1>2 DEF Arrive, Admit, Executed
<1>3. ASSUME NEW t \in pool, Mine(t)
      PROVE  /\ pool' = pool \ {t} /\ Executed' = Executed \cup {t}
             /\ t.nonce = nonce[t.from] /\ nonce'[t.from] = nonce[t.from] + 1
             /\ \A a \in Addr : nonce'[a] >= nonce[a]
  <2>1. t.from \in Addr
    BY DEF Tx
  <2>2. \A a \in Addr : nonce'[a] = IF a = t.from THEN nonce[a] + 1 ELSE nonce[a]
    BY <1>3 DEF Mine
  <2>3. PICK m : m.tx = t /\ mined' = mined \cup {m}
    BY <1>3 DEF Mine
  <2>4. Executed' = Executed \cup {t}
    BY <2>3 DEF Executed
  <2>5. \A a \in Addr : nonce'[a] >= nonce[a]
    BY <1>0, <2>2
  <2> QED
    BY <1>3, <2>1, <2>2, <2>4, <2>5 DEF Mine
<1>4. CASE \E t \in pool : Mine(t)
  BY <1>3, <1>4
<1>5. CASE \E r \in Requests : Ask(r) \/ Work(r) \/ CallFails(r) \/ GiveUp(r)
  BY <1>1, <1>5 DEF Ask, Work, CallFails, GiveUp, Simulate, ReadNonce, EstimateGas,
                    ReadFees, Sign, Send, Answer, nodeVars
<1>6. CASE (\E m \in wire : Lose(m)) \/ UNCHANGED vars
  BY <1>1, <1>6 DEF Lose, nodeVars, vars
<1> QED
  BY <1>1, <1>2, <1>4, <1>5, <1>6 DEF Next, Chain, Deposit, Drift

LEMMA BuiltStep == FlowInv /\ BuiltOK /\ [Next]_vars => BuiltOK'
<1> SUFFICES ASSUME FlowInv, BuiltOK, [Next]_vars PROVE BuiltOK'
  OBVIOUS
<1>0. TypeOK /\ NoncesOK
  BY DEF FlowInv
<1>1. ASSUME NEW u \in (pool \cup Executed)'
      PROVE  \E r \in Requests : pc'[r] \in Through /\ TxOf(r)' = u
  <2>1. PICK r \in Requests : pc[r] \in Through /\ TxOf(r) = u
    <3>1. CASE u \in pool \cup Executed
      BY <3>1 DEF BuiltOK
    <3>2. ASSUME NEW m \in wire, u = m.tx
          PROVE  \E r \in Requests : pc[r] \in Through /\ TxOf(r) = u
      BY <1>0, <3>2 DEF TypeOK, RawTx, NoncesOK, Through, Answers
    <3> QED
      BY <1>0, <1>1, <3>1, <3>2, NodeTakes
  <2> QED
    BY <1>0, <2>1, BuiltStays
<1>2. ASSUME NEW u \in Executed' PROVE u.nonce < nonce'[u.from]
  <2>1. \A v \in pool \cup Executed : v \in Tx
    BY <1>0 DEF TypeOK, Executed
  <2>2. \A a \in Addr : nonce[a] \in Nat
    BY <1>0 DEF TypeOK
  <2>3. CASE u \in Executed
    <3>1. u.from \in Addr /\ u.nonce \in Nat /\ u.nonce < nonce[u.from]
      BY <2>1, <2>3 DEF Tx, BuiltOK
    <3>2. nonce'[u.from] >= nonce[u.from]
      BY <1>0, <3>1, NodeTakes
    <3>3. nonce'[u.from] \in Nat
      <4>1. TypeOK'
        BY FlowStep DEF FlowInv
      <4> QED
        BY <3>1, <4>1 DEF TypeOK
    <3> QED
      BY <2>2, <3>1, <3>2, <3>3
  <2>4. CASE /\ u \in pool /\ u.nonce = nonce[u.from]
             /\ nonce'[u.from] = nonce[u.from] + 1
    <3>1. u.from \in Addr
      BY <2>1, <2>4 DEF Tx
    <3> QED
      BY <2>2, <2>4, <3>1
  <2> QED
    BY <1>0, <1>2, <2>3, <2>4, NodeTakes
<1> QED
  BY <1>1, <1>2 DEF BuiltOK

-----------------------------------------------------------------------------
(* Reverts. *)

\* The steps of a request between its nonce and its raw transaction.
Preparing == {"gas", "fees", "sign", "send"}

\* The request's raw transaction is under way, or the node has taken it.
Out(r) == (\E m \in wire : m.req = r) \/ reply[r] = "ok"

\* If nothing of the sender was executed between simulation and nonce, and
\* nothing has been since, the money that was simulated is still there.
Backed(r) ==
  /\ checkedAt[r] <= nonceOf[r]
  /\ /\ From(r) \in Keys
     /\ checkedAt[r] = nonceOf[r]
     /\ nonceOf[r] = nonce[From(r)]
     => Covers(From(r), Amount(r))

FundsOK ==
  /\ \A r \in Requests : checkedAt[r] <= nonce[From(r)]
  /\ \A r \in Requests :
       /\ pc[r] = "nonce"
       /\ From(r) \in Keys
       /\ checkedAt[r] = nonce[From(r)]
       => Covers(From(r), Amount(r))
  /\ \A r \in Requests : pc[r] \in Preparing \/ Out(r) => Backed(r)
  /\ \A r \in Requests : pc[r] = "send" \/ Out(r) => From(r) \in Keys

\* Whatever happens on the chain, nonces only grow, and a sender whose nonce
\* has not has spent nothing.
LEMMA UnspentSince ==
  ASSUME TypeOK, Chain, NEW a \in Keys
  PROVE  /\ nonce'[a] >= nonce[a]
         /\ nonce'[a] = nonce[a] => bal'[a] >= bal[a]
<1>0. a \in Addr /\ bal[a] \in Nat /\ nonce[a] \in Nat
  BY NodeAssumption DEF TypeOK
<1>1. ASSUME NEW t \in pool, Mine(t)
      PROVE  /\ nonce'[a] >= nonce[a]
             /\ nonce'[a] = nonce[a] => bal'[a] >= bal[a]
  <2>1. t.from \in Addr /\ t.to \in Addr /\ t.amount \in Nat
    BY NodeAssumption DEF TypeOK, Tx
  <2>2. nonce'[a] = IF a = t.from THEN nonce[a] + 1 ELSE nonce[a]
    BY <1>0, <1>1 DEF Mine, TypeOK
  <2>3. CASE a = t.from
    BY <1>0, <2>2, <2>3
  <2>4. CASE a # t.from
    <3>1. CASE Succeeds(t)
      <4>1. Covers(t.from, t.amount) /\ bal' = Move(t.from, t.to, t.amount)
        BY <1>1, <3>1 DEF Mine, Succeeds
      <4> QED BY <1>0, <2>1, <2>2, <2>4, <4>1, MoveFacts DEF TypeOK
    <3>2. CASE ~Succeeds(t)
      <4>1. bal' = bal
        BY <1>1, <3>2 DEF Mine
      <4> QED BY <1>0, <2>2, <2>4, <4>1
    <3> QED BY <3>1, <3>2
  <2> QED BY <2>3, <2>4
<1>2. ASSUME NEW from \in Addr \ Keys, NEW to \in Keys, Deposit(from, to)
      PROVE  nonce'[a] = nonce[a] /\ bal'[a] >= bal[a]
  <2>1. Covers(from, 1) /\ from \in Addr /\ to \in Addr /\ from # a
    BY <1>2, NodeAssumption DEF Deposit, Covers, TypeOK
  <2>2. bal'[a] >= bal[a]
    BY <1>0, <1>2, <2>1, MoveFacts DEF Deposit, TypeOK
  <2> QED BY <1>2, <2>2 DEF Deposit
<1>3. ASSUME NEW fee \in BaseFees, Drift(fee) PROVE nonce'[a] = nonce[a] /\ bal'[a] = bal[a]
  BY <1>3 DEF Drift
<1> QED BY <1>0, <1>1, <1>2, <1>3 DEF Chain

\* The chain leaves every transfer that may still run its money.
LEMMA FundsChain == FlowInv /\ FundsOK /\ Chain => FundsOK'
<1> SUFFICES ASSUME FlowInv, FundsOK, Chain PROVE FundsOK'
  OBVIOUS
<1>0. TypeOK /\ NoncesOK /\ TypeOK'
  BY TypeChain DEF FlowInv
<1>1. UNCHANGED <<pc, checkedAt, nonceOf, wire, reply>>
  BY DEF Chain, requestVars
<1>2. \A r \in Requests : Out(r)' = Out(r)
  BY <1>1 DEF Out
<1>3. ASSUME NEW r \in Requests
      PROVE  /\ From(r) \in Addr /\ Amount(r) \in Nat
             /\ checkedAt[r] \in Nat /\ nonceOf[r] \in Nat
             /\ nonce[From(r)] \in Nat /\ nonce'[From(r)] \in Nat
             /\ bal[From(r)] \in Nat /\ bal'[From(r)] \in Nat
             /\ nonceOf[r] <= nonce[From(r)]
             /\ nonce'[From(r)] >= nonce[From(r)]
             /\ From(r) \in Keys /\ nonce'[From(r)] = nonce[From(r)]
                  => bal'[From(r)] >= bal[From(r)]
  <2>1. From(r) \in Addr /\ Amount(r) \in Nat
    BY IntentFacts, NodeAssumption
  <2>2. /\ checkedAt[r] \in Nat /\ nonceOf[r] \in Nat
        /\ nonce[From(r)] \in Nat /\ nonce'[From(r)] \in Nat
        /\ bal[From(r)] \in Nat /\ bal'[From(r)] \in Nat
    BY <1>0, <2>1 DEF TypeOK
  <2>3. nonceOf[r] <= nonce[From(r)]
    BY <1>0 DEF NoncesOK
  <2>4. nonce'[From(r)] >= nonce[From(r)]
    BY <1>0, <2>1, NodeTakes DEF Next
  <2>5. From(r) \in Keys /\ nonce'[From(r)] = nonce[From(r)] => bal'[From(r)] >= bal[From(r)]
    BY <1>0, UnspentSince
  <2> QED BY <2>1, <2>2, <2>3, <2>4, <2>5
<1>4. ASSUME NEW r \in Requests, Backed(r) PROVE Backed(r)'
  BY <1>1, <1>3, <1>4 DEF Backed, Covers
<1>5. ASSUME NEW r \in Requests, checkedAt[r] <= nonce[From(r)],
             From(r) \in Keys /\ checkedAt[r] = nonce[From(r)] => Covers(From(r), Amount(r))
      PROVE  /\ checkedAt'[r] <= nonce'[From(r)]
             /\ From(r) \in Keys /\ checkedAt'[r] = nonce'[From(r)]
                  => Covers(From(r), Amount(r))'
  BY <1>1, <1>3, <1>5 DEF Covers
<1>6. ASSUME NEW r \in Requests, checkedAt[r] <= nonce[From(r)]
      PROVE  checkedAt'[r] <= nonce'[From(r)]
  BY <1>1, <1>3, <1>6
<1> QED BY <1>1, <1>2, <1>4, <1>5, <1>6 DEF FundsOK

\* A request's own step: the simulation finds the money, the nonce is read
\* after it, and only a sender the signer knows gets any further.
LEMMA FundsRequest ==
  ASSUME FlowInv, FundsOK, NEW q \in Requests,
         Ask(q) \/ Work(q) \/ CallFails(q) \/ GiveUp(q)
  PROVE  FundsOK'
<1>0. TypeOK /\ NoncesOK
  BY DEF FlowInv
<1>1. UNCHANGED <<bal, nonce, reply>>
  BY DEF Ask, Work, CallFails, GiveUp, Simulate, ReadNonce, EstimateGas, ReadFees,
         Sign, Send, Answer, nodeVars
<1>2. \A a, n : Covers(a, n)' = Covers(a, n)
  BY <1>1 DEF Covers
<1>3. From(q) \in Addr /\ nonce[From(q)] \in Nat
  BY <1>0, IntentFacts DEF TypeOK
<1>4. \A r \in Requests \ {q} :
        /\ pc'[r] = pc[r] /\ checkedAt'[r] = checkedAt[r] /\ nonceOf'[r] = nonceOf[r]
        /\ Out(r)' = Out(r)
  <2>1. CASE Simulate(q) \/ ReadNonce(q)
    BY <1>0, <2>1 DEF Simulate, ReadNonce, Goto, TypeOK, Out
  <2>2. CASE EstimateGas(q) \/ ReadFees(q)
    BY <1>0, <2>2 DEF EstimateGas, ReadFees, Goto, TypeOK, Out
  <2>3. CASE Send(q)
    <3>1. \A r \in Requests \ {q} :
            pc'[r] = pc[r] /\ checkedAt'[r] = checkedAt[r] /\ nonceOf'[r] = nonceOf[r]
      BY <1>0, <2>3 DEF Send, Goto, TypeOK
    <3>2. wire' = wire \cup {[req |-> q, tx |-> TxOf(q)]} /\ reply' = reply
      BY <2>3 DEF Send
    <3>3. \A r \in Requests \ {q} :
            (\E m \in wire' : m.req = r) <=> (\E m \in wire : m.req = r)
      BY <3>2
    <3> QED BY <3>1, <3>2, <3>3 DEF Out
  <2>4. CASE Ask(q) \/ Sign(q) \/ Answer(q) \/ CallFails(q) \/ GiveUp(q)
    BY <1>0, <2>4 DEF Ask, Sign, Answer, CallFails, GiveUp, Goto, TypeOK, Out
  <2> QED BY <2>1, <2>2, <2>3, <2>4 DEF Work
<1>5. /\ checkedAt'[q] <= nonce[From(q)]
      /\ /\ pc'[q] = "nonce"
         /\ From(q) \in Keys
         /\ checkedAt'[q] = nonce[From(q)]
         => Covers(From(q), Amount(q))
  <2>1. CASE Simulate(q)
    BY <1>0, <1>3, <2>1 DEF Simulate, Goto, TypeOK
  <2>2. CASE ~Simulate(q)
    <3>1. checkedAt' = checkedAt /\ pc'[q] # "nonce"
      BY <1>0, <2>2 DEF Ask, Work, CallFails, GiveUp, ReadNonce, EstimateGas, ReadFees,
                        Sign, Send, Answer, Goto, TypeOK
    <3> QED BY <3>1 DEF FundsOK
  <2> QED BY <2>1, <2>2
<1>6. (pc'[q] \in Preparing \/ Out(q)' => Backed(q)')
      /\ (pc'[q] = "send" \/ Out(q)' => From(q) \in Keys)
  <2>1. CASE Simulate(q) \/ Ask(q)
    <3>1. pc'[q] \notin Preparing /\ ~ Out(q)'
      <4>1. pc[q] \in {"idle", "simulate"}
        BY <2>1 DEF Simulate, Ask
      <4>2. ~ Out(q)
        BY <1>0, <4>1 DEF TypeOK, NoncesOK, Out, Answers
      <4>3. Out(q)' = Out(q) /\ pc'[q] \notin Preparing
        BY <1>0, <2>1 DEF Simulate, Ask, Goto, TypeOK, Out, Preparing
      <4> QED BY <4>2, <4>3
    <3> QED BY <3>1 DEF Preparing
  <2>2. CASE ReadNonce(q)
    <3>1. checkedAt'[q] = checkedAt[q] /\ nonceOf'[q] = nonce[From(q)] /\ pc'[q] = "gas"
      BY <1>0, <2>2 DEF ReadNonce, Goto, TypeOK
    <3>2. Backed(q)'
      BY <1>1, <1>2, <2>2, <3>1 DEF Backed, FundsOK, ReadNonce
    <3>3. ~ Out(q)'
      BY <1>0, <2>2 DEF TypeOK, NoncesOK, Out, Answers, ReadNonce
    <3> QED BY <3>1, <3>2, <3>3
  <2>3. CASE /\ ~ Simulate(q) /\ ~ Ask(q) /\ ~ ReadNonce(q)
    <3>1. checkedAt' = checkedAt /\ nonceOf' = nonceOf
      BY <2>3 DEF Work, CallFails, GiveUp, EstimateGas, ReadFees, Sign, Send, Answer
    <3>2. Backed(q)' = Backed(q)
      BY <1>1, <1>2, <3>1 DEF Backed
    <3>3. CASE Send(q)
      BY <3>2, <3>3 DEF Send, FundsOK, Preparing
    <3>4. CASE ~ Send(q)
      <4>1. Out(q)' = Out(q)
        BY <2>3, <3>4 DEF Work, CallFails, GiveUp, EstimateGas, ReadFees, Sign, Answer, Out
      <4>2. pc'[q] \in Preparing => pc[q] \in Preparing
        BY <1>0, <2>3, <3>4 DEF Work, CallFails, GiveUp, EstimateGas, ReadFees, Sign, Answer,
                               Goto, TypeOK, Preparing
      <4>3. pc'[q] = "send" => From(q) \in Keys
        BY <1>0, <2>3, <3>4 DEF Work, CallFails, GiveUp, EstimateGas, ReadFees, Sign, Answer,
                               Goto, TypeOK
      <4> QED BY <3>2, <4>1, <4>2, <4>3 DEF FundsOK
    <3> QED BY <3>3, <3>4
  <2> QED BY <2>1, <2>2, <2>3
<1>7. \A r \in Requests \ {q} : Backed(r)' = Backed(r)
  BY <1>1, <1>2, <1>4 DEF Backed
<1> QED BY <1>1, <1>2, <1>4, <1>5, <1>6, <1>7 DEF FundsOK

\* On the wire and at the node nothing changes but who is out.
LEMMA FundsWire ==
  FlowInv /\ FundsOK /\ (\E m \in wire : Arrive(m) \/ Lose(m)) => FundsOK'
<1> SUFFICES ASSUME FlowInv, FundsOK, NEW m \in wire, Arrive(m) \/ Lose(m)
             PROVE  FundsOK'
  OBVIOUS
<1>0. TypeOK
  BY DEF FlowInv
<1>1. /\ UNCHANGED <<bal, nonce, pc, checkedAt, nonceOf>>
      /\ wire' \subseteq wire
      /\ \A r \in Requests : reply'[r] = "ok" => reply[r] = "ok" \/ r = m.req
  BY <1>0 DEF Arrive, Lose, nodeVars, TypeOK
<1>2. \A r \in Requests : Out(r)' => Out(r)
  BY <1>1 DEF Out
<1>3. \A r \in Requests : Backed(r)' = Backed(r) /\ Covers(From(r), Amount(r))' = Covers(From(r), Amount(r))
  BY <1>1 DEF Backed, Covers
<1> QED BY <1>1, <1>2, <1>3 DEF FundsOK

\* A transfer that is mined now, and answered "ok", reverts for one of the two
\* reasons.
LEMMA RevertNow ==
  ASSUME FlowInv, FundsOK, NEW t \in pool, Mine(t), ~Succeeds(t),
         NEW r \in Requests, reply[r] = "ok", t = TxOf(r)
  PROVE  gasOf[r] = Cheap \/ checkedAt[r] < nonceOf[r]
<1>1. From(r) \in Keys /\ Backed(r)
  BY DEF FundsOK, Out
<1>2. nonceOf[r] = nonce[From(r)] /\ t.gas = gasOf[r] /\ t.from = From(r) /\ t.amount = Amount(r)
  BY DEF Mine, TxOf
<1>3. checkedAt[r] \in Nat /\ nonceOf[r] \in Nat
  BY DEF FlowInv, TypeOK
<1>4. CASE checkedAt[r] = nonceOf[r]
  <2>1. Covers(t.from, t.amount)
    BY <1>1, <1>2, <1>4 DEF Backed
  <2> QED BY <1>2, <2>1 DEF Succeeds
<1> QED BY <1>1, <1>3, <1>4 DEF Backed

\* A request is answered "ok" for a transaction that is not mined yet.
LEMMA RevertsStep ==
  FlowInv /\ BuiltOK /\ FundsOK /\ RevertsAreRaces /\ [Next]_vars => RevertsAreRaces'
<1> SUFFICES ASSUME FlowInv, BuiltOK, FundsOK, RevertsAreRaces, [Next]_vars,
                    NEW m \in mined', NEW r \in Requests, ~m.ok, reply'[r] = "ok",
                    m.tx = TxOf(r)'
             PROVE  gasOf'[r] = Cheap \/ checkedAt'[r] < nonceOf'[r]
  BY DEF RevertsAreRaces
<1>0. TypeOK /\ NoncesOK /\ NextInLine /\ RepliesOK
  BY DEF FlowInv
<1>1. ASSUME reply[r] = "ok"
      PROVE  Built(r)' = Built(r)
  BY <1>0, <1>1, BuiltIsFixed DEF TypeOK
<1>2. CASE m \in mined /\ reply[r] = "ok"
  <2>1. Built(r)' = Built(r)
    BY <1>1, <1>2
  <2>2. TxOf(r)' = TxOf(r)
    BY <2>1 DEF Built, TxOf
  <2> QED BY <1>2, <2>1, <2>2 DEF RevertsAreRaces, Built
<1>3. ASSUME NEW t \in pool, Mine(t), UNCHANGED requestVars, m \notin mined
      PROVE  gasOf'[r] = Cheap \/ checkedAt'[r] < nonceOf'[r]
  <2>1. m = [tx |-> t, ok |-> Succeeds(t)]
    BY <1>3 DEF Mine
  <2>2. m.tx = t /\ ~Succeeds(t)
    BY <2>1
  <2>3. TxOf(r)' = TxOf(r) /\ reply' = reply /\ gasOf' = gasOf
        /\ checkedAt' = checkedAt /\ nonceOf' = nonceOf
    BY <1>3 DEF requestVars, TxOf
  <2> QED BY <1>3, <2>2, <2>3, RevertNow
<1>4. ASSUME NEW w \in wire, Arrive(w), reply[r] # "ok" PROVE FALSE
  <2>1. mined' = mined /\ built' = built /\ nonce' = nonce
    BY <1>4 DEF Arrive
  <2>2. w.req = r /\ Admissible(w.tx)
    BY <1>0, <1>4 DEF Arrive, TypeOK
  <2>3. w.tx = m.tx
    BY <1>0, <2>1, <2>2 DEF NoncesOK, TxOf
  <2>4. m.tx \in Executed /\ m.tx \in Tx
    BY <1>0, <2>1 DEF Executed, TypeOK
  <2>5. m.tx.nonce < nonce[m.tx.from] /\ m.tx.nonce >= nonce[m.tx.from]
    BY <2>2, <2>3, <2>4 DEF BuiltOK, Admissible
  <2>6. m.tx.nonce \in Nat /\ nonce[m.tx.from] \in Nat
    BY <1>0, <2>4 DEF TypeOK, Tx
  <2> QED BY <2>5, <2>6
<1>5. CASE \E q \in Requests : Ask(q) \/ Work(q) \/ CallFails(q) \/ GiveUp(q)
  <2>1. UNCHANGED <<mined, reply>>
    BY <1>5 DEF Ask, Work, CallFails, GiveUp, Simulate, ReadNonce, EstimateGas, ReadFees,
                Sign, Send, Answer, nodeVars
  <2> QED BY <1>2, <2>1
<1>6. CASE \E w \in wire : Arrive(w) \/ Lose(w)
  <2>1. mined' = mined
    BY <1>6 DEF Arrive, Lose, nodeVars
  <2>2. ASSUME NEW w \in wire, Lose(w), reply[r] # "ok" PROVE FALSE
    BY <1>0, <2>2 DEF Lose, TypeOK
  <2> QED BY <1>2, <1>4, <1>6, <2>1, <2>2
<1>7. CASE Chain
  <2>1. UNCHANGED requestVars /\ reply' = reply
    BY <1>7 DEF Chain, requestVars
  <2>2. CASE mined' = mined
    BY <1>2, <2>1, <2>2
  <2> QED BY <1>2, <1>3, <1>7, <2>1, <2>2 DEF Chain, Deposit, Drift
<1>8. CASE UNCHANGED vars
  BY <1>2, <1>8 DEF vars, nodeVars, requestVars
<1> QED BY <1>5, <1>6, <1>7, <1>8 DEF Next

\* A transfer that has reverted ran out of a gas limit that did not pay for a
\* new holder, or another one of its sender was executed between its
\* simulation and its nonce, however requests, deposits and mining overlap
\* and whatever state the node estimates on.
THEOREM RevertsExplained == Spec => []RevertsAreRaces
<1>1. TransferInit => BuiltOK /\ FundsOK /\ RevertsAreRaces
  <2> SUFFICES ASSUME TransferInit PROVE BuiltOK /\ FundsOK /\ RevertsAreRaces
    OBVIOUS
  <2>1. BuiltOK
    BY DEF TransferInit, NodeInit, BuiltOK, Executed
  <2>2. FundsOK
    BY IntentFacts DEF TransferInit, NodeInit, FundsOK, Preparing, Out
  <2>3. RevertsAreRaces
    BY DEF TransferInit, NodeInit, RevertsAreRaces
  <2> QED BY <2>1, <2>2, <2>3
<1>2. FlowInv /\ BuiltOK /\ [Next]_vars => BuiltOK'
  BY BuiltStep
<1>3. FlowInv /\ FundsOK /\ [Next]_vars => FundsOK'
  <2> SUFFICES ASSUME FlowInv, FundsOK, [Next]_vars PROVE FundsOK'
    OBVIOUS
  <2>1. CASE UNCHANGED vars
    <3>1. UNCHANGED <<bal, nonce, pc, checkedAt, nonceOf, wire, reply>>
      BY <2>1 DEF vars, nodeVars, requestVars
    <3>2. \A r \in Requests : Backed(r)' = Backed(r) /\ Out(r)' = Out(r)
      BY <3>1 DEF Backed, Out, Covers
    <3> QED BY <3>1, <3>2 DEF FundsOK, Covers
  <2>2. CASE Next
    BY <2>2, FundsChain, FundsRequest, FundsWire DEF Next
  <2> QED BY <2>1, <2>2
<1>4. FlowInv /\ BuiltOK /\ FundsOK /\ RevertsAreRaces /\ [Next]_vars => RevertsAreRaces'
  BY RevertsStep
<1> QED BY <1>1, <1>2, <1>3, <1>4, FlowInvariant, PTL DEF Spec

-----------------------------------------------------------------------------

\* The payments made for an order, and the requests that asked for it.
Receipts(o) == {m \in mined : m.ok /\ m.tx.from = o.from /\ m.tx.to = o.to
                                   /\ m.tx.amount = o.amount}
Askers(o) == {r \in {q \in Requests : pc[q] # "idle"} : Order[r] = o}

\* Executed transactions of an order are different, and so are the requests
\* that built them.
LEMMA OneRequestEach ==
  ASSUME TypeOK, BuiltOK, IsFiniteSet(Requests), NEW q \in Requests,
         NEW S, \A m \in S : m.tx \in pool \cup Executed,
         \A a, b \in S : a.tx = b.tx => a = b,
         \A m \in S : /\ m.tx.from = Order[q].from /\ m.tx.to = Order[q].to
                      /\ m.tx.amount = Order[q].amount
  PROVE  /\ IsFiniteSet(S) /\ IsFiniteSet(Askers(Order[q]))
         /\ Cardinality(S) <= Cardinality(Askers(Order[q]))
<1> DEFINE By(m) == CHOOSE r \in Requests : pc[r] \in Through /\ TxOf(r) = m.tx
           f == [m \in S |-> By(m)]
<1>1. \A m \in S : By(m) \in Requests /\ pc[By(m)] \in Through /\ TxOf(By(m)) = m.tx
  <2>1. \A m \in S : \E r \in Requests : pc[r] \in Through /\ TxOf(r) = m.tx
    BY DEF BuiltOK
  <2> QED
    BY <2>1
<1> HIDE DEF By
<1>2. \A m \in S : f[m] \in Askers(Order[q])
  <2> SUFFICES ASSUME NEW m \in S PROVE By(m) \in Askers(Order[q])
    OBVIOUS
  <2>1. Order[By(m)] = Order[q]
    <3>1. PICK p \in Requests : p = By(m) /\ TxOf(p) = m.tx
      BY <1>1
    <3>2. From(p) = m.tx.from /\ Intent[p].to = m.tx.to /\ Amount(p) = m.tx.amount
      BY <3>1 DEF TxOf
    <3>3. /\ Order[q].from = From(q) /\ Order[q].to = Intent[q].to
          /\ Order[q].amount = Amount(q)
      BY DEF Order
    <3>4. From(p) = From(q) /\ Intent[p].to = Intent[q].to /\ Amount(p) = Amount(q)
      BY <3>2, <3>3
    <3> QED
      BY <3>1, <3>4 DEF Order
  <2>2. pc[By(m)] # "idle"
    BY <1>1 DEF Through, Answers
  <2> QED
    BY <1>1, <2>1, <2>2 DEF Askers
<1>3. \A a, b \in S : f[a] = f[b] => a = b
  <2>1. \A a, b \in S : f[a] = f[b] => a.tx = b.tx
    BY <1>1
  <2> QED
    BY <2>1
<1>4. f \in [S -> Askers(Order[q])]
  BY <1>2
<1> HIDE DEF f
<1>5. f \in Injection(S, Askers(Order[q]))
  BY <1>3, <1>4, Fun_IsInj
<1>6. IsFiniteSet(Askers(Order[q]))
  BY FS_Subset DEF Askers
<1> QED
  BY <1>5, <1>6, FS_Injection

\* The promise's variables, as TransferFlow shows them.
Paid == [o \in {Order[r] : r \in Requests} |-> PaidFor(o)]
Asked == {r \in Requests : pc[r] # "idle"}

LEMMA PaymentsBegin == TransferInit => Promise!Init
<1> SUFFICES ASSUME TransferInit PROVE Promise!Init
  OBVIOUS
<1>1. Asked = {}
  BY DEF TransferInit, Asked
<1>2. \A o \in {Order[r] : r \in Requests} : PaidFor(o) = 0
  <2>1. \A o : Receipts(o) = {}
    BY DEF TransferInit, NodeInit, Receipts
  <2> QED
    BY <2>1, FS_EmptySet DEF PaidFor, Receipts
<1> QED
  BY <1>1, <1>2 DEF Promise!Init, Promise!Orders, TransferInit, NodeInit, Asked

\* Asking is asking, mining pays or does nothing, and deposits are deposits.
LEMMA PaymentsStep ==
  ASSUME FlowInv, BuiltOK, IsFiniteSet(Requests), [Next]_vars
  PROVE  [Promise!Next]_<<bal, {r \in Requests : pc[r] # "idle"},
                          [o \in {Order[r] : r \in Requests} |-> PaidFor(o)]>>
<1>0. TypeOK /\ NoncesOK /\ NextInLine
  BY DEF FlowInv
<1> DEFINE Stays == bal' = bal /\ Asked' = Asked /\ Paid' = Paid
           Moves == Promise!Next
<1>1. SUFFICES Stays \/ Moves
  BY DEF Asked, Paid
<1>2. mined' = mined => Paid' = Paid
  BY DEF Paid, PaidFor
<1>3. ASSUME NEW r \in Requests, Ask(r) PROVE Moves
  <2>1. UNCHANGED <<bal, mined>> /\ pc[r] = "idle" /\ pc'[r] # "idle"
        /\ \A q \in Requests \ {r} : pc'[q] = pc[q]
    BY <1>0, <1>3 DEF Ask, Goto, nodeVars, TypeOK
  <2>2. Asked' = Asked \cup {r} /\ r \notin Asked
    BY <2>1 DEF Asked
  <2>3. Promise!Ask(r)
    BY <1>2, <2>1, <2>2 DEF Promise!Ask, Asked, Paid
  <2> QED
    BY <2>3 DEF Promise!Next
<1>4. ASSUME NEW r \in Requests, Work(r) \/ CallFails(r) \/ GiveUp(r) PROVE Stays
  <2>1. UNCHANGED <<bal, mined>> /\ pc[r] # "idle" /\ pc'[r] # "idle"
        /\ \A q \in Requests \ {r} : pc'[q] = pc[q]
    BY <1>0, <1>4
       DEF Work, CallFails, GiveUp, Simulate, ReadNonce, EstimateGas, ReadFees, Sign,
           Send, Answer, Goto, nodeVars, TypeOK, Calls
  <2>2. Asked' = Asked
    BY <2>1 DEF Asked
  <2> QED
    BY <1>2, <2>1, <2>2
<1>5. CASE (\E m \in wire : Arrive(m) \/ Lose(m)) \/ UNCHANGED vars
  <2>1. UNCHANGED <<bal, mined, pc>>
    BY <1>5 DEF Arrive, Lose, nodeVars, requestVars, vars
  <2> QED
    BY <1>2, <2>1 DEF Asked
<1>6. ASSUME NEW t \in pool, Mine(t), UNCHANGED requestVars PROVE Stays \/ Moves
  <2>0. Asked' = Asked
    BY <1>6 DEF requestVars, Asked
  <2> DEFINE new == [tx |-> t, ok |-> TRUE]
  <2>1. CASE ~ Succeeds(t)
    <3>1. PICK m : bal' = bal /\ mined' = mined \cup {m} /\ ~ m.ok
      <4> DEFINE failed == [tx |-> t, ok |-> Succeeds(t)]
      <4>1. ~ failed.ok
        BY <2>1
      <4>2. bal' = bal /\ mined' = mined \cup {failed}
        BY <1>6, <2>1 DEF Mine
      <4> HIDE DEF failed
      <4> QED
        BY <4>1, <4>2
    <3>2. \A o : Receipts(o)' = Receipts(o)
      BY <3>1 DEF Receipts
    <3>3. Paid' = Paid
      BY <3>2 DEF Paid, PaidFor, Receipts
    <3> QED
      BY <2>0, <3>1, <3>3
  <2>2. CASE Succeeds(t)
    <3>1. PICK r \in Requests : pc[r] \in Through /\ TxOf(r) = t
      BY DEF BuiltOK
    <3>2. /\ t.from = Order[r].from /\ t.to = Order[r].to /\ t.amount = Order[r].amount
          /\ Order[r] = [from |-> t.from, to |-> t.to, amount |-> t.amount]
      BY <3>1 DEF Order, TxOf
    <3>3. bal' = Move(t.from, t.to, t.amount) /\ mined' = mined \cup {new}
      BY <1>6, <2>2 DEF Mine
    <3>4. new \notin mined
      <4>1. t \notin Executed
        <5>1. t.from \in Addr /\ t.nonce \in Nat /\ t.nonce = nonce[t.from]
          BY <1>0, <1>6 DEF TypeOK, Tx, Mine
        <5> QED
          BY <5>1 DEF BuiltOK
      <4> QED
        BY <4>1 DEF Executed
    <3>5. /\ Receipts(Order[r])' = Receipts(Order[r]) \cup {new}
          /\ new \notin Receipts(Order[r])
      BY <3>2, <3>3, <3>4 DEF Receipts
    <3>6. \A q \in Requests : Order[q] # Order[r] => Receipts(Order[q])' = Receipts(Order[q])
      <4> SUFFICES ASSUME NEW q \in Requests, Order[q] # Order[r]
                   PROVE  Receipts(Order[q])' = Receipts(Order[q])
        OBVIOUS
      <4>1. ~ (t.from = Order[q].from /\ t.to = Order[q].to /\ t.amount = Order[q].amount)
        BY <3>2 DEF Order
      <4> QED
        BY <3>3, <4>1 DEF Receipts
    <3>7. /\ IsFiniteSet(Receipts(Order[r]))
          /\ Cardinality(Receipts(Order[r]) \cup {new}) = Cardinality(Receipts(Order[r])) + 1
          /\ Cardinality(Receipts(Order[r]) \cup {new}) <= Cardinality(Askers(Order[r]))
          /\ Cardinality(Askers(Order[r])) \in Nat
          /\ Cardinality(Receipts(Order[r])) \in Nat
      <4>1. /\ \A m \in Receipts(Order[r]) \cup {new} : m.tx \in pool \cup Executed
            /\ \A a, b \in Receipts(Order[r]) \cup {new} : a.tx = b.tx => a = b
        <5>1. \A m \in mined : m = [tx |-> m.tx, ok |-> m.ok] /\ m.ok \in BOOLEAN
          BY <1>0 DEF TypeOK
        <5>2. \A m \in Receipts(Order[r]) :
                m = [tx |-> m.tx, ok |-> TRUE] /\ m.tx \in Executed
          BY <5>1 DEF Receipts, Executed
        <5>3. \A m \in Receipts(Order[r]) \cup {new} :
                m = [tx |-> m.tx, ok |-> TRUE] /\ m.tx \in pool \cup Executed
          <6>1. new = [tx |-> new.tx, ok |-> TRUE] /\ new.tx \in pool
            BY <1>6
          <6> HIDE DEF new
          <6> QED
            BY <5>2, <6>1
        <5> HIDE DEF new
        <5>4. \A a, b \in Receipts(Order[r]) \cup {new} : a.tx = b.tx => a = b
          <6> SUFFICES ASSUME NEW a \in Receipts(Order[r]) \cup {new},
                              NEW b \in Receipts(Order[r]) \cup {new}, a.tx = b.tx
                       PROVE  a = b
            OBVIOUS
          <6>1. a = [tx |-> a.tx, ok |-> TRUE] /\ b = [tx |-> b.tx, ok |-> TRUE]
            BY <5>3
          <6> QED
            BY <6>1, Zenon
        <5> QED
          BY <5>3, <5>4
      <4>2. \A m \in Receipts(Order[r]) \cup {new} :
              /\ m.tx.from = Order[r].from /\ m.tx.to = Order[r].to
              /\ m.tx.amount = Order[r].amount
        BY <3>2 DEF Receipts
      <4>3. /\ IsFiniteSet(Receipts(Order[r]) \cup {new})
            /\ IsFiniteSet(Askers(Order[r]))
            /\ Cardinality(Receipts(Order[r]) \cup {new}) <= Cardinality(Askers(Order[r]))
        BY <1>0, <4>1, <4>2, OneRequestEach
      <4>4. IsFiniteSet(Receipts(Order[r]))
        BY <4>3, FS_Subset
      <4> QED
        BY <3>5, <4>3, <4>4, FS_AddElement, FS_CardinalityType
    <3>8. Paid[Order[r]] < Cardinality(Askers(Order[r]))
      BY <3>7 DEF Paid, PaidFor, Receipts
    <3>9. Paid' = [Paid EXCEPT ![Order[r]] = Paid[Order[r]] + 1]
      <4>1. \A o \in {Order[q] : q \in Requests} :
              PaidFor(o)' = IF o = Order[r] THEN PaidFor(o) + 1 ELSE PaidFor(o)
        <5>1. \A o : PaidFor(o) = Cardinality(Receipts(o))
          BY DEF PaidFor, Receipts
        <5>2. \A o : PaidFor(o)' = Cardinality(Receipts(o)')
          BY DEF PaidFor, Receipts
        <5> QED
          BY <3>5, <3>6, <3>7, <5>1, <5>2
      <4> QED
        BY <4>1 DEF Paid
    <3>10. /\ bal[Order[r].from] >= Order[r].amount
           /\ bal' = Promise!Move(bal, Order[r])
      BY <2>2, <3>2, <3>3 DEF Succeeds, Covers, Move, Promise!Move
    <3>11. Promise!Pay(Order[r])
      <4>1. Cardinality({q \in Asked : Order[q] = Order[r]}) = Cardinality(Askers(Order[r]))
        BY DEF Asked, Askers
      <4>2. Paid[Order[r]] < Cardinality({q \in Asked : Order[q] = Order[r]})
        BY <3>8, <4>1
      <4>3. [o \in {Order[q] : q \in Requests} |-> PaidFor(o)][Order[r]] = Paid[Order[r]]
        BY DEF Paid
      <4>4. [o \in {Order[q] : q \in Requests} |-> PaidFor(o)]'
            = [[o \in {Order[q] : q \in Requests} |-> PaidFor(o)]
                 EXCEPT ![Order[r]] = @ + 1]
        BY <3>9 DEF Paid
      <4>5. UNCHANGED {q \in Requests : pc[q] # "idle"}
        BY <2>0 DEF Asked
      <4>6. [o \in {Order[q] : q \in Requests} |-> PaidFor(o)][Order[r]]
            < Cardinality({q \in {p \in Requests : pc[p] # "idle"} : Order[q] = Order[r]})
        <5>1. Paid[Order[r]]
              < Cardinality({q \in {p \in Requests : pc[p] # "idle"} : Order[q] = Order[r]})
          BY <4>2 DEF Asked
        <5> HIDE DEF Paid
        <5> QED
          BY <4>3, <5>1
      <4>7. \A S : Promise!Cardinality(S) = Cardinality(S)
        BY DEF Promise!Cardinality, Cardinality
      <4> QED
        BY <3>10, <4>4, <4>5, <4>6, <4>7 DEF Promise!Pay
    <3> QED
      BY <3>11 DEF Promise!Next, Promise!Orders
  <2> QED
    BY <2>1, <2>2
<1>7. ASSUME NEW from \in Addr \ Keys, NEW to \in Keys, Deposit(from, to),
             UNCHANGED requestVars
      PROVE  Moves
  <2>1. /\ bal[from] > 0 /\ bal' = Move(from, to, 1) /\ mined' = mined /\ Asked' = Asked
    BY <1>7 DEF Deposit, requestVars, Asked
  <2>2. bal' = Promise!Move(bal, [from |-> from, to |-> to, amount |-> 1])
    BY <2>1 DEF Move, Promise!Move
  <2>3. Promise!Deposit(from, to)
    BY <1>2, <2>1, <2>2 DEF Promise!Deposit, Paid, Asked
  <2> QED
    BY <2>3 DEF Promise!Next
<1>8. CASE Chain
  <2>1. ASSUME NEW fee \in BaseFees, Drift(fee), UNCHANGED requestVars PROVE Stays
    BY <1>2, <2>1 DEF Drift, requestVars, Asked
  <2> QED
    BY <1>6, <1>7, <1>8, <2>1 DEF Chain
<1> QED
  BY <1>3, <1>4, <1>5, <1>8 DEF Next

\* Whatever is lost, late or answered wrongly: money leaves a custodied
\* address only for a request, once per request and within its funds.  (With
\* finitely many requests, as the promise counts them.)
THEOREM PaysOnlyWhatWasAsked ==
  ASSUME IsFiniteSet(Requests)
  PROVE  Spec => PaysOnlyOnRequest
<1>1. TransferInit => Promise!Init
  BY PaymentsBegin
<1>2. TransferInit => BuiltOK
  BY DEF TransferInit, NodeInit, BuiltOK, Executed
<1>3. FlowInv /\ BuiltOK /\ [Next]_vars => BuiltOK'
  BY BuiltStep
<1>4. FlowInv /\ BuiltOK /\ [Next]_vars
      => [Promise!Next]_<<bal, {r \in Requests : pc[r] # "idle"},
                          [o \in {Order[r] : r \in Requests} |-> PaidFor(o)]>>
  BY PaymentsStep
<1> QED
  BY <1>1, <1>2, <1>3, <1>4, FlowInvariant, PTL
     DEF Spec, PaysOnlyOnRequest, Promise!PaymentsSpec
=============================================================================
