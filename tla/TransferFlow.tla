--------------------------- MODULE TransferFlow ---------------------------
(***************************************************************************)
(* A transfer from the custody API to the node: custody hands the intent   *)
(* to the broadcaster, which has the protocol service prepare it (simulate,*)
(* nonce, gas, fees: one RPC after the other, nothing held in between),    *)
(* the signer sign it and the protocol service send it.  Nothing is        *)
(* stored, nothing is retried, and requests run concurrently.              *)
(***************************************************************************)
EXTENDS Node

CONSTANTS
  Requests,   \* the transfer requests, each made at most once
  Intent,     \* what each asks for: [from, to, amount, payload]
  MaxFaults   \* bound: lost calls, lost transactions, callers that give up

ASSUME TransferAssumption ==
  /\ \A r \in Requests :
       /\ Intent[r].from \in Addr
       /\ Intent[r].to \in Addr
       /\ Intent[r].amount \in Nat
       /\ Intent[r].payload \in {"evm", "bare"}
  /\ MaxFaults \in Nat

VARIABLES
  pc,         \* where each request is
  checkedAt,  \* history: the sender's nonce when it was simulated
  nonceOf,    \* the nonce it was given
  gasOf,      \* the gas limit it was given
  feeOf,      \* the fee cap it was given
  wire,       \* raw transactions on their way to the node: [req, tx]
  reply,      \* the node's answer to the raw transaction: "none", "ok", "error"
  faults

built == <<checkedAt, nonceOf, gasOf, feeOf>>
requestVars == <<pc, built, wire, reply>>
vars == <<nodeVars, requestVars, faults>>

\* Calls to the node or to a service: each can fail, and the request with it.
Calls == {"simulate", "nonce", "gas", "fees", "sign", "send"}
Answers == {"broadcasted", "failed"}

\* abi.Pack of a uint256 keeps the low 256 bits.
Packed(amount) == amount % Wrap

From(r) == Intent[r].from
Amount(r) == Packed(Intent[r].amount)

TxOf(r) == [from |-> From(r), to |-> Intent[r].to, amount |-> Amount(r),
            nonce |-> nonceOf[r], gas |-> gasOf[r], fee |-> feeOf[r]]

TransferInit ==
  /\ NodeInit
  /\ pc = [r \in Requests |-> "idle"]
  /\ checkedAt = [r \in Requests |-> 0]
  /\ nonceOf = [r \in Requests |-> 0]
  /\ gasOf = [r \in Requests |-> Cheap]
  /\ feeOf = [r \in Requests |-> 0]
  /\ wire = {}
  /\ reply = [r \in Requests |-> "none"]
  /\ faults = 0

-----------------------------------------------------------------------------
(* The request's own steps. *)

Goto(r, label) == pc' = [pc EXCEPT ![r] = label]

\* The request reaches PrepareTransaction, which takes a wrapped
\* EVMTransactionIntent and no other payload.
Ask(r) ==
  /\ pc[r] = "idle"
  /\ Goto(r, IF Intent[r].payload = "evm" THEN "simulate" ELSE "failed")
  /\ UNCHANGED <<nodeVars, built, wire, reply, faults>>

\* Mutant: eth_call at "pending", which counts money that is on its way.
Simulate_Pending(r) ==
  /\ pc[r] = "simulate"
  /\ checkedAt' = [checkedAt EXCEPT ![r] = nonce[From(r)]]
  /\ Goto(r, IF bal[From(r)] + Inflow(From(r)) >= Amount(r) THEN "nonce" ELSE "failed")
  /\ UNCHANGED <<nodeVars, nonceOf, gasOf, feeOf, wire, reply, faults>>

\* validateErc20TransferRequest: eth_call at "latest".
Simulate(r) ==
  /\ pc[r] = "simulate"
  /\ checkedAt' = [checkedAt EXCEPT ![r] = nonce[From(r)]]
  /\ Goto(r, IF Covers(From(r), Amount(r)) THEN "nonce" ELSE "failed")
  /\ UNCHANGED <<nodeVars, nonceOf, gasOf, feeOf, wire, reply, faults>>

\* Mutant: the nonce after the last one.
ReadNonce_SkipsOne(r) ==
  /\ pc[r] = "nonce"
  /\ nonceOf' = [nonceOf EXCEPT ![r] = nonce[From(r)] + 1]
  /\ Goto(r, "gas")
  /\ UNCHANGED <<nodeVars, checkedAt, gasOf, feeOf, wire, reply, faults>>

\* getNonce: eth_getTransactionCount at "latest", blind to the pool.
ReadNonce(r) ==
  /\ pc[r] = "nonce"
  /\ nonceOf' = [nonceOf EXCEPT ![r] = nonce[From(r)]]
  /\ Goto(r, "gas")
  /\ UNCHANGED <<nodeVars, checkedAt, gasOf, feeOf, wire, reply, faults>>

\* getGasLimit: the node executes the call to estimate its gas, and refuses
\* if it reverts.  What it says is the limit, with nothing added.
EstimateGas(r) ==
  /\ pc[r] = "gas"
  /\ \/ \E gas \in {Cheap, Dear} :
          /\ EstimateMayBe(From(r), Intent[r].to, Amount(r), gas)
          /\ gasOf' = [gasOf EXCEPT ![r] = gas]
          /\ Goto(r, "fees")
     \/ /\ EstimateMayRevert(From(r), Amount(r))
        /\ Goto(r, "failed")
        /\ UNCHANGED gasOf
  /\ UNCHANGED <<nodeVars, checkedAt, nonceOf, feeOf, wire, reply, faults>>

\* Mutant: no headroom over the current base fee.
ReadFees_NoHeadroom(r) ==
  /\ pc[r] = "fees"
  /\ feeOf' = [feeOf EXCEPT ![r] = baseFee + Tip]
  /\ Goto(r, "sign")
  /\ UNCHANGED <<nodeVars, checkedAt, nonceOf, gasOf, wire, reply, faults>>

\* getFees: twice the base fee of the latest header, and the tip.
ReadFees(r) ==
  /\ pc[r] = "fees"
  /\ feeOf' = [feeOf EXCEPT ![r] = 2 * baseFee + Tip]
  /\ Goto(r, "sign")
  /\ UNCHANGED <<nodeVars, checkedAt, nonceOf, gasOf, wire, reply, faults>>

\* Mutant: an unknown wallet gets no answer.
Sign_Hangs(r) ==
  /\ pc[r] = "sign"
  /\ From(r) \in Keys
  /\ Goto(r, "send")
  /\ UNCHANGED <<nodeVars, built, wire, reply, faults>>

\* SignTransferIntent knows a fixed set of wallets.
Sign(r) ==
  /\ pc[r] = "sign"
  /\ Goto(r, IF From(r) \in Keys THEN "send" ELSE "failed")
  /\ UNCHANGED <<nodeVars, built, wire, reply, faults>>

\* Transfer: the raw transaction leaves for the node.
Send(r) ==
  /\ pc[r] = "send"
  /\ wire' = wire \cup {[req |-> r, tx |-> TxOf(r)]}
  /\ Goto(r, "sent")
  /\ UNCHANGED <<nodeVars, built, reply, faults>>

\* Mutant: the status in the transfer response is not looked at.
Answer_IgnoresStatus(r) ==
  /\ pc[r] = "sent"
  /\ reply[r] # "none"
  /\ Goto(r, "broadcasted")
  /\ UNCHANGED <<nodeVars, built, wire, reply, faults>>

\* The node's answer travels back to the caller.
Answer(r) ==
  /\ pc[r] = "sent"
  /\ reply[r] # "none"
  /\ Goto(r, IF reply[r] = "ok" THEN "broadcasted" ELSE "failed")
  /\ UNCHANGED <<nodeVars, built, wire, reply, faults>>

-----------------------------------------------------------------------------
(* The network, the node, and what goes wrong. *)

\* The raw transaction reaches the node, whether or not the caller still
\* waits for the answer.
Arrive(m) ==
  /\ m \in wire
  /\ wire' = wire \ {m}
  /\ \/ /\ Admissible(m.tx)
        /\ Admit(m.tx)
        /\ reply' = [reply EXCEPT ![m.req] = "ok"]
     \/ /\ ~Admissible(m.tx)
        /\ UNCHANGED pool
        /\ reply' = [reply EXCEPT ![m.req] = "error"]
  /\ UNCHANGED <<bal, nonce, mined, baseFee, pc, built, faults>>

Fault == faults < MaxFaults /\ faults' = faults + 1

\* A call before the raw transaction is out fails: a service is down, the
\* caller is gone, the node answers with an error.
CallFails(r) ==
  /\ Fault
  /\ pc[r] \in Calls
  /\ Goto(r, "failed")
  /\ UNCHANGED <<nodeVars, built, wire, reply>>

\* The raw transaction is lost on its way to the node.
Lose(m) ==
  /\ Fault
  /\ m \in wire
  /\ wire' = wire \ {m}
  /\ reply' = [reply EXCEPT ![m.req] = "error"]
  /\ UNCHANGED <<nodeVars, pc, built>>

\* Mutant: a caller that gave up starts over by itself.
GiveUp_Retries(r) ==
  /\ Fault
  /\ pc[r] = "sent"
  /\ reply' = [reply EXCEPT ![r] = "none"]
  /\ Goto(r, "nonce")
  /\ UNCHANGED <<nodeVars, built, wire>>

\* The caller gives up on the answer: a deadline, a disconnect, a service
\* that stops.  The raw transaction may be on its way, pending or mined.
GiveUp(r) ==
  /\ Fault
  /\ pc[r] = "sent"
  /\ Goto(r, "failed")
  /\ UNCHANGED <<nodeVars, built, wire, reply>>

Chain ==
  /\ \/ \E t \in pool : Mine(t)
     \/ \E from \in Addr \ Keys, to \in Keys : Deposit(from, to)
     \/ \E fee \in BaseFees : Drift(fee)
  /\ UNCHANGED <<requestVars, faults>>

Work(r) ==
  \/ Simulate(r) \/ ReadNonce(r) \/ EstimateGas(r) \/ ReadFees(r)
  \/ Sign(r) \/ Send(r) \/ Answer(r)

Next ==
  \/ \E r \in Requests : Ask(r) \/ Work(r) \/ CallFails(r) \/ GiveUp(r)
  \/ \E m \in wire : Arrive(m) \/ Lose(m)
  \/ Chain

Spec == TransferInit /\ [][Next]_vars

\* A handler that can go on does, a transaction on the wire is delivered or
\* lost, and the node keeps mining each sender's next transaction.  Nobody
\* has to ask, the base fee may stay where it is, and no fault need happen.
Fairness ==
  /\ \A r \in Requests : WF_vars(Work(r))
  /\ \A r \in Requests : WF_vars(\E m \in wire : m.req = r /\ Arrive(m))
  /\ \A a \in Keys :
       WF_vars(\E t \in pool : /\ t.from = a
                               /\ Mine(t)
                               /\ UNCHANGED <<requestVars, faults>>)

FairSpec == Spec /\ Fairness

-----------------------------------------------------------------------------
(* Properties. *)

RawTx == [req : Requests, tx : Tx]

\* Every variable has its type, and the node answers only what was sent.
TypeOK ==
  /\ bal \in [Addr -> Nat]
  /\ nonce \in [Addr -> Nat]
  /\ pool \subseteq Tx
  /\ mined \subseteq [tx : Tx, ok : BOOLEAN]
  /\ baseFee \in BaseFees
  /\ pc \in [Requests -> {"idle", "sent"} \cup Calls \cup Answers]
  /\ checkedAt \in [Requests -> Nat]
  /\ nonceOf \in [Requests -> Nat]
  /\ gasOf \in [Requests -> {Cheap, Dear}]
  /\ feeOf \in [Requests -> Nat]
  /\ wire \subseteq RawTx
  /\ reply \in [Requests -> {"none", "ok", "error"}]
  /\ \A r \in Requests : reply[r] # "none" => pc[r] \in {"sent"} \cup Answers
  /\ faults \in 0 .. MaxFaults

\* A transfer reverts on the chain for two reasons only.  Its gas limit, the
\* bare estimate, was that of a recipient who held tokens, and they have gone;
\* or its money went to another transfer of its sender, executed between the
\* simulation and the reading of the nonce.  One executed later takes the
\* nonce along with the money, which is what PrepareTransaction's order of
\* calls is worth.
RevertsAreRaces ==
  \A m \in mined, r \in Requests :
    /\ ~m.ok
    /\ reply[r] = "ok"
    /\ m.tx = TxOf(r)
    => gasOf[r] = Cheap \/ checkedAt[r] < nonceOf[r]

\* A transaction in the pool is its sender's next one, and the only one: the
\* nonce is read at "latest", so a second transfer competes with the pending
\* one instead of queueing up behind it.
NextInLine ==
  \A t \in pool :
    /\ t.nonce = nonce[t.from]
    /\ \A u \in pool : u.from = t.from => u = t

Executed == {m.tx : m \in mined}

\* A caller told "broadcasted" can rely on its nonce: its transaction is in
\* the pool or on the chain, or one of the same sender that pays a higher fee
\* has taken its place.
BroadcastIsKept ==
  \A r \in Requests : pc[r] = "broadcasted" =>
    \E t \in pool \cup Executed :
      /\ t.from = From(r)
      /\ t.nonce = nonceOf[r]
      /\ t = TxOf(r) \/ t.fee > feeOf[r]

Order == [r \in Requests |->
            [from |-> From(r), to |-> Intent[r].to, amount |-> Amount(r)]]

PaidFor(o) ==
  Cardinality({m \in mined : m.ok /\ m.tx.from = o.from /\ m.tx.to = o.to
                                  /\ m.tx.amount = o.amount})

\* Money leaves a custodied address only for a request, once per request and
\* within its funds, whatever is lost, late or answered wrongly on the way:
\* the transfer path refines Payments.
Promise == INSTANCE Payments WITH
  Custodial <- Keys,
  funds <- bal,
  asked <- {r \in Requests : pc[r] # "idle"},
  paid <- [o \in {Order[r] : r \in Requests} |-> PaidFor(o)]

PaysOnlyOnRequest == Promise!PaymentsSpec

\* Every request the handlers take up is answered.
Answered == \A r \in Requests : pc[r] # "idle" ~> pc[r] \in Answers

\* A transfer answered "broadcasted" is settled in the end: its nonce is used
\* up.  The fee cap leaves room for the base fee to rise meanwhile, to twice
\* what it was; beyond that a transfer waits for it to come down.
BroadcastSettles ==
  \A r \in Requests : pc[r] = "broadcasted" ~> nonce[From(r)] > nonceOf[r]
=============================================================================
