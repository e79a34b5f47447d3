---------------------------- MODULE Deployment ----------------------------
(***************************************************************************)
(* The services as processes: the order in which they come up, who dies    *)
(* because another one is not there yet, how they stop, and what becomes   *)
(* of the transfers in progress when they do.                              *)
(*                                                                         *)
(* gRPC connections are made lazily and calls fail fast: a service that is *)
(* not listening, or that drains, refuses the call.  The four gRPC         *)
(* services' reads (balances, addresses, blocks) are one step, as nothing  *)
(* can happen to them half way that a failure does not cover; a transfer   *)
(* is a step per process it passes through.  Signer calls are in process.  *)
(***************************************************************************)
EXTENDS Settings, FiniteSets

CONSTANTS
  Custody,           \* the custodied addresses
  Requests,          \* transfers, each asked for at most once
  Deployments,       \* named ways to deploy the system: [sound, host, dependsOn,
                     \* nodeAt, natsAt, file, flags, env], natsAt the NATS
                     \* servers there are; sound settings are such that the
                     \* services can find each other
  MaxEnds            \* bound: signals (SIGINT, SIGTERM) and kills, among them
                     \* the one that follows a signal after a grace period

ASSUME DeploymentAssumption == MaxEnds \in Nat

GrpcServices == {"address", "protocol", "broadcaster"}
Services == GrpcServices \cup {"indexer", "custody"}

Statuses == {"none", "error", "BROADCASTED", "BROADCAST_FAILED", "SIGNING_FAILED",
             "INVALID_REQUEST"}
Stages == {"idle", "custody", "prepare", "preparing", "prepared", "sending",
           "sent", "answered", "replied", "done"}

VARIABLES
  d,         \* the name of the deployment; never changes
  proc,      \* each service's process
  node,      \* the EVM node: "absent", "up", or "deployed" with the contract
  nats,      \* the NATS servers that are up
  todo,      \* addresses NewCustodyService has yet to initialise
  booked,    \* addresses in the custody service's ledger
  stage,     \* where each transfer is
  busy,      \* the services with a handler working on it
  status,    \* the broadcaster's answer
  told,      \* what the client hears
  paid,      \* the node accepted its transaction
  cut,       \* history: a process went away while it worked on it, or the
             \* node took its transaction and the answer did not arrive
  signals,   \* how much of MaxEnds is used up by signals
  crashes    \* and by kills

processVars == <<proc, todo, booked>>
outsideVars == <<node, nats>>
transferVars == <<stage, busy, status, told, paid, cut>>
boundVars == <<signals, crashes>>
vars == <<d, processVars, outsideVars, transferVars, boundVars>>

-----------------------------------------------------------------------------
(* What the services make of their settings in each deployment, and where  *)
(* they listen.                                                            *)

Settled(dep) ==
  [protocol |-> ProtocolConfig(dep.file["protocol"], dep.flags["protocol"]),
   broadcaster |-> BroadcasterConfig(dep.file["broadcaster"], dep.flags["broadcaster"]),
   indexer |-> IndexerConfig(dep.file["indexer"], dep.flags["indexer"]),
   custody |-> CustodyConfig(dep.env)]

Config == [n \in DOMAIN Deployments |-> Settled(Deployments[n])]

Listens == [n \in DOMAIN Deployments |->
  [address |-> Deployments[n].host["address"] \o AddressPort,
   protocol |-> Deployments[n].host["protocol"] \o Config[n].protocol.port,
   broadcaster |-> Deployments[n].host["broadcaster"] \o Config[n].broadcaster.port,
   custody |-> Deployments[n].host["custody"] \o Config[n].custody.port]]

Here == Deployments[d]
Protocol == Config[d].protocol
Broadcaster == Config[d].broadcaster
Indexer == Config[d].indexer
CustodyEnv == Config[d].custody

Place(s) == Listens[d][s]

\* net.Listen fails if another process on this host has the port.
PortTaken(s) ==
  \E t \in (GrpcServices \cup {"custody"}) \ {s} :
    proc[t] = "up" /\ Place(t) = Place(s)

-----------------------------------------------------------------------------
(* Calls. *)

AddressMethods == {"GetCustodyAddresses"}
ProtocolMethods == {"GetLatestBlock", "GetBlockEvents", "PrepareTransaction",
                    "Transfer", "GetTokenBalance"}
BroadcasterMethods == {"SendTransaction", "GetTokenBalance"}

Methods(s) == CASE s = "address" -> AddressMethods
                [] s = "protocol" -> ProtocolMethods
                [] s = "broadcaster" -> BroadcasterMethods

\* A call to an endpoint is served if the service listens there, has not
\* begun to drain, and has registered the method.
Serves(endpoint, s, method) ==
  /\ proc[s] = "up"
  /\ endpoint = Place(s)
  /\ method \in Methods(s)

NodeAnswers == node # "absent" /\ Protocol.node = Here.nodeAt

NatsAnswers(url) == url \in nats

ListsAddresses == Serves(CustodyEnv.address, "address", "GetCustodyAddresses")

\* The broadcaster takes requests for its own network only, and the custody
\* service's are for Ethereum.
Broadcasts(method) ==
  /\ Serves(CustodyEnv.broadcaster, "broadcaster", method)
  /\ Broadcaster.network = Ethereum

\* balanceOf: custody, broadcaster, protocol, node.  Without a contract the
\* call returns no data, which is an error.
ReadsBalance ==
  /\ Broadcasts("GetTokenBalance")
  /\ Serves(Broadcaster.protocol, "protocol", "GetTokenBalance")
  /\ NodeAnswers
  /\ node = "deployed"
  /\ CustodyEnv.contract = UsdcContract

ReadsTip ==
  /\ Serves(Indexer.protocol, "protocol", "GetLatestBlock")
  /\ NodeAnswers

\* A block with transactions is filtered by the address service.
ReadsEvents ==
  /\ Serves(Indexer.protocol, "protocol", "GetBlockEvents")
  /\ NodeAnswers
  /\ Serves(Protocol.address, "address", "GetCustodyAddresses")

-----------------------------------------------------------------------------

Init ==
  /\ d \in DOMAIN Deployments
  /\ proc = [s \in Services |-> "absent"]
  /\ node = "absent"
  /\ nats = {}
  /\ todo = {}
  /\ booked = {}
  /\ stage = [r \in Requests |-> "idle"]
  /\ busy = [r \in Requests |-> {}]
  /\ status = [r \in Requests |-> "none"]
  /\ told = [r \in Requests |-> "none"]
  /\ paid = [r \in Requests |-> FALSE]
  /\ cut = [r \in Requests |-> FALSE]
  /\ signals = 0
  /\ crashes = 0

Becomes(s, state) == proc' = [proc EXCEPT ![s] = state]

Others == UNCHANGED <<d, outsideVars, transferVars, boundVars>>

\* Compose starts a container when those it depends on have been started;
\* nothing waits for them to be ready.
Create(s) ==
  /\ proc[s] = "absent"
  /\ \A t \in Here.dependsOn[s] : proc[t] # "absent"
  /\ Becomes(s, "init")
  /\ UNCHANGED <<todo, booked>> /\ Others

\* Somebody starts a process again that ended.
Restart(s) ==
  /\ proc[s] \in {"dead", "stopped"}
  /\ Becomes(s, "init")
  /\ UNCHANGED <<todo, booked>> /\ Others

-----------------------------------------------------------------------------
(* The mains, up to the select on errors and signals. *)

AddressMain ==
  /\ proc["address"] = "init"
  /\ Becomes("address", IF PortTaken("address") THEN "dead" ELSE "up")
  /\ UNCHANGED <<todo, booked>> /\ Others

\* Neither the node nor the address service needs to be there.
ProtocolMain ==
  /\ proc["protocol"] = "init"
  /\ Becomes("protocol", IF Protocol.ok /\ ~ PortTaken("protocol")
                         THEN "up" ELSE "dead")
  /\ UNCHANGED <<todo, booked>> /\ Others

BroadcasterMain ==
  /\ proc["broadcaster"] = "init"
  /\ Becomes("broadcaster", IF Broadcaster.ok /\ ~ PortTaken("broadcaster")
                            THEN "up" ELSE "dead")
  /\ UNCHANGED <<todo, booked>> /\ Others

\* NewNatsPublisher connects once.
IndexerMain ==
  /\ proc["indexer"] = "init"
  /\ Becomes("indexer", IF Indexer.ok /\ NatsAnswers(Indexer.natsURL)
                        THEN "up" ELSE "dead")
  /\ UNCHANGED <<todo, booked>> /\ Others

\* A call of a tick fails: Run returns the error, main exits.  (A tick that
\* succeeds changes nothing here.)
TickFails ==
  /\ proc["indexer"] = "up"
  /\ ~ (ReadsTip /\ ReadsEvents)
  /\ Becomes("indexer", "dead")
  /\ UNCHANGED <<todo, booked>> /\ Others

\* NewCustodyService asks for the addresses.
CustodyMain ==
  /\ proc["custody"] = "init"
  /\ booked' = {}
  /\ \/ ListsAddresses /\ Becomes("custody", "boot") /\ todo' = Custody
     \/ ~ ListsAddresses /\ Becomes("custody", "dead") /\ todo' = {}
  /\ Others

\* Mutant: an address whose balance cannot be read is logged and skipped.
BookBalance_Skips(a) ==
  /\ proc["custody"] = "boot"
  /\ a \in todo
  /\ todo' = todo \ {a}
  /\ booked' = IF ReadsBalance THEN booked \cup {a} ELSE booked
  /\ UNCHANGED proc
  /\ Others

\* One turn of its loop; a failure is fatal.
BookBalance(a) ==
  /\ proc["custody"] = "boot"
  /\ a \in todo
  /\ \/ /\ ReadsBalance
        /\ todo' = todo \ {a}
        /\ booked' = booked \cup {a}
        /\ UNCHANGED proc
     \/ /\ ~ ReadsBalance
        /\ todo' = {}
        /\ booked' = {}
        /\ Becomes("custody", "dead")
  /\ Others

\* NewEventConsumer connects once, then the API is served, unless its port is
\* taken.  (A subscription that fails is logged, and nothing else follows.)
CustodyServes ==
  /\ proc["custody"] = "boot"
  /\ todo = {}
  /\ \/ /\ NatsAnswers(CustodyEnv.natsURL) /\ ~ PortTaken("custody")
        /\ Becomes("custody", "up")
        /\ UNCHANGED booked
     \/ /\ ~ NatsAnswers(CustodyEnv.natsURL) \/ PortTaken("custody")
        /\ Becomes("custody", "dead")
        /\ booked' = {}
  /\ UNCHANGED todo /\ Others

-----------------------------------------------------------------------------
(* The outside. *)

NodeUp ==
  /\ node = "absent"
  /\ node' = "up"
  /\ UNCHANGED <<d, processVars, nats, transferVars, boundVars>>

\* anvil-deploy waits for the node, compiles and deploys.
Deploy ==
  /\ node = "up"
  /\ node' = "deployed"
  /\ UNCHANGED <<d, processVars, nats, transferVars, boundVars>>

NatsUp(url) ==
  /\ url \notin nats
  /\ nats' = nats \cup {url}
  /\ UNCHANGED <<d, processVars, node, transferVars, boundVars>>

-----------------------------------------------------------------------------
(* A transfer, from process to process. *)

Moves(r, next, handlers) ==
  /\ stage' = [stage EXCEPT ![r] = next]
  /\ busy' = [busy EXCEPT ![r] = handlers]

Elsewhere == UNCHANGED <<d, processVars, outsideVars, boundVars, cut>>

\* The handler of s ends with the answer st, which goes to its caller, if
\* there still is one.
Returns(r, s, caller, next, st) ==
  /\ IF caller \in busy[r] THEN Moves(r, next, busy[r] \ {s})
                           ELSE Moves(r, "done", {})
  /\ status' = [status EXCEPT ![r] = st]

Ask(r) ==
  /\ stage[r] = "idle"
  /\ proc["custody"] = "up"
  /\ Moves(r, "custody", {"custody"})
  /\ UNCHANGED <<status, told, paid>> /\ Elsewhere

\* BroadcasterClient.SendTransfer: the call reaches the broadcaster's handler.
SendTransaction(r) ==
  /\ stage[r] = "custody"
  /\ \/ /\ Broadcasts("SendTransaction")
        /\ Moves(r, "prepare", busy[r] \cup {"broadcaster"})
        /\ UNCHANGED status
     \/ /\ ~ Broadcasts("SendTransaction")
        /\ Moves(r, "replied", busy[r])
        /\ status' = [status EXCEPT ![r] = "error"]
  /\ UNCHANGED <<told, paid>> /\ Elsewhere

\* Mutant: the client waits until the protocol service is ready.
CallPrepare_WaitsForReady(r) ==
  /\ stage[r] = "prepare"
  /\ Serves(Broadcaster.protocol, "protocol", "PrepareTransaction")
  /\ Moves(r, "preparing", busy[r] \cup {"protocol"})
  /\ UNCHANGED <<status, told, paid>> /\ Elsewhere

CallPrepare(r) ==
  /\ stage[r] = "prepare"
  /\ \/ /\ Serves(Broadcaster.protocol, "protocol", "PrepareTransaction")
        /\ Moves(r, "preparing", busy[r] \cup {"protocol"})
        /\ UNCHANGED status
     \/ /\ ~ Serves(Broadcaster.protocol, "protocol", "PrepareTransaction")
        /\ Returns(r, "broadcaster", "custody", "replied", "error")
  /\ UNCHANGED <<told, paid>> /\ Elsewhere

\* PrepareTransaction; its own calls are TransferFlow's.
Prepare(r) ==
  /\ stage[r] = "preparing"
  /\ \/ NodeAnswers /\ Returns(r, "protocol", "broadcaster", "prepared", "none")
     \/ Returns(r, "protocol", "broadcaster", "answered", "error")
  /\ UNCHANGED <<told, paid>> /\ Elsewhere

\* The broadcaster has it signed, in process, and calls Transfer.
SignAndTransfer(r) ==
  /\ stage[r] = "prepared"
  /\ \/ /\ Broadcaster.network = Ethereum
        /\ Serves(Broadcaster.protocol, "protocol", "Transfer")
        /\ Moves(r, "sending", busy[r] \cup {"protocol"})
        /\ UNCHANGED status
     \/ /\ ~ Serves(Broadcaster.protocol, "protocol", "Transfer")
        /\ Moves(r, "answered", busy[r])
        /\ status' = [status EXCEPT ![r] = "BROADCAST_FAILED"]
     \/ /\ Moves(r, "answered", busy[r])
        /\ status' = [status EXCEPT ![r] = "SIGNING_FAILED"]
  /\ UNCHANGED <<told, paid>> /\ Elsewhere

\* Transfer: eth_sendRawTransaction.  An answer that is lost, or an error
\* about a transaction the node has taken all the same, is a failure like any.
SendRaw(r) ==
  /\ stage[r] = "sending"
  /\ Moves(r, "sent", busy[r])
  /\ \/ /\ NodeAnswers
        /\ paid' = [paid EXCEPT ![r] = TRUE]
        /\ \/ /\ status' = [status EXCEPT ![r] = "BROADCASTED"]
              /\ UNCHANGED cut
           \/ /\ status' = [status EXCEPT ![r] = "BROADCAST_FAILED"]
              /\ cut' = [cut EXCEPT ![r] = TRUE]
     \/ /\ status' = [status EXCEPT ![r] = "BROADCAST_FAILED"]
        /\ UNCHANGED <<paid, cut>>
  /\ UNCHANGED <<d, processVars, outsideVars, boundVars, told>>

\* The protocol service's answer, and then the broadcaster's, go back.
Return(r) ==
  /\ \/ /\ stage[r] = "sent"
        /\ Returns(r, "protocol", "broadcaster", "answered", status[r])
     \/ /\ stage[r] = "answered"
        /\ Returns(r, "broadcaster", "custody", "replied", status[r])
  /\ UNCHANGED <<told, paid>> /\ Elsewhere

\* The end of SendTransfer: a status that it has no case for is "pending".
ToldAs(st) ==
  CASE st = "BROADCASTED" -> "broadcasted"
    [] st \in {"error", "BROADCAST_FAILED", "SIGNING_FAILED", "INVALID_REQUEST"} -> "failed"
    [] OTHER -> "pending"

Tell(r) ==
  /\ stage[r] = "replied"
  /\ told' = [told EXCEPT ![r] = ToldAs(status[r])]
  /\ Moves(r, "done", {})
  /\ UNCHANGED <<status, paid>> /\ Elsewhere

\* A handler whose caller is gone finds its context cancelled, sooner or
\* later, and stops where it is.
Cancelled(r) ==
  /\ stage[r] \notin {"idle", "done"}
  /\ "custody" \notin busy[r]
  /\ Moves(r, "done", {})
  /\ UNCHANGED <<status, told, paid>> /\ Elsewhere

Serve(r) ==
  \/ SendTransaction(r) \/ CallPrepare(r) \/ Prepare(r) \/ SignAndTransfer(r)
  \/ SendRaw(r) \/ Return(r) \/ Tell(r)

-----------------------------------------------------------------------------
(* Signals and crashes. *)

Beneath(s) == CASE s = "custody" -> {"broadcaster", "protocol"}
                [] s = "broadcaster" -> {"protocol"}
                [] OTHER -> {}

\* Everyone who waits for a handler of s hears of a failure; whoever works
\* for it goes on until the cancelled context is noticed.
Gone(s) ==
  LET hit(r) == s \in busy[r]
      left(r) == IF hit(r) THEN busy[r] \cap Beneath(s) ELSE busy[r]
  IN  /\ busy' = [r \in Requests |-> left(r)]
      /\ stage' = [r \in Requests |-> IF hit(r) /\ left(r) = {} THEN "done" ELSE stage[r]]
      /\ told' = [r \in Requests |->
                    IF hit(r) /\ "custody" \in busy[r] THEN "failed" ELSE told[r]]
      /\ cut' = [r \in Requests |-> cut[r] \/ hit(r)]
      /\ UNCHANGED <<status, paid>>

\* The ledger and the start-up loop are in memory.
Forget(s) ==
  /\ todo' = IF s = "custody" THEN {} ELSE todo
  /\ booked' = IF s = "custody" THEN {} ELSE booked

\* SIGTERM to a running gRPC service: GracefulStop closes the listener and
\* refuses new calls.
Drain(s) ==
  /\ signals + crashes < MaxEnds
  /\ signals' = signals + 1
  /\ s \in GrpcServices
  /\ proc[s] = "up"
  /\ Becomes(s, "draining")
  /\ UNCHANGED <<d, todo, booked, outsideVars, transferVars, crashes>>

\* Mutant: Stop instead of GracefulStop: whoever waits is cut off.
Drained_AtOnce(s) ==
  /\ proc[s] = "draining"
  /\ Becomes(s, "stopped")
  /\ busy' = [r \in Requests |-> IF s \in busy[r] THEN {} ELSE busy[r]]
  /\ stage' = [r \in Requests |-> IF s \in busy[r] THEN "done" ELSE stage[r]]
  /\ told' = [r \in Requests |-> IF s \in busy[r] THEN "failed" ELSE told[r]]
  /\ UNCHANGED <<d, todo, booked, outsideVars, status, paid, cut, boundVars>>

\* ... and returns when its handlers have.
Drained(s) ==
  /\ proc[s] = "draining"
  /\ \A r \in Requests : s \notin busy[r]
  /\ Becomes(s, "stopped")
  /\ UNCHANGED <<d, todo, booked, outsideVars, transferVars, boundVars>>

\* SIGTERM to the custody service, while it starts or after, when it closes
\* its connections; or to the indexer.  (A process that ends before its main
\* has done anything is one that starts later.)
Terminate(s) ==
  /\ signals + crashes < MaxEnds
  /\ signals' = signals + 1
  /\ s \notin GrpcServices
  /\ proc[s] \in {"boot", "up"}
  /\ Becomes(s, "stopped")
  /\ Forget(s)
  /\ Gone(s)
  /\ UNCHANGED <<d, outsideVars, crashes>>

\* The process is killed; a container is when it has not stopped in time.
Crash(s) ==
  /\ signals + crashes < MaxEnds
  /\ crashes' = crashes + 1
  /\ proc[s] \in {"boot", "up", "draining"}
  /\ Becomes(s, "dead")
  /\ Forget(s)
  /\ Gone(s)
  /\ UNCHANGED <<d, outsideVars, signals>>

-----------------------------------------------------------------------------

CustodyBoots == CustodyMain \/ (\E a \in Custody : BookBalance(a)) \/ CustodyServes

Main ==
  \/ AddressMain \/ ProtocolMain \/ BroadcasterMain \/ IndexerMain
  \/ CustodyBoots

Outside == NodeUp \/ Deploy \/ \E url \in Here.natsAt : NatsUp(url)

Next ==
  \/ \E s \in Services : Create(s) \/ Restart(s)
  \/ Main \/ TickFails \/ Outside
  \/ \E r \in Requests : Ask(r) \/ Serve(r) \/ Cancelled(r)
  \/ \E s \in Services : Drain(s) \/ Drained(s) \/ Terminate(s) \/ Crash(s)

Spec == Init /\ [][Next]_vars

Lives(s) ==
  \/ Create(s)
  \/ Drained(s)
  \/ Restart(s) /\ proc[s] = "dead"

\* Compose starts every container and the deployer does its work; a process
\* goes on; a handler does, or notices that its context is cancelled; and
\* somebody restarts what died, which the compose file does not.  (Each of
\* these disjunctions is one sequential process, or ends by itself.)
Fairness ==
  /\ WF_vars(Lives("address") \/ AddressMain)
  /\ WF_vars(Lives("protocol") \/ ProtocolMain)
  /\ WF_vars(Lives("broadcaster") \/ BroadcasterMain)
  /\ WF_vars(Lives("indexer") \/ IndexerMain \/ TickFails)
  /\ WF_vars(Lives("custody") \/ CustodyBoots)
  /\ WF_vars(Outside)
  /\ \A r \in Requests : WF_vars(Serve(r) \/ Cancelled(r))

FairSpec == Spec /\ Fairness
-----------------------------------------------------------------------------
(* Properties. *)

\* Every variable has its type, and a service that runs has one of the
\* networks the interface knows, however its id was written.
TypeOK ==
  /\ d \in DOMAIN Deployments
  /\ proc \in [Services -> {"absent", "init", "boot", "up", "draining", "dead", "stopped"}]
  /\ node \in {"absent", "up", "deployed"}
  /\ nats \subseteq Here.natsAt
  /\ todo \subseteq Custody
  /\ booked \subseteq Custody
  /\ stage \in [Requests -> Stages]
  /\ busy \in [Requests -> SUBSET Services]
  /\ status \in [Requests -> Statuses]
  /\ told \in [Requests -> {"none", "broadcasted", "failed", "pending"}]
  /\ paid \in [Requests -> BOOLEAN]
  /\ cut \in [Requests -> BOOLEAN]
  /\ signals \in Nat
  /\ crashes \in Nat
  /\ signals + crashes <= MaxEnds
  /\ proc["protocol"] = "up" => Protocol.network \in NetworkIdName
  /\ proc["broadcaster"] = "up" => Broadcaster.network \in NetworkIdName
  /\ proc["indexer"] = "up" => Indexer.network \in NetworkIdName

\* A custody service that answers requests began with the balance of every
\* custodied address, read from the deployed contract through a broadcaster
\* for the network it sends its transfers to: whatever dies or is missing
\* while it starts, it does not come up with less.
UpIsComplete ==
  proc["custody"] = "up" =>
    /\ booked = Custody
    /\ node = "deployed"
    /\ Broadcaster.network = Ethereum
    /\ Protocol.node = Here.nodeAt

\* Services that stop on a signal, in any order and any number of them, leave
\* nobody with a wrong answer: a transfer reported as failed was not paid, one
\* reported as broadcasted was, and none is "pending".  Only a process that is
\* killed, the custody service's own exit, or an answer of the node that is
\* lost after it took the transaction can make "failed" wrong, and nothing
\* makes "broadcasted" wrong.
AnswersAreTrue ==
  \A r \in Requests :
    /\ told[r] = "broadcasted" => paid[r]
    /\ told[r] = "failed" /\ paid[r] => cut[r]
    /\ told[r] # "pending"

\* What the indexer publishes is what the custody service listens to.
Connected ==
  /\ Indexer.natsURL = CustodyEnv.natsURL
  /\ Indexer.natsSubject = CustodyEnv.natsSubject

AllUp == node = "deployed" /\ \A s \in Services : proc[s] = "up"

\* With somebody who restarts what died, a deployment with sound settings is
\* up in the end and stays up, and connected, unless a signal stops a part of
\* it: no order of starting makes two services wait for each other, no default
\* of one misses the port of another, and no setting that is overridden or left
\* out leaves the two ends of the events at different servers or subjects.
ComesUp == <>[](Here.sound => AllUp /\ Connected) \/ <>(signals > 0)

\* A gRPC service that was told to stop does stop: the handlers it waits for
\* never wait for it, whatever else is stopping.
Stops == \A s \in GrpcServices : proc[s] = "draining" ~> proc[s] # "draining"
=============================================================================
