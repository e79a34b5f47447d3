-------------------------- MODULE DeploymentProofs --------------------------
(***************************************************************************)
(* The processes, for every set of deployments, addresses and transfers:   *)
(* types, that a custody service which is up has the balance of every      *)
(* address, and that only the end of a process which worked on a transfer, *)
(* or an answer of the node that is lost, makes the client's answer wrong. *)
(* How settings are read matters for the networks of the services that     *)
(* run.                                                                    *)
(***************************************************************************)
EXTENDS Deployment, TLAPS

-----------------------------------------------------------------------------
(* Settings. *)

\* Every id that is accepted is one of the interface's networks.
LEMMA ParsedNetwork ==
  ASSUME NEW id
  PROVE  ParseNetworkID(id) \in NetworkIdName \cup {Unknown}
<1>1. \A n \in DOMAIN NetworkIdValue : NetworkIdValue[n] \in NetworkIdName
  BY DEF NetworkIdValue, NetworkIdName
<1> HIDE DEF NetworkIdValue
<1> DEFINE long == "NETWORK_ID_" \o id
<1>2. ParseNetworkID(id) =
        CASE id \in DOMAIN NetworkIdValue -> NetworkIdValue[id]
          [] long \in DOMAIN NetworkIdValue -> NetworkIdValue[long]
          [] id \in DOMAIN Numeral /\ Numeral[id] % Int32 \in NetworkIdName ->
               Numeral[id] % Int32
          [] OTHER -> Unknown
  BY DEF ParseNetworkID
<1> HIDE DEF long
<1> QED
  BY <1>1, <1>2

LEMMA AcceptedNetwork ==
  ASSUME NEW file, NEW flags, Accepted(file, flags)
  PROVE  ParseNetworkID(Override(file, flags, "network_id")) \in NetworkIdName
BY ParsedNetwork DEF Accepted

\* Three services check their network before they start.
LEMMA SettledNetworks ==
  ASSUME d \in DOMAIN Deployments
  PROVE  /\ Protocol.ok => Protocol.network \in NetworkIdName
         /\ Broadcaster.ok => Broadcaster.network \in NetworkIdName
         /\ Indexer.ok => Indexer.network \in NetworkIdName
<1>1. /\ Protocol = ProtocolConfig(Here.file["protocol"], Here.flags["protocol"])
      /\ Broadcaster = BroadcasterConfig(Here.file["broadcaster"], Here.flags["broadcaster"])
      /\ Indexer = IndexerConfig(Here.file["indexer"], Here.flags["indexer"])
  BY DEF Protocol, Broadcaster, Indexer, Config, Settled, Here
<1>2. Protocol.ok => Protocol.network \in NetworkIdName
  BY <1>1, AcceptedNetwork DEF ProtocolConfig
<1>3. Broadcaster.ok => Broadcaster.network \in NetworkIdName
  BY <1>1, AcceptedNetwork DEF BroadcasterConfig
<1>4. Indexer.ok => Indexer.network \in NetworkIdName
  BY <1>1, AcceptedNetwork DEF IndexerConfig
<1> QED
  BY <1>2, <1>3, <1>4

-----------------------------------------------------------------------------
(* The invariant. *)

Handlers == {"custody", "broadcaster", "protocol"}

\* A ledger is what a broadcaster and a contract that answer were asked for.
Grounded ==
  /\ node = "deployed"
  /\ Broadcaster.network = Ethereum
  /\ Protocol.node = Here.nodeAt

BootOK ==
  /\ proc["custody"] = "boot" => booked = Custody \ todo
  /\ proc["custody"] = "up" => booked = Custody
  /\ booked # {} => Grounded

\* A transfer at stage g with the handlers b, the status st, told t, paid p and
\* cut c: who works on it, what the answer on its way says of the payment,
\* and why nobody may be waiting for it.
Coherent(g, b, st, t, p, c) ==
  /\ b \subseteq Handlers
  /\ g \in {"idle", "done"} => b = {}
  /\ g = "idle" => t = "none"
  /\ g \in {"custody", "replied"} => b = {"custody"}
  /\ g \in {"prepare", "prepared", "answered"} =>
       "broadcaster" \in b /\ "protocol" \notin b
  /\ g \in {"preparing", "sending", "sent"} => "protocol" \in b
  /\ p => g \in {"sent", "answered", "replied", "done"}
  /\ g \in {"sent", "answered", "replied"} =>
       /\ st \in {"error", "BROADCASTED", "BROADCAST_FAILED", "SIGNING_FAILED"}
       /\ st = "BROADCASTED" => p
       /\ p => st = "BROADCASTED" \/ c
  /\ t # "none" => "custody" \notin b
  /\ "custody" \in b \/ c \/ g \in {"idle", "done"}
  /\ t = "broadcasted" => p
  /\ t = "failed" /\ p => c
  /\ t # "pending"

TransfersOK ==
  \A r \in Requests :
    Coherent(stage[r], busy[r], status[r], told[r], paid[r], cut[r])

DeploymentInv == TypeOK /\ BootOK /\ TransfersOK

LEMMA DeploymentInit == Init => DeploymentInv
<1> SUFFICES ASSUME Init PROVE DeploymentInv
  OBVIOUS
<1>1. TypeOK
  <2>1. signals \in Nat /\ crashes \in Nat /\ signals + crashes <= MaxEnds
    BY DeploymentAssumption DEF Init
  <2>2. /\ "protocol" \in Services /\ "broadcaster" \in Services /\ "indexer" \in Services
        /\ "idle" \in Stages /\ "none" \in Statuses
    BY DEF Services, GrpcServices, Stages, Statuses
  <2> QED
    BY <2>1, <2>2 DEF Init, TypeOK
<1>2. BootOK
  BY DEF Init, BootOK, Services
<1>3. TransfersOK
  BY DEF Init, TransfersOK, Coherent
<1> QED
  BY <1>1, <1>2, <1>3 DEF DeploymentInv

\* A deployment's settings never change.
LEMMA SameSettings ==
  ASSUME d' = d
  PROVE  /\ Here' = Here /\ Protocol' = Protocol
         /\ Broadcaster' = Broadcaster /\ Indexer' = Indexer
         /\ CustodyEnv' = CustodyEnv
BY DEF Here, Protocol, Broadcaster, Indexer, CustodyEnv

-----------------------------------------------------------------------------
(* Starting. *)

\* A process that goes on to a state of which only a service with accepted
\* settings may say "up", with the ledger as it was.
LEMMA ProcessMoves ==
  ASSUME DeploymentInv, NEW s \in Services,
         NEW x \in {"init", "up", "draining", "dead", "stopped"},
         Becomes(s, x),
         x = "up" => s # "custody",
         x = "up" /\ s = "protocol" => Protocol.ok,
         x = "up" /\ s = "broadcaster" => Broadcaster.ok,
         x = "up" /\ s = "indexer" => Indexer.ok,
         booked' \in {booked, {}}, todo' \in {todo, {}},
         s # "custody" => booked' = booked /\ todo' = todo,
         UNCHANGED <<d, node, nats>>,
         TransfersOK',
         /\ stage' \in [Requests -> Stages] /\ busy' \in [Requests -> SUBSET Services]
         /\ status' \in [Requests -> Statuses]
         /\ told' \in [Requests -> {"none", "broadcasted", "failed", "pending"}]
         /\ paid' \in [Requests -> BOOLEAN] /\ cut' \in [Requests -> BOOLEAN],
         signals' \in Nat, crashes' \in Nat, signals' + crashes' <= MaxEnds
  PROVE  DeploymentInv'
<1> USE DEF DeploymentInv
<1>1. /\ proc' = [proc EXCEPT ![s] = x] /\ proc \in [Services -> {"absent", "init", "boot", "up", "draining", "dead", "stopped"}]
  BY DEF Becomes, TypeOK
<1>2. /\ Protocol' = Protocol /\ Broadcaster' = Broadcaster /\ Indexer' = Indexer
      /\ Here' = Here
  BY SameSettings
<1>3. \A t \in Services : proc'[t] = IF t = s THEN x ELSE proc[t]
  BY <1>1
<1>4. TypeOK'
  <2>1. proc' \in [Services -> {"absent", "init", "boot", "up", "draining", "dead", "stopped"}]
    BY <1>1
  <2>2. /\ proc'["protocol"] = "up" => Protocol.network \in NetworkIdName
        /\ proc'["broadcaster"] = "up" => Broadcaster.network \in NetworkIdName
        /\ proc'["indexer"] = "up" => Indexer.network \in NetworkIdName
    BY <1>3, SettledNetworks DEF TypeOK, Services, GrpcServices
  <2> QED
    BY <1>2, <2>1, <2>2 DEF TypeOK
<1>5. BootOK'
  <2>1. "custody" \in Services
    BY DEF Services
  <2>2. booked' # {} => Grounded'
    BY <1>2 DEF BootOK, Grounded
  <2> QED
    BY <1>3, <2>1, <2>2 DEF BootOK
<1> QED
  BY <1>4, <1>5

\* What leaves the transfers alone keeps them coherent.
LEMMA TransfersStay ==
  ASSUME DeploymentInv, UNCHANGED transferVars
  PROVE  /\ TransfersOK'
         /\ stage' \in [Requests -> Stages] /\ busy' \in [Requests -> SUBSET Services]
         /\ status' \in [Requests -> Statuses]
         /\ told' \in [Requests -> {"none", "broadcasted", "failed", "pending"}]
         /\ paid' \in [Requests -> BOOLEAN] /\ cut' \in [Requests -> BOOLEAN]
BY DEF DeploymentInv, TypeOK, TransfersOK, transferVars

LEMMA BoundsStay ==
  ASSUME DeploymentInv, UNCHANGED boundVars
  PROVE  signals' \in Nat /\ crashes' \in Nat /\ signals' + crashes' <= MaxEnds
BY DEF DeploymentInv, TypeOK, boundVars

LEMMA ProcessStep ==
  ASSUME DeploymentInv,
         \/ \E s \in Services : Create(s) \/ Restart(s)
         \/ AddressMain \/ ProtocolMain \/ BroadcasterMain \/ IndexerMain \/ TickFails
  PROVE  DeploymentInv'
<1>1. /\ UNCHANGED <<d, node, nats, todo, booked>>
      /\ UNCHANGED transferVars /\ UNCHANGED boundVars
  BY DEF Create, Restart, AddressMain, ProtocolMain, BroadcasterMain, IndexerMain,
         TickFails, Others, outsideVars
<1>2. PICK s \in Services, x \in {"init", "up", "dead"} :
        /\ Becomes(s, x)
        /\ x = "up" => s # "custody"
        /\ x = "up" /\ s = "protocol" => Protocol.ok
        /\ x = "up" /\ s = "broadcaster" => Broadcaster.ok
        /\ x = "up" /\ s = "indexer" => Indexer.ok
  BY DEF Create, Restart, AddressMain, ProtocolMain, BroadcasterMain, IndexerMain,
         TickFails, Services, GrpcServices
<1> QED
  BY <1>1, <1>2, TransfersStay, BoundsStay, ProcessMoves

\* The custody service's start, up to the point where it serves its API.
LEMMA CustodyStep ==
  ASSUME DeploymentInv, CustodyBoots
  PROVE  DeploymentInv'
<1> USE DEF DeploymentInv
<1>1. /\ UNCHANGED <<d, node, nats, signals, crashes>> /\ UNCHANGED transferVars
      /\ UNCHANGED boundVars
  BY DEF CustodyBoots, CustodyMain, BookBalance, CustodyServes, Others, outsideVars,
         boundVars
<1>2. /\ TransfersOK'
      /\ stage' \in [Requests -> Stages] /\ busy' \in [Requests -> SUBSET Services]
      /\ status' \in [Requests -> Statuses]
      /\ told' \in [Requests -> {"none", "broadcasted", "failed", "pending"}]
      /\ paid' \in [Requests -> BOOLEAN] /\ cut' \in [Requests -> BOOLEAN]
  BY <1>1, TransfersStay
<1>3. /\ Protocol' = Protocol /\ Broadcaster' = Broadcaster /\ Indexer' = Indexer
      /\ Here' = Here
  BY <1>1, SameSettings
<1>4. /\ "custody" \in Services /\ todo \subseteq Custody /\ booked \subseteq Custody
      /\ proc \in [Services -> {"absent", "init", "boot", "up", "draining", "dead", "stopped"}]
  BY DEF Services, TypeOK
<1>5. /\ todo' \subseteq Custody /\ booked' \subseteq Custody
      /\ \E x \in {"boot", "up", "dead"} :
           proc' = [proc EXCEPT !["custody"] = x]
  <2>1. CASE CustodyMain
    BY <2>1, <1>4 DEF CustodyMain, Becomes
  <2>2. ASSUME NEW a \in Custody, BookBalance(a)
        PROVE  <1>5!1 /\ <1>5!2
    <3>1. proc["custody"] = "boot" => proc = [proc EXCEPT !["custody"] = "boot"]
      BY <1>4
    <3> QED
      BY <2>2, <3>1, <1>4 DEF BookBalance, Becomes
  <2>3. CASE CustodyServes
    BY <2>3, <1>4 DEF CustodyServes, Becomes
  <2> QED
    BY <2>1, <2>2, <2>3 DEF CustodyBoots
<1>6. TypeOK'
  <2>1. proc' \in [Services -> {"absent", "init", "boot", "up", "draining", "dead", "stopped"}]
    BY <1>4, <1>5
  <2>2. /\ proc'["protocol"] = proc["protocol"]
        /\ proc'["broadcaster"] = proc["broadcaster"]
        /\ proc'["indexer"] = proc["indexer"]
    BY <1>4, <1>5 DEF Services, GrpcServices
  <2> QED
    BY <1>1, <1>2, <1>3, <1>5, <2>1, <2>2 DEF TypeOK
<1>7. Grounded' <=> Grounded
  BY <1>1, <1>3 DEF Grounded
<1>8. BootOK'
  <2>1. CASE CustodyMain
    BY <2>1, <1>4, <1>7 DEF CustodyMain, Becomes, BootOK
  <2>2. ASSUME NEW a \in Custody, BookBalance(a) PROVE BootOK'
    <3>1. ReadsBalance => Grounded
      BY DEF ReadsBalance, Broadcasts, NodeAnswers, Grounded
    <3>2. CASE ReadsBalance
      <4>1. /\ proc["custody"] = "boot" /\ proc' = proc
            /\ todo' = todo \ {a} /\ booked' = booked \cup {a}
        BY <2>2, <3>2 DEF BookBalance
      <4> QED
        BY <3>1, <3>2, <4>1, <1>4, <1>7 DEF BootOK
    <3>3. CASE ~ ReadsBalance
      <4>1. booked' = {} /\ proc'["custody"] = "dead"
        BY <2>2, <3>3, <1>4 DEF BookBalance, Becomes
      <4> QED
        BY <4>1 DEF BootOK
    <3> QED
      BY <3>2, <3>3
  <2>3. CASE CustodyServes
    BY <2>3, <1>4, <1>7 DEF CustodyServes, Becomes, BootOK
  <2> QED
    BY <2>1, <2>2, <2>3 DEF CustodyBoots
<1> QED
  BY <1>2, <1>6, <1>8

LEMMA OutsideStep ==
  ASSUME DeploymentInv, Outside
  PROVE  DeploymentInv'
<1> USE DEF DeploymentInv
<1>1. /\ UNCHANGED <<d, proc, todo, booked>> /\ UNCHANGED transferVars
      /\ UNCHANGED boundVars
      /\ node' \in {"absent", "up", "deployed"} /\ nats' \subseteq Here.natsAt
      /\ node = "deployed" => node' = "deployed"
  BY DEF Outside, NodeUp, Deploy, NatsUp, processVars, TypeOK
<1>2. /\ Protocol' = Protocol /\ Broadcaster' = Broadcaster /\ Indexer' = Indexer
      /\ Here' = Here
  BY <1>1, SameSettings
<1>3. BootOK'
  BY <1>1, <1>2 DEF BootOK, Grounded
<1>4. TypeOK' /\ TransfersOK'
  BY <1>1, <1>2, TransfersStay, BoundsStay DEF TypeOK
<1> QED
  BY <1>3, <1>4

-----------------------------------------------------------------------------
(* A transfer. *)

\* A step on one transfer that keeps it coherent.
LEMMA OneTransfer ==
  ASSUME DeploymentInv, NEW r \in Requests,
         NEW g \in Stages, NEW b \in SUBSET Services, NEW st \in Statuses,
         NEW t \in {"none", "broadcasted", "failed", "pending"}, NEW p \in BOOLEAN,
         NEW c \in BOOLEAN,
         Coherent(g, b, st, t, p, c),
         stage' = [stage EXCEPT ![r] = g], busy' = [busy EXCEPT ![r] = b],
         status' = [status EXCEPT ![r] = st], told' = [told EXCEPT ![r] = t],
         paid' = [paid EXCEPT ![r] = p], cut' = [cut EXCEPT ![r] = c],
         UNCHANGED <<d, processVars, outsideVars, boundVars>>
  PROVE  DeploymentInv'
<1> USE DEF DeploymentInv
<1>1. UNCHANGED <<d, proc, todo, booked, node, nats, signals, crashes>>
  BY DEF processVars, outsideVars, boundVars
<1>2. /\ Protocol' = Protocol /\ Broadcaster' = Broadcaster /\ Indexer' = Indexer
      /\ Here' = Here
  BY <1>1, SameSettings
<1>3. BootOK'
  BY <1>1, <1>2 DEF BootOK, Grounded
<1>4. TypeOK'
  BY <1>1, <1>2 DEF TypeOK
<1>5. TransfersOK'
  BY <1>1 DEF TransfersOK, TypeOK
<1> QED
  BY <1>3, <1>4, <1>5

\* EXCEPT with the value that is there.
LEMMA Untouched ==
  ASSUME DeploymentInv, NEW r \in Requests
  PROVE  /\ stage = [stage EXCEPT ![r] = stage[r]]
         /\ status = [status EXCEPT ![r] = status[r]]
         /\ told = [told EXCEPT ![r] = told[r]]
         /\ paid = [paid EXCEPT ![r] = paid[r]]
         /\ cut = [cut EXCEPT ![r] = cut[r]]
         /\ stage[r] \in Stages /\ busy[r] \in SUBSET Services
         /\ status[r] \in Statuses
         /\ paid[r] \in BOOLEAN /\ cut[r] \in BOOLEAN
         /\ told[r] \in {"none", "broadcasted", "failed", "pending"}
         /\ Coherent(stage[r], busy[r], status[r], told[r], paid[r], cut[r])
BY DEF DeploymentInv, TypeOK, TransfersOK

\* The usual one neither pays nor tells anybody.
LEMMA StatusStep ==
  ASSUME DeploymentInv, NEW r \in Requests,
         NEW g \in Stages, NEW b \in SUBSET Services, NEW st \in Statuses,
         Coherent(g, b, st, told[r], paid[r], cut[r]),
         Moves(r, g, b), status' = [status EXCEPT ![r] = st],
         UNCHANGED <<told, paid>>, Elsewhere
  PROVE  DeploymentInv'
<1>1. PICK t \in {"none", "broadcasted", "failed", "pending"}, p \in BOOLEAN,
           c \in BOOLEAN :
        t = told[r] /\ p = paid[r] /\ c = cut[r]
  BY Untouched
<1>2. /\ told' = [told EXCEPT ![r] = t] /\ paid' = [paid EXCEPT ![r] = p]
      /\ cut' = [cut EXCEPT ![r] = c]
      /\ UNCHANGED <<d, processVars, outsideVars, boundVars>>
  BY <1>1, Untouched DEF Elsewhere
<1>3. Coherent(g, b, st, t, p, c)
  BY <1>1
<1>4. stage' = [stage EXCEPT ![r] = g] /\ busy' = [busy EXCEPT ![r] = b]
  BY DEF Moves
<1>5. /\ t \in {"none", "broadcasted", "failed", "pending"} /\ p \in BOOLEAN
      /\ c \in BOOLEAN
  OBVIOUS
<1> QED
  BY <1>2, <1>3, <1>4, <1>5, OneTransfer, Zenon

\* The request and its way down to the node.
LEMMA DownStep ==
  ASSUME DeploymentInv, NEW r \in Requests,
         Ask(r) \/ SendTransaction(r) \/ CallPrepare(r) \/ SignAndTransfer(r)
  PROVE  DeploymentInv'
<1> DEFINE Does(g, b, st) ==
      /\ g \in Stages /\ b \in SUBSET Services /\ st \in Statuses
      /\ Moves(r, g, b) /\ status' = [status EXCEPT ![r] = st]
      /\ UNCHANGED <<told, paid>> /\ Elsewhere
      /\ Coherent(g, b, st, told[r], paid[r], cut[r])
<1>1. ASSUME NEW g, NEW b, NEW st, Does(g, b, st) PROVE DeploymentInv'
  BY <1>1, StatusStep
<1>3. /\ status' = status => status' = [status EXCEPT ![r] = status[r]]
      /\ Coherent(stage[r], busy[r], status[r], told[r], paid[r], cut[r])
      /\ busy[r] \in SUBSET Services /\ status[r] \in Statuses
  BY Untouched
<1>4. {"custody", "broadcaster", "protocol"} \subseteq Services
  BY DEF Services, GrpcServices
<1>5. CASE Ask(r)
  <2>1. Does("custody", {"custody"}, status[r])
    BY <1>3, <1>4, <1>5 DEF Ask, Coherent, Stages, Handlers
  <2> QED
    BY <1>1, <2>1
<1>6. CASE SendTransaction(r)
  <2>1. \/ Does("prepare", busy[r] \cup {"broadcaster"}, status[r])
        \/ Does("replied", busy[r], "error")
    BY <1>3, <1>4, <1>6 DEF SendTransaction, Coherent, Stages, Statuses, Handlers
  <2> QED
    BY <1>1, <2>1
<1>7. CASE CallPrepare(r)
  <2>1. \/ Does("preparing", busy[r] \cup {"protocol"}, status[r])
        \/ Does("replied", busy[r] \ {"broadcaster"}, "error")
        \/ Does("done", {}, "error")
    BY <1>3, <1>4, <1>7
       DEF CallPrepare, Returns, Coherent, Stages, Statuses, Handlers
  <2> QED
    BY <1>1, <2>1
<1>8. CASE SignAndTransfer(r)
  <2>1. \/ Does("sending", busy[r] \cup {"protocol"}, status[r])
        \/ Does("answered", busy[r], "BROADCAST_FAILED")
        \/ Does("answered", busy[r], "SIGNING_FAILED")
    BY <1>3, <1>4, <1>8 DEF SignAndTransfer, Coherent, Stages, Statuses, Handlers
  <2> QED
    BY <1>1, <2>1
<1> QED
  BY <1>5, <1>6, <1>7, <1>8

\* The answers' way back, as far as the handlers' callers.
LEMMA UpStep ==
  ASSUME DeploymentInv, NEW r \in Requests, Prepare(r) \/ Return(r) \/ Cancelled(r)
  PROVE  DeploymentInv'
<1> DEFINE Does(g, b, st) ==
      /\ g \in Stages /\ b \in SUBSET Services /\ st \in Statuses
      /\ Moves(r, g, b) /\ status' = [status EXCEPT ![r] = st]
      /\ UNCHANGED <<told, paid>> /\ Elsewhere
      /\ Coherent(g, b, st, told[r], paid[r], cut[r])
<1>1. ASSUME NEW g, NEW b, NEW st, Does(g, b, st) PROVE DeploymentInv'
  BY <1>1, StatusStep
<1>3. /\ status' = status => status' = [status EXCEPT ![r] = status[r]]
      /\ Coherent(stage[r], busy[r], status[r], told[r], paid[r], cut[r])
      /\ busy[r] \in SUBSET Services /\ status[r] \in Statuses
  BY Untouched
<1>4. CASE Prepare(r)
  <2>1. \/ Does("prepared", busy[r] \ {"protocol"}, "none")
        \/ Does("answered", busy[r] \ {"protocol"}, "error")
        \/ Does("done", {}, "none")
        \/ Does("done", {}, "error")
    BY <1>3, <1>4 DEF Prepare, Returns, Coherent, Stages, Statuses, Handlers
  <2> QED
    BY <1>1, <2>1
<1>5. CASE Return(r)
  <2>1. \/ Does("answered", busy[r] \ {"protocol"}, status[r])
        \/ Does("replied", busy[r] \ {"broadcaster"}, status[r])
        \/ Does("done", {}, status[r])
    BY <1>3, <1>5 DEF Return, Returns, Coherent, Stages, Statuses, Handlers
  <2> QED
    BY <1>1, <2>1
<1>6. CASE Cancelled(r)
  <2>1. Does("done", {}, status[r])
    BY <1>3, <1>6 DEF Cancelled, Coherent, Stages, Handlers
  <2> QED
    BY <1>1, <2>1
<1> QED
  BY <1>4, <1>5, <1>6

\* The payment.
LEMMA SendRawStep ==
  ASSUME DeploymentInv, NEW r \in Requests, SendRaw(r)
  PROVE  DeploymentInv'
<1>1. /\ stage[r] = "sending"
      /\ UNCHANGED <<d, processVars, outsideVars, boundVars>>
      /\ stage' = [stage EXCEPT ![r] = "sent"] /\ busy' = [busy EXCEPT ![r] = busy[r]]
      /\ told' = [told EXCEPT ![r] = told[r]]
  BY Untouched DEF SendRaw, Moves
<1>2. /\ Coherent(stage[r], busy[r], status[r], told[r], paid[r], cut[r])
      /\ busy[r] \in SUBSET Services /\ paid[r] = FALSE /\ cut[r] \in BOOLEAN
      /\ told[r] \in {"none", "broadcasted", "failed", "pending"}
  BY <1>1, Untouched DEF Coherent
<1>3. PICK p \in BOOLEAN, st \in {"BROADCASTED", "BROADCAST_FAILED"}, c \in BOOLEAN :
        /\ st = "BROADCASTED" => p
        /\ p => st = "BROADCASTED" \/ c
        /\ cut[r] => c
        /\ paid' = [paid EXCEPT ![r] = p] /\ status' = [status EXCEPT ![r] = st]
        /\ cut' = [cut EXCEPT ![r] = c]
  BY <1>2, Untouched DEF SendRaw
<1>4. Coherent("sent", busy[r], st, told[r], p, c)
  BY <1>1, <1>2, <1>3 DEF Coherent
<1>5. "sent" \in Stages /\ st \in Statuses
  BY DEF Stages, Statuses
<1> QED
  BY <1>1, <1>2, <1>3, <1>4, <1>5, OneTransfer

\* What the client is told.
LEMMA TellStep ==
  ASSUME DeploymentInv, NEW r \in Requests, Tell(r)
  PROVE  DeploymentInv'
<1>1. /\ stage[r] = "replied"
      /\ UNCHANGED <<d, processVars, outsideVars, boundVars>>
      /\ cut' = [cut EXCEPT ![r] = cut[r]]
      /\ stage' = [stage EXCEPT ![r] = "done"] /\ busy' = [busy EXCEPT ![r] = {}]
      /\ told' = [told EXCEPT ![r] = ToldAs(status[r])]
      /\ paid' = [paid EXCEPT ![r] = paid[r]]
      /\ status' = [status EXCEPT ![r] = status[r]]
  BY Untouched DEF Tell, Moves, Elsewhere
<1>2. /\ Coherent(stage[r], busy[r], status[r], told[r], paid[r], cut[r])
      /\ status[r] \in Statuses /\ paid[r] \in BOOLEAN /\ cut[r] \in BOOLEAN
  BY Untouched
<1>3. /\ ToldAs(status[r]) \in {"broadcasted", "failed"}
      /\ ToldAs(status[r]) = "broadcasted" => paid[r]
      /\ ToldAs(status[r]) = "failed" /\ paid[r] => cut[r]
  BY <1>1, <1>2 DEF Coherent, ToldAs
<1>4. Coherent("done", {}, status[r], ToldAs(status[r]), paid[r], cut[r])
  BY <1>1, <1>2, <1>3 DEF Coherent
<1>5. /\ "done" \in Stages /\ {} \in SUBSET Services
      /\ ToldAs(status[r]) \in {"none", "broadcasted", "failed", "pending"}
  BY <1>3 DEF Stages
<1> QED
  BY <1>1, <1>2, <1>4, <1>5, OneTransfer

-----------------------------------------------------------------------------
(* The end of a process. *)

\* Whoever worked for a process that is gone may go on, but nobody is told
\* anything then that the history does not account for.
LEMMA GoneKeeps ==
  ASSUME DeploymentInv, NEW s \in Services, Gone(s)
  PROVE  /\ TransfersOK'
         /\ stage' \in [Requests -> Stages] /\ busy' \in [Requests -> SUBSET Services]
         /\ status' \in [Requests -> Statuses]
         /\ told' \in [Requests -> {"none", "broadcasted", "failed", "pending"}]
         /\ paid' \in [Requests -> BOOLEAN] /\ cut' \in [Requests -> BOOLEAN]
<1> USE DEF DeploymentInv
<1>1. ASSUME NEW r \in Requests, s \notin busy[r]
      PROVE  /\ stage'[r] = stage[r] /\ busy'[r] = busy[r] /\ told'[r] = told[r]
             /\ cut'[r] = cut[r]
  BY <1>1 DEF Gone, TypeOK
<1>2. ASSUME NEW r \in Requests, s \in busy[r]
      PROVE  /\ busy'[r] = busy[r] \cap Beneath(s) /\ cut'[r] = TRUE
             /\ stage'[r] = IF busy'[r] = {} THEN "done" ELSE stage[r]
             /\ told'[r] = IF "custody" \in busy[r] THEN "failed" ELSE told[r]
  BY <1>2 DEF Gone, TypeOK
<1>3. status' = status /\ paid' = paid
  BY DEF Gone
<1>4. Beneath(s) \subseteq Services
  BY DEF Beneath, Services, GrpcServices
<1>5. /\ stage' \in [Requests -> Stages] /\ busy' \in [Requests -> SUBSET Services]
      /\ told' \in [Requests -> {"none", "broadcasted", "failed", "pending"}]
      /\ cut' \in [Requests -> BOOLEAN]
  <2>1. "done" \in Stages
    BY DEF Stages
  <2> QED
    BY <1>4, <2>1 DEF Gone, TypeOK
<1>6. ASSUME NEW r \in Requests
      PROVE  Coherent(stage'[r], busy'[r], status'[r], told'[r], paid'[r], cut'[r])
  <2>1. /\ Coherent(stage[r], busy[r], status[r], told[r], paid[r], cut[r])
        /\ stage[r] \in Stages /\ paid[r] \in BOOLEAN
        /\ told[r] \in {"none", "broadcasted", "failed", "pending"}
    BY Untouched
  <2>2. CASE s \notin busy[r]
    BY <1>1, <1>3, <2>1, <2>2
  <2>3. CASE s \in busy[r]
    <3>1. s \in Handlers /\ stage[r] \notin {"idle", "done"}
      BY <2>1, <2>3 DEF Coherent
    <3>2. CASE s = "protocol"
      <4>1. busy'[r] = {} /\ stage'[r] = "done"
        BY <1>2, <2>3, <3>2 DEF Beneath
      <4> QED
        BY <1>2, <1>3, <2>1, <2>3, <4>1 DEF Coherent
    <3>3. CASE s = "broadcaster"
      <4>1. busy'[r] = busy[r] \cap {"protocol"}
        BY <1>2, <2>3, <3>3 DEF Beneath
      <4>2. stage'[r] # "done" =>
              stage'[r] = stage[r] /\ stage[r] \in {"preparing", "sending", "sent"}
        <5>1. stage'[r] # "done" => stage'[r] = stage[r] /\ "protocol" \in busy[r]
          BY <1>2, <2>3, <4>1
        <5>2. "broadcaster" \in busy[r]
          BY <2>3, <3>3
        <5> QED
          BY <2>1, <5>1, <5>2 DEF Coherent, Stages
      <4> QED
        BY <1>2, <1>3, <2>1, <2>3, <4>1, <4>2 DEF Coherent, Handlers
    <3>4. CASE s = "custody"
      <4>1. busy'[r] = busy[r] \cap {"broadcaster", "protocol"}
        BY <1>2, <2>3, <3>4 DEF Beneath
      <4>2. stage'[r] # "done" => stage'[r] = stage[r] /\ stage[r] \notin {"custody", "replied"}
        BY <1>2, <2>1, <2>3, <3>1, <4>1 DEF Coherent
      <4> QED
        BY <1>2, <1>3, <2>1, <2>3, <3>1, <4>1, <4>2 DEF Coherent, Handlers
    <3> QED
      BY <3>1, <3>2, <3>3, <3>4 DEF Handlers
  <2> QED
    BY <2>2, <2>3
<1> QED
  BY <1>3, <1>5, <1>6 DEF TransfersOK, TypeOK

LEMMA EndStep ==
  ASSUME DeploymentInv, NEW s \in Services,
         Drain(s) \/ Drained(s) \/ Terminate(s) \/ Crash(s)
  PROVE  DeploymentInv'
<1>1. /\ signals' \in Nat /\ crashes' \in Nat /\ signals' + crashes' <= MaxEnds
      /\ UNCHANGED <<d, node, nats>>
  BY DeploymentAssumption
     DEF Drain, Drained, Terminate, Crash, boundVars, outsideVars, DeploymentInv, TypeOK
<1>2. PICK x \in {"draining", "stopped", "dead"} : Becomes(s, x)
  BY DEF Drain, Drained, Terminate, Crash
<1>3. /\ booked' \in {booked, {}} /\ todo' \in {todo, {}}
      /\ s # "custody" => booked' = booked /\ todo' = todo
  BY DEF Drain, Drained, Terminate, Crash, Forget
<1>4. CASE UNCHANGED transferVars
  BY <1>1, <1>2, <1>3, <1>4, TransfersStay, ProcessMoves
<1>5. CASE Gone(s)
  BY <1>1, <1>2, <1>3, <1>5, GoneKeeps, ProcessMoves
<1> QED
  BY <1>4, <1>5 DEF Drain, Drained, Terminate, Crash

-----------------------------------------------------------------------------

LEMMA DeploymentStep == DeploymentInv /\ [Next]_vars => DeploymentInv'
<1> SUFFICES ASSUME DeploymentInv, [Next]_vars PROVE DeploymentInv'
  OBVIOUS
<1>1. CASE UNCHANGED vars
  <2>1. /\ UNCHANGED <<d, proc, todo, booked, node, nats>>
        /\ UNCHANGED transferVars /\ UNCHANGED boundVars
    BY <1>1 DEF vars, processVars, outsideVars
  <2>2. /\ Protocol' = Protocol /\ Broadcaster' = Broadcaster /\ Indexer' = Indexer
        /\ Here' = Here
    BY <2>1, SameSettings
  <2>3. BootOK'
    BY <2>1, <2>2 DEF DeploymentInv, BootOK, Grounded
  <2>4. TypeOK' /\ TransfersOK'
    BY <2>1, <2>2, TransfersStay, BoundsStay DEF DeploymentInv, TypeOK
  <2> QED
    BY <2>3, <2>4 DEF DeploymentInv
<1>2. CASE \/ \E s \in Services : Create(s) \/ Restart(s)
           \/ AddressMain \/ ProtocolMain \/ BroadcasterMain \/ IndexerMain \/ TickFails
  BY <1>2, ProcessStep
<1>3. CASE CustodyBoots \/ Outside
  BY <1>3, CustodyStep, OutsideStep
<1>4. CASE \E r \in Requests : Ask(r) \/ Serve(r) \/ Cancelled(r)
  BY <1>4, DownStep, UpStep, SendRawStep, TellStep DEF Serve
<1>5. CASE \E s \in Services : Drain(s) \/ Drained(s) \/ Terminate(s) \/ Crash(s)
  BY <1>5, EndStep
<1> QED
  BY <1>1, <1>2, <1>3, <1>4, <1>5 DEF Next, Main

LEMMA DeploymentInvariant == Spec => []DeploymentInv
BY DeploymentInit, DeploymentStep, PTL DEF Spec

\* Every variable has its type, and a service that runs has one of the
\* networks the interface knows, however its id was written.
THEOREM DeploymentTypeCorrect == Spec => []TypeOK
<1>1. DeploymentInv => TypeOK
  BY DEF DeploymentInv
<1> QED
  BY <1>1, DeploymentInvariant, PTL

\* Whatever dies or is missing while it starts: a custody service that serves
\* requests has the balance of every address from the deployed contract.
THEOREM CustodyUpIsComplete ==
  ASSUME Custody # {}
  PROVE  Spec => []UpIsComplete
<1>1. DeploymentInv => UpIsComplete
  BY DEF DeploymentInv, BootOK, UpIsComplete, Grounded
<1> QED
  BY <1>1, DeploymentInvariant, PTL

\* Only the end of a process that worked on a transfer, or an answer of the
\* node that was lost, makes a failure that the client hears of a payment; what
\* it hears as broadcasted always is one.
THEOREM OnlyCutsMislead == Spec => []AnswersAreTrue
<1>1. DeploymentInv => AnswersAreTrue
  BY DEF DeploymentInv, TransfersOK, Coherent, AnswersAreTrue
<1> QED
  BY <1>1, DeploymentInvariant, PTL
=============================================================================
