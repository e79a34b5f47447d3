----------------------------- MODULE Settings -----------------------------
(***************************************************************************)
(* What each service makes of its flags, its configuration file and its    *)
(* environment.  The three NewConfig functions look alike and differ: two  *)
(* of them let an empty flag pass for an absent one, the indexer lets some *)
(* empty flags override the file; each has its own defaults, and what one  *)
(* service defaults to must be where another one listens.                  *)
(*                                                                         *)
(* A setting is a text, "" when it is not given.  flags and env map the    *)
(* names that occur on the command line (in the environment) to texts; a   *)
(* file is [state, values], its state "missing", "broken" or "read".       *)
(* Letter case and surrounding spaces of a network id are dropped by the   *)
(* code and not represented; a place to listen at is host \o port.         *)
(***************************************************************************)
EXTENDS Integers, Sequences

CONSTANTS
  Int32,     \* 2^32: a network id is an int32
  Numeral    \* the texts strconv reads as integers, with their values

ASSUME SettingsAssumption ==
  /\ Int32 \in Nat \ {0, 1}
  /\ \A text \in DOMAIN Numeral : Numeral[text] \in Int

-----------------------------------------------------------------------------
(* Network ids. *)

NetworkIdValue == [NETWORK_ID_UNSPECIFIED |-> 0, NETWORK_ID_ETHEREUM |-> 1]

NetworkIdName == {0, 1}

Ethereum == NetworkIdValue.NETWORK_ID_ETHEREUM

Unknown == -1

\* Mutant: a number is taken without looking it up.
ParseNetworkID_AnyNumber(id) ==
  CASE id \in DOMAIN NetworkIdValue -> NetworkIdValue[id]
    [] "NETWORK_ID_" \o id \in DOMAIN NetworkIdValue ->
         NetworkIdValue["NETWORK_ID_" \o id]
    [] id \in DOMAIN Numeral -> Numeral[id] % Int32
    [] OTHER -> Unknown

\* A name, a name without its prefix, or a number, of which the conversions
\* to int32 keep the low 32 bits.
ParseNetworkID(id) ==
  CASE id \in DOMAIN NetworkIdValue -> NetworkIdValue[id]
    [] "NETWORK_ID_" \o id \in DOMAIN NetworkIdValue ->
         NetworkIdValue["NETWORK_ID_" \o id]
    [] id \in DOMAIN Numeral /\ Numeral[id] % Int32 \in NetworkIdName ->
         Numeral[id] % Int32
    [] OTHER -> Unknown

-----------------------------------------------------------------------------
(* Precedence. *)

Text(values, name) == IF name \in DOMAIN values THEN values[name] ELSE ""

OrDefault(text, default) == IF text = "" THEN default ELSE text

\* LoadConfig: without a file every value is empty.
LoadConfig(file, name) ==
  IF file.state = "read" THEN Text(file.values, name) ELSE ""

\* A flag with a text beats the file.
Override(file, flags, name) ==
  OrDefault(Text(flags, name), LoadConfig(file, name))

\* flag.Visit: a flag that is given beats the file, even if it is empty.
OverrideIfSet(file, flags, name) ==
  IF name \in DOMAIN flags THEN flags[name] ELSE LoadConfig(file, name)

\* The file, if there is one, can be read, and a network id is given and known.
Accepted(file, flags) ==
  /\ file.state # "broken"
  /\ Override(file, flags, "network_id") # ""
  /\ ParseNetworkID(Override(file, flags, "network_id")) # Unknown

-----------------------------------------------------------------------------
(* The services' settings; ok is FALSE where the code returns an error. *)

AddressPort == ":50064"

\* The protocol service refuses to start without a node.
ProtocolConfig(file, flags) ==
  [ok |-> Accepted(file, flags)
            /\ Override(file, flags, "blockchain_node_endpoint") # "",
   port |-> OrDefault(Override(file, flags, "grpcserviceport"), ":50065"),
   network |-> ParseNetworkID(Override(file, flags, "network_id")),
   node |-> Override(file, flags, "blockchain_node_endpoint"),
   address |-> OrDefault(Override(file, flags, "address_service_endpoint"),
                         "localhost:50064")]

\* The broadcaster starts without the protocol service's endpoint.
BroadcasterConfig(file, flags) ==
  [ok |-> Accepted(file, flags),
   port |-> OrDefault(Override(file, flags, "grpcserviceport"), ":50067"),
   network |-> ParseNetworkID(Override(file, flags, "network_id")),
   protocol |-> Override(file, flags, "protocol_service_endpoint")]

\* What a uint64 can be read from; nothing is 0.
BlockNumber(text) ==
  text = "" \/ (text \in DOMAIN Numeral /\ Numeral[text] >= 0)

\* Mutant: an empty flag passes for an absent one, as in the other services.
IndexerConfig_EmptyIsAbsent(file, flags) ==
  [ok |-> Accepted(file, flags) /\ BlockNumber(Override(file, flags, "starting_block")),
   network |-> ParseNetworkID(Override(file, flags, "network_id")),
   protocol |-> Override(file, flags, "protocol_service_endpoint"),
   startingBlock |-> OrDefault(Override(file, flags, "starting_block"), "0"),
   natsURL |-> OrDefault(Override(file, flags, "nats_url"), "nats://localhost:4222"),
   natsSubject |-> OrDefault(Override(file, flags, "nats_subject"),
                             "blockchain.events")]

\* So does the indexer.  A starting block that is not a number ends it, in
\* the file even if a flag overrides it; an empty flag is not a number.
IndexerConfig(file, flags) ==
  [ok |-> /\ Accepted(file, flags)
          /\ BlockNumber(LoadConfig(file, "starting_block"))
          /\ "starting_block" \in DOMAIN flags =>
               /\ flags["starting_block"] # ""
               /\ BlockNumber(flags["starting_block"]),
   network |-> ParseNetworkID(Override(file, flags, "network_id")),
   protocol |-> Override(file, flags, "protocol_service_endpoint"),
   startingBlock |-> OrDefault(OverrideIfSet(file, flags, "starting_block"), "0"),
   natsURL |-> OrDefault(OverrideIfSet(file, flags, "nats_url"),
                         "nats://localhost:4222"),
   natsSubject |-> OrDefault(OverrideIfSet(file, flags, "nats_subject"),
                             "blockchain.events")]

UsdcContract == "0x5FbDB2315678afecb367f032d93F642f64180aa3"

getUSDCContractAddress(env) ==
  OrDefault(Text(env, "USDC_CONTRACT_ADDRESS"), UsdcContract)

\* The custody service has an environment and defaults, and no errors.
CustodyConfig(env) ==
  [port |-> ":" \o OrDefault(Text(env, "PORT"), "8080"),
   broadcaster |-> OrDefault(Text(env, "BROADCASTER_ENDPOINT"), "localhost:50067"),
   address |-> OrDefault(Text(env, "ADDRESS_SERVICE_ENDPOINT"), "localhost:50064"),
   contract |-> getUSDCContractAddress(env),
   natsURL |-> OrDefault(Text(env, "NATS_URL"), "nats://localhost:4222"),
   natsSubject |-> OrDefault(Text(env, "NATS_SUBJECT"), "blockchain.events")]
=============================================================================
