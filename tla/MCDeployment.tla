--------------------------- MODULE MCDeployment ---------------------------
(***************************************************************************)
(* Deployments for TLC: the compose file; everything on one host, with     *)
(* defaults, files and empty flags; and five that somebody got wrong.      *)
(***************************************************************************)
EXTENDS Deployment, TLC

CONSTANTS Alice, Bob

MCInt32 == 8
MCNumeral == ("0" :> 0) @@ ("1" :> 1) @@ ("5" :> 5) @@ ("4294967297" :> MCInt32 + 1)

NoFile == [state |-> "missing", values |-> <<>>]
Read(values) == [state |-> "read", values |-> values]

OwnHost == [address |-> "address-service", protocol |-> "protocol-service",
            broadcaster |-> "broadcaster-service", indexer |-> "indexer-service",
            custody |-> "custody-service"]

Waits == [address |-> {}, protocol |-> {"address"}, broadcaster |-> {"protocol"},
          indexer |-> {"protocol"}, custody |-> {"broadcaster", "address"}]

\* docker-compose.yml.
Compose ==
  [sound |-> TRUE, host |-> OwnHost, dependsOn |-> Waits,
   nodeAt |-> "http://anvil:8545", natsAt |-> {"nats://nats:4222"},
   file |-> [s \in Services |-> NoFile],
   flags |-> [address |-> <<>>,
              protocol |-> ("address_service_endpoint" :> "address-service:50064")
                        @@ ("blockchain_node_endpoint" :> "http://anvil:8545")
                        @@ ("network_id" :> "ETHEREUM"),
              broadcaster |-> ("protocol_service_endpoint" :> "protocol-service:50065")
                           @@ ("network_id" :> "ETHEREUM"),
              indexer |-> ("protocol_service_endpoint" :> "protocol-service:50065")
                       @@ ("network_id" :> "ETHEREUM")
                       @@ ("nats_url" :> "nats://nats:4222"),
              custody |-> <<>>],
   env |-> ("PORT" :> "8080")
        @@ ("BROADCASTER_ENDPOINT" :> "broadcaster-service:50067")
        @@ ("ADDRESS_SERVICE_ENDPOINT" :> "address-service:50064")
        @@ ("USDC_CONTRACT_ADDRESS" :> UsdcContract)
        @@ ("NATS_URL" :> "nats://nats:4222")
        @@ ("NATS_SUBJECT" :> "blockchain.events")]

\* One host: the protocol service with a file whose node a flag overrides, and
\* the address service at the default; the indexer with a file whose NATS
\* server an empty flag takes back; the broadcaster's empty flag takes nothing
\* back.
OneHost ==
  [sound |-> TRUE, host |-> [s \in Services |-> "localhost"],
   dependsOn |-> Waits,
   nodeAt |-> "http://localhost:8545",
   natsAt |-> {"nats://localhost:4222", "nats://elsewhere:4222"},
   file |-> [address |-> NoFile,
             protocol |-> Read(("grpcserviceport" :> ":50065")
                            @@ ("network_id" :> "ETHEREUM")
                            @@ ("blockchain_node_endpoint" :> "https://eth-sepolia")),
             broadcaster |-> Read("protocol_service_endpoint" :> "localhost:50065"),
             indexer |-> Read(("nats_url" :> "nats://elsewhere:4222")
                           @@ ("starting_block" :> "1")
                           @@ ("network_id" :> "1")),
             custody |-> NoFile],
   flags |-> [address |-> <<>>,
              protocol |-> ("blockchain_node_endpoint" :> "http://localhost:8545"),
              broadcaster |-> ("network_id" :> "4294967297")
                           @@ ("protocol_service_endpoint" :> ""),
              indexer |-> ("protocol_service_endpoint" :> "localhost:50065")
                       @@ ("nats_url" :> ""),
              custody |-> <<>>],
   env |-> <<>>]

\* The broadcaster serves another network than the custody service asks for.
OtherNetwork ==
  [Compose EXCEPT !.sound = FALSE, !.flags["broadcaster"]["network_id"] = "UNSPECIFIED"]

\* It is given no protocol service, and the indexer no number to start from.
NoProtocol ==
  [Compose EXCEPT !.sound = FALSE,
                  !.flags["broadcaster"]["protocol_service_endpoint"] = "",
                  !.flags["indexer"] = @ @@ ("starting_block" :> "latest")]

\* The protocol service is given the address service's port.
OnePort ==
  [OneHost EXCEPT !.sound = FALSE,
                  !.natsAt = {"nats://localhost:4222"},
                  !.file["protocol"] = Read(("grpcserviceport" :> ":50064")
                                         @@ ("network_id" :> "ETHEREUM"))]

\* The custody service is given the broadcaster's.
TakenPort ==
  [OneHost EXCEPT !.sound = FALSE,
                  !.natsAt = {"nats://localhost:4222"},
                  !.env = "PORT" :> "50067"]

\* The protocol service's file cannot be read; the indexer's network does not
\* exist.
Broken ==
  [Compose EXCEPT !.sound = FALSE,
                  !.file["protocol"] = [state |-> "broken", values |-> <<>>],
                  !.flags["indexer"]["network_id"] = "5"]

MCCustody == {Alice, Bob}
MCDeployments ==
  [compose |-> Compose, onehost |-> OneHost, othernetwork |-> OtherNetwork,
   noprotocol |-> NoProtocol, oneport |-> OnePort, takenport |-> TakenPort,
   broken |-> Broken]
=============================================================================
