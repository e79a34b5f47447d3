------------------------------ MODULE Indexer ------------------------------
(***************************************************************************)
(* The block indexer: a one-second loop that compares its volatile         *)
(* progress with the chain tip and publishes the events of each block in   *)
(* between on a NATS subject.                                              *)
(*                                                                         *)
(* nc.Publish only appends to the client's write buffer, outbuf; the       *)
(* buffer is flushed by another goroutine (LedgerSync!Flush) and dies with *)
(* the process.  GetBlockEvents, Publish and SetLastIndexedBlock are one   *)
(* step: a sealed block never changes and nobody else reads the progress.  *)
(***************************************************************************)
EXTENDS Chain

CONSTANTS
  StartingBlock,   \* the flag -starting-block
  MaxFaults        \* bound: crashes, failed calls and dropped messages

ASSUME IndexerAssumption ==
  /\ StartingBlock \in Nat
  /\ MaxFaults \in Nat

VARIABLES
  ixState,       \* where Run is: "down", "idle", "tip" or "scan"
  lastIndexed,   \* the repository's lastIndexedBlock, in memory only
  target,        \* the tip the running scan goes up to
  outbuf,        \* messages published and not yet written to the connection
  indexed,       \* history: the heights whose events were published
  faults         \* how much of MaxFaults is used up

indexerVars == <<ixState, lastIndexed, target, outbuf, indexed>>

IndexerInit ==
  /\ ixState = "down"
  /\ lastIndexed = StartingBlock
  /\ target = 0
  /\ outbuf = <<>>
  /\ indexed = {}
  /\ faults = 0

\* The process starts with the configured starting block as its progress.
IndexerStart ==
  /\ ixState = "down"
  /\ ixState' = "idle"
  /\ lastIndexed' = StartingBlock
  /\ UNCHANGED <<chainVars, target, outbuf, indexed, faults>>

\* Mutant: the seed is one block early.
Tick_SeedsEarly ==
  /\ ixState = "idle"
  /\ ixState' = "tip"
  /\ lastIndexed' = IF lastIndexed = 0 /\ Tip > 0 THEN Tip - 1 ELSE lastIndexed
  /\ UNCHANGED <<chainVars, target, outbuf, indexed, faults>>

\* The ticker fires: getLastIndexedBlock.  Progress 0 stands for "none yet"
\* and is replaced by the tip.
Tick ==
  /\ ixState = "idle"
  /\ ixState' = "tip"
  /\ lastIndexed' = IF lastIndexed = 0 THEN Tip ELSE lastIndexed
  /\ UNCHANGED <<chainVars, target, outbuf, indexed, faults>>

\* getChainTip, an RPC of its own.
ReadTip ==
  /\ ixState = "tip"
  /\ target' = Tip
  /\ ixState' = IF lastIndexed < Tip THEN "scan" ELSE "idle"
  /\ UNCHANGED <<chainVars, lastIndexed, outbuf, indexed, faults>>

\* Publish: a block without relevant events is not sent.
Publish(h) ==
  IF BlockEvents(h) = {} THEN outbuf ELSE Append(outbuf, BlockEvents(h))

\* Mutant: the progress is set to the tip when the scan begins.
IndexBlock_Jumps ==
  LET h == lastIndexed + 1
  IN  /\ ixState = "scan"
      /\ Readable(h)
      /\ outbuf' = Publish(h)
      /\ lastIndexed' = target
      /\ indexed' = indexed \cup {h}
      /\ ixState' = "idle"
      /\ UNCHANGED <<chainVars, target, faults>>

\* One turn of the loop over the heights up to the tip.
IndexBlock ==
  LET h == lastIndexed + 1
  IN  /\ ixState = "scan"
      /\ Readable(h)
      /\ outbuf' = Publish(h)
      /\ lastIndexed' = h
      /\ indexed' = indexed \cup {h}
      /\ ixState' = IF h = target THEN "idle" ELSE "scan"
      /\ UNCHANGED <<chainVars, target, faults>>

\* The process ends and its buffer with it.  A termination that flushes
\* first is this step taken with an empty buffer.
IndexerDies ==
  /\ ixState' = "down"
  /\ outbuf' = <<>>
  /\ UNCHANGED <<chainVars, lastIndexed, target, indexed>>

\* An RPC of the loop fails, Run returns its error and main calls Fatal; or
\* the process is killed.
IndexerExit ==
  /\ ixState # "down"
  /\ faults < MaxFaults
  /\ faults' = faults + 1
  /\ IndexerDies

\* GetBlockEvents can only fail for this block.
PoisonExit ==
  /\ ixState = "scan"
  /\ ~ Readable(lastIndexed + 1)
  /\ IndexerDies
  /\ UNCHANGED faults

IndexerStep == Tick \/ ReadTip \/ IndexBlock \/ PoisonExit
=============================================================================
