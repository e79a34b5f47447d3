# A TLA+ model of p2p-qr

This directory holds TLA+ specifications of the services under `src/services`, TLC configurations that
check them on small instances, and TLAPS proofs of the properties that matter most.

## The system

p2p-qr moves a stablecoin (a mock USDC) between wallets on an EVM chain. A custody service offers an HTTP
API and a web page; four gRPC services stand between it and the chain; NATS carries chain events back.

    browser --HTTP--> custody --gRPC--> broadcaster --gRPC--> protocol --JSON-RPC--> EVM node
                        ^   \                |  in process        |                     (anvil)
                        |    \               v                    v
                        |     \            signer              address
                        |      +--gRPC---------------------------^
                       NATS <------------------ indexer --gRPC--> protocol

| Component | State it keeps | Operations |
|---|---|---|
| custody: ledger and consumer (`custody/internal/{service,repository,consumer}`) | a map address -> balance, in memory; the NATS subscription | start: a balance snapshot per custodied address, then subscribe; `processEvent`; `GetBalance`; `UpdateBalance` |
| custody: HTTP API and QR codec (`custody/api`) | none | balance, transfer, transfer from a QR payload, QR generation |
| dashboard page (`custody/api/dashboard.go`) | active wallet, shown balance, generated payload, button states | page script: fetch, generate, preview, pay |
| indexer (`blockchain/indexer`) | last indexed block, in memory; the NATS client's write buffer | one loop: every second, from the last indexed block to the tip |
| protocol (`blockchain/networks/evm/protocol`) | none | `GetLatestBlock`, `GetBlockEvents`, `GetTokenBalance`, `PrepareTransaction`, `Transfer` |
| broadcaster (`blockchain/broadcaster`) | none | `SendTransaction`: prepare, sign, send; `GetTokenBalance` |
| signer (`blockchain/signer`) | ten private keys | `SignTransaction` |
| address (`blockchain/address`) | two custodied addresses | `GetCustodyAddresses` |
| the five processes (`*/cmd/*/main.go`, `docker-compose.yml`) | their settings (flags, YAML file, environment), what they connected to | start in the compose file's order, stop on a signal, exit on an error |
| outside: EVM node, NATS server | the chain, the transaction pool; nothing (core NATS) | |

Nothing is persisted by any service. A restart loses the ledger, the subscription and the indexing progress.

### What is hard, and what makes each part correct

* **Ledger.** It is a snapshot plus a stream of increments that is not persisted, not acknowledged and not
  de-duplicated. It is right only if the snapshots and the stream fit together exactly: nothing missed
  between them, nothing delivered twice, out of order or not at all.
* **Indexer.** Its progress counter is volatile, with 0 as a sentinel for "none"; a crash between publishing
  and the network write, a restart, and a block that cannot be decoded all bear on what the stream contains.
* **Transfer path.** A transfer is prepared with four separate reads of a moving chain and then sent without
  any record of it. Concurrent transfers of one sender compete for one nonce; a lost answer cannot be told
  from a lost transfer; the fee cap is fixed at preparation.
* **API, codec.** Validation and encoding without state. A payment request crosses four readings of one amount
  and two parsers of one format; what counts is that what is paid is what was issued, or nothing.
* **Page.** A single-threaded script whose listeners share the text area, the preview, the buttons and the
  balance box with the answers of requests that are still out.
* **Processes.** Five programs that depend on each other at start, in different ways: two do not come up without
  another one, three come up whatever is there and fail later. Each has its own defaults, and what one defaults
  to is where another must be. A stop on a signal meets transfers in progress in up to three processes at once;
  custody and indexer do not drain, the gRPC services do.

`PROJECT.json` lists every hazard found, with its line and the properties that cover it.

## Modules

| Module | Models |
|---|---|
| `Chain` | external node, read side: logs, sealed blocks, balances; over it `GetLatestBlock`, `GetBlockEvents` (with the address filter and the decoding failure), `GetTokenBalance`, `GetCustodyAddresses` |
| `Indexer` (EXTENDS `Chain`) | `Run` step by step, the progress repository, `NatsPublisher`, exit and restart |
| `LedgerSync` (EXTENDS `Indexer`) | NATS delivery, the custody process (start, snapshots, subscription, exit), `processEvent` in three steps; this is the composition of the read side |
| `BalanceMirror` | abstract: a replica that moves forward through the chain's past balances |
| `MCLedgerSync` | small instances of `LedgerSync` |
| `LedgerSyncProofs`, `MirrorProofs` | proofs about `LedgerSync`: its types and order; content and the refinement of `BalanceMirror` |
| `Node` | external node, transfer side: balances, nonces, pool, mining, base fee |
| `TransferFlow` (EXTENDS `Node`) | one transfer from custody through broadcaster, protocol and signer, any number of them at once, with everything that can fail |
| `Payments` | abstract: money moves on request, once per request, within the payer's funds |
| `MCTransferFlow` | small instances of `TransferFlow` |
| `TransferProofs` | proofs about `TransferFlow`, the refinement of `Payments` among them |
| `Crc16` | one step of `calculateCRC16`: a register and a byte as sets of bits |
| `ChecksumLoop` (EXTENDS `Crc16`) | the loop over an issued text and over what was read of it, in lock step |
| `MCChecksumLoop` | misreadings of short texts |
| `ChecksumProofs` | proofs about `ChecksumLoop` |
| `QRCodec` | `buildEMVCoQRContent`, both `parseEMVCoTLV` (server and page), `parseDecimalAmount`, the address pattern |
| `PaymentPage` (EXTENDS `QRCodec`) | the generator and transfer endpoints and, between them, the page: request, issue, carry over, preview, pay |
| `MCPaymentPage` | requests on both sides of every limit |
| `QRCodecProofs` | proofs about `QRCodec`: what is written is what both ends read |
| `PaymentPageProofs` (EXTENDS `QRCodecProofs`) | proofs about `PaymentPage`: the page, and what is paid through it |
| `BalanceView` | the page's balance box over a ledger that follows the blocks |
| `MCBalanceView` | two wallets, a tick a second |
| `BalanceViewProofs` | proofs about `BalanceView` |
| `Settings` | the `NewConfig` functions and `main`'s environment: what a service makes of its flags, file and environment; network ids |
| `Deployment` (EXTENDS `Settings`) | the five mains, the node with its contract, NATS; who needs whom at start, signals, kills, restarts, and the transfers they interrupt; this composes the services as processes |
| `MCDeployment` | the compose file, a single host, and five deployments that somebody got wrong |
| `DeploymentProofs` | proofs about `Deployment` |

### LedgerSync

An event is a position in `log`; a NATS message is the set of positions of one block's relevant events, and
the callback takes them in order. The indexer's loop is three actions because three RPC results are used
after the chain may have moved: `Tick` (`getLastIndexedBlock`, seeding from the tip when the progress is 0),
`ReadTip` (`getChainTip`) and one `IndexBlock` per height. `GetBlockEvents`, `Publish` and
`SetLastIndexedBlock` are one action: a sealed block never changes, and nobody else reads the progress.
`Publish` appends to `outbuf`; `Flush` stands for the client's flusher and the server, and delivers to the
custody service only if it is subscribed then. `processEvent` is `Ignore`, or `Lookup` then `Debit` then
`Credit`, because the RPC and the two critical sections of the repository are separate moments for a reader.

Faults, bounded by `MaxFaults`: either process dies, NATS drops a message, an address lookup fails (the code
logs it and goes on with an empty answer). A block with a log that does not unpack is not a fault but an
input: `PoisonExit` is then the only step, as `Run` returns the error and `main` exits. (A log with too few topics
makes the protocol service panic, `erc20.go:30` and `:51`, where gRPC has no recovery; that its process then ends, and
the indexer's with it, is collapsed with the error here, and `Deployment` has the death of either.)

History variables: `indexed`, `snapAt`, `applied` and `clean`. `clean` is set when the service subscribes at
a moment where the snapshots are all at the tip and the indexer has nothing left to publish from before
(`QuietStart`), and reset by any fault. It is the condition the code silently relies on: `ExactAtRest`,
`BalanceIsPast`, `MirrorsChain` and `EventuallyApplied` hold under it, and the run `balance_comment` shows
that without it the ledger is wrong for good. The other properties do not depend on it.

### TransferFlow

One `pc` per request. `Ask` is everything up to the first RPC, the payload check included; then one action
per RPC of `PrepareTransaction` in its order, `Sign`, `Send`, and `Answer`. The raw transaction is a message
on `wire`: it reaches the node (`Arrive`) whether or not the caller still waits, or is lost (`Lose`), and
`GiveUp` (deadline, disconnect, a service that stops) leaves it on the wire. `CallFails` covers every error
before the send. An amount enters the calldata modulo 2^256 (`Packed`).

`Node` is external: mining is one transaction at a time (a finer grain than blocks, so a superset of what
the services can observe); a transaction replaces a pending one of the same sender and nonce when it pays
more; the base fee moves on its own. `eth_estimateGas` is called without a block, and nodes differ in the state they
then run it on, so `EstimateGas` may be answered from any state between the latest one and all that the pool may
still bring or take (`EstimateMayBe`, `EstimateMayRevert`). The answer is a gas limit, `Cheap` or `Dear`: a recipient
who holds no tokens costs a fresh storage slot. `PrepareTransaction` takes the estimate as the limit, with no margin,
and the signer signs it, so `Mine` lets a transfer succeed only if the money is there and the limit still suffices.
The history variable `checkedAt` is the sender's nonce at the time of the simulation.

### The payment code

The checksum is modelled twice, at two levels. `ChecksumLoop` is the code's loop itself, bit by bit, and its
result is the property `MisreadCaught`: no misreading of one byte, or of two neighbours, keeps the checksum.
`PaymentPage` relies on it and on nothing else: there a payload is its text and, as its checksum, the text it
was computed over, and a misreading changes one byte of the text.

Texts in `QRCodec` are sequences of bytes of their real lengths, since the format's hazards are lengths: the
two-digit length field, templates, truncation. The two parsers are one scanner, `Fields`, with different ways
to end: the server stops with an error, or keeps what it has inside a template; the page goes on with
`substring(i, NaN)` and counts UTF-16 units instead of bytes. Constant fields stand for themselves by length
only. Amounts are pairs (digits, places) of a finite set, written the way `decimal.String` writes them. No number
has more than `MaxDigits` digits, and `Tens` holds the powers of ten up to there. `strings.EqualFold` is the letter
case of ASCII. The scanner is a recursive function of the offset (`Scan`), so that it can be reasoned about.

`PaymentPage` keeps the page's state: two buttons, the text area, the preview box, and the requests in flight
of either. What the text area can hold is precomputed as a `Sheet`: an issued code, misread or not, with what
the page's parser shows of it and what the server makes of it. `Serve` is the transfer endpoint, whose call of
`Transfer` (modelled in `TransferFlow`) is paid, fails, or is paid and reported as failed because the protocol service
did not get the node's answer (`"unheard"`: the endpoint then says 500 "transfer failed"). The HTTP answer can be lost
before or after the work, too, and the page shows the same failure for all of these, with text and button ready for
another click; both kinds of loss count against `MaxLost`. The history variable
`since` keeps the clicks up to the last input event, so that a second click on the same text can be told from
one on a new text.

### BalanceView

`refreshBalance` is two steps with an await between them, started by four listeners and a timer; `Serve` is
the balance endpoint reading the ledger. A fetch remembers when it started and what it read. The ledger is the
one `LedgerSync` describes, reduced to "mined transfers are booked in order"; time is in ticks, with the
page's delay and the block time as constants (2 and 3, for 2000 ms and `--block-time 3`).

### Settings and Deployment

`Settings` has one operator per `NewConfig`. They look alike and differ: protocol and broadcaster let an empty
flag pass for an absent one (`Override`), the indexer lets some empty flags erase what the file says
(`OverrideIfSet`), and only it has a number to parse, the starting block, which ends it if it is none; only protocol
refuses to start without its endpoint. A network id given as a number loses
all but its low 32 bits in the conversion to the enumeration, so 2^32 + 1 is Ethereum; `Int32` is 8 in the
instance, with the decimal text of 2^32 + 1 read as `Int32` + 1.

In `Deployment` each service is a process: absent, in `main`, in the custody service's start-up loop, up,
draining (the gRPC services after a signal), stopped or dead. A call is served if the callee listens at the
caller's endpoint, does not drain, and has registered the method. A read (balance, addresses, blocks) is one
step. A transfer is a step per process it passes, and `busy` is the set of services whose handler waits for it;
its own calls to the node are those of `TransferFlow` and appear as a choice: the node took the transaction or did
not, and if it did, its answer arrived or was lost, which the protocol service reports as `BROADCAST_FAILED`.
When a process ends, everyone above it hears of a failure at once, and whoever works below it goes on until the
cancelled context is noticed (`Cancelled`), which may be after the payment. `cut` records that this happened, or that
the node's answer was lost. `nats` is the set of NATS servers that are up: a deployment may have several, and
indexer and custody connect to whichever they were given. The custody service's HTTP port is a port like the
others: if it is taken, its process ends. A subscription that fails after the connection was made is only logged
(`main.go:86-90`), which changes nothing that this module keeps; `LedgerSync` has the lost events.
A deployment is a constant; the initial state chooses one of those named in the instance.

## Runs

| Run | Instance | Checks |
|---|---|---|
| `sync_exact` | 2 custodied addresses, 3 events, 3 blocks, 1 fault, no starting block; transfers inside, into, to oneself, and a log that does not unpack | `TypeOK`, `BalanceIsPast`, `ExactAtRest`, `AppliedInOrder`, `PipelineInOrder`, `MirrorsChain` |
| `sync_replay` | 2 events (out of custody, minted, of another token), 3 blocks, 2 faults, starting block 1, fairness | `NothingSkipped`, `EventuallyApplied` |
| `balance_comment` | violation | `BalanceReadFromNode`: the comment on `GetBalance` |
| `transfer_rivals` | 4 requests: two identical ones, one back from their recipient, who holds nothing at first, above 2^256, and a payload that is refused; 1 fault; two base fees | `TypeOK`, `RevertsAreRaces`, `NextInLine`, `BroadcastIsKept`, `PaysOnlyOnRequest` |
| `transfer_live` | 3 requests: two wallets that pay each other, and an unknown wallet; 1 fault, two base fees, fairness | `Answered`, `BroadcastSettles` |
| `checksum` | two texts of 3 bytes, every one-byte misreading, two-byte misreadings over six characters | `TypeOK`, `MisreadCaught` |
| `qr_limits` | 13 requests: plain, with memos of 5, 95, 96, 100 and 150 bytes, wrong address, network, currency, sign, seven decimals; three misreadings; one payment | `TypeOK`, `PaidAsIssued`, `SameAsDirect` |
| `page_races` | 2 requests, 2 clicks, one edit during a payment, one lost answer, one misreading, fairness | `PaidWasPreviewed`, `OverlapNeedsEdit`, `PaidAgainAfterLoss`, `QRIsLastAsked`, `ButtonsComeBack` |
| `qr_readable` | violation | `IssuedIsReadable`: both ends "X9.150 compliant" |
| `balance_view` | 2 wallets, 3 fetches, 1 transfer, 2 lost answers, fairness | `TypeOK`, `LoadingIsTrue`, `ShowsLastRefresh`, `LoadingEnds` |
| `early_refresh` | violation | `RefreshSeesTransfer`: the comment at the delayed refresh |
| `deployment` | 7 deployments (the compose file; one host with defaults, files, empty flags and two NATS servers; wrong network, no protocol endpoint and no number to start from, one port twice among the gRPC services and between one of them and custody, an unreadable file and an unknown network), 1 transfer, 2 signals or kills, fairness | `TypeOK`, `UpIsComplete`, `AnswersAreTrue`, `ComesUp`, `Stops` |

What the less obvious ones say:

* `MirrorsChain` (refinement of `BalanceMirror`): once an event in progress is completed, the ledger is
  exactly the chain's balances at the position it has reached, and that position only grows.
* `AppliedInOrder`: the consumer ignores `idempotency_id`, so at-most-once application rests entirely on the
  indexer never publishing a block twice. It does not, when it has no starting block: a restart seeds from
  the tip. With a starting block it publishes again after a restart, and the property does not apply.
* `NothingSkipped` is the other side of that choice.
* `RevertsAreRaces`: transfers do revert on the chain, although each was simulated and its gas estimated, and the
  property names the two ways there are. The gas limit is the bare estimate for a recipient who held tokens, and by
  the time it is mined they have gone: it runs out of gas. Or the simulation and the reading of the nonce, one RPC
  apart, were overtaken by another transfer of the sender, which took the money and moved the nonce on. There is no
  third way: money that is spent after the nonce was read takes the nonce along, since every spending is a transfer
  signed with that sender's key. This rests on the simulation coming first and running at `latest`; on the pending
  state it counts money that never arrives (the mutant). The gas estimate, which names no block, is not relied on.
* `BroadcastIsKept`: "broadcasted" does not mean that this transfer will be paid. It means its nonce is
  taken by it, or by a transfer of the same sender that pays a higher fee.
* `PaysOnlyOnRequest` (refinement of `Payments`): whatever is lost, late or answered wrongly, an order is
  paid at most as often as it was asked for. It rests on nobody retrying; a caller that starts over after a
  timeout breaks it, which is the mutant of that property. The order's amount is what the calldata holds, the
  amount asked for modulo 2^256 (`Packed`): that the API bounds no amount is not something the property objects to.
* `PaidAsIssued` says that a payment follows the code it was clicked for, to its address and in its amount: it is
  what the checksum buys. `SameAsDirect` says the way through the code changes nothing: the same refusals, the same
  amount, the same recipient as the request sent as JSON. Both are stated for the requests that fit the two-digit
  lengths (`Fitting`): what stands behind a memo of 96 bytes or more is read as further fields, by both ends, and
  may be another account. `qr_readable` shows that the generator does not check that a request fits.
* `PaidWasPreviewed` compares the preview, at the click, with what the server then pays, although they come
  from two parsers. The box rounds to cents, so the property says "up to that rounding", and no more can be
  said: a payment of 0.000001 is previewed as 0.00, which the run contains. It would fail if a success left the old
  text in place and only hid its preview. It is stated for the codes that the page, which counts UTF-16 units where
  the server counts bytes, can read as they were written (`Counted`). A memo in other than ASCII makes the page skip
  as many characters behind the memo as it has units less than bytes. Behind it come eight, `6304` and the checksum:
  one to three too few or five to eight make the loop end with a length that is no number, an unknown field or
  nothing at all, which is harmless; exactly four (a memo with four letters like é, say) make it read the
  checksum's own digits as tag and length, and if these begin with 54 or 26 the preview has no amount, or another
  account, while the server pays what was issued.
* `OverlapNeedsEdit` is what the disabled button achieves, and all of it: the input listener enables it again
  during a payment.
* `PaidAgainAfterLoss`: one text is paid twice only after an answer got lost, or if somebody typed in between. It
  is the most the page can promise, since it sends no idempotency key: a lost answer looks like a failure and
  leaves the text ready for another click, and the payment may have gone through. The answer may be the server's to
  the page, or the node's to the protocol service, which the server passes on as "transfer failed".
* `UpIsComplete`: the custody service reads every balance before it listens, so that one which answers has a
  ledger for every address, from the deployed contract. It follows from the start-up loop giving up on the first
  error; a loop that logged and went on, as the event handler does, would break it.
* `AnswersAreTrue`: draining services never make a caller believe something false. A kill does, so does the
  custody service's own stop, which closes connections while the payment goes on below, and so does an answer of the
  node that is lost after it took the transaction, with nobody killed. The property excepts exactly these transfers,
  and only for "failed": what is reported as broadcasted was taken by the node, without exception.
* `ComesUp` is about programs agreeing: on ports that one defaults to and another listens at, on the server and the
  subject of the events, and on an order of starting that does not depend on itself. With two NATS servers up, an
  indexer and a custody service can both run and never hear of each other, without an error on either side; in
  the deployment `onehost` the indexer's file names the other server and an empty flag takes it back, so that this
  does happen if the indexer treats empty flags as the other services do (the mutant). `ComesUp` needs somebody who
  restarts what died: the compose file has no restart policy and waits for no service to be ready, so started once,
  indexer and custody may be dead from the first second.
* `ShowsLastRefresh` holds only as long as fetches do not overlap. When they do, the answer that comes last is
  shown, under whichever wallet is active by then; `BalanceView` contains that, and the property says nothing of it.
* `NothingSkipped` speaks of what was handed to `Publish`. A message can still be lost from the client's buffer
  (`LoseIndexer`) or on the wire (`Drop`), and the progress has moved on; `EventuallyApplied` is the property that
  reaches to the ledger, and it excludes such losses.

### Where code and text disagree

Three disagreements are shown by a run: `balance_comment`, `qr_readable`, `early_refresh`. Others met on the way
need no model to see: `-starting-block` ("Starting block height") is the last block that is *not* indexed; the
protocol service's test passes `PrepareTransaction` a payload that it refuses; the page's parser, commented
"for real-time validation", does not look at the checksum; and its preview rounds to cents while the form takes amounts from 0.000001. "If we still don't
have a network ID or blockchain node endpoint, return an error" (`indexer/internal/service/config.go:99`,
`broadcaster/service/config.go:65`) is followed by a check of the network id alone: the endpoint these
two need, the protocol service's, may be missing, and the service starts (the deployment `noprotocol`). The custody
service's "Graceful shutdown" (`custody/cmd/main.go:109`) is `httpServer.Close()`, which does not wait for requests.

### Bounds

Two custodied addresses and one outside holder give every kind of transfer (in, out, inside, to oneself,
mint, unrelated); a second token gives the events the consumer ignores. Three events in three blocks allow a
block with several events, an empty block, and a block mined while the previous one is scanned, in the
flusher or in the callback. Three requests are the least at which a transfer can be overtaken both by one that
takes its money and by one that moves its recipient's away: two identical transfers of one sender and one back.
The fourth, with a payload that is refused, costs nothing.
`Wrap` is 4 in place of 2^256, with balances below it and one amount above it. Base fees 1 to 3 (`transfer_live`)
with tip 1 are inside the room the fee cap leaves (2 * 1 + 1); beyond it a transfer can stay pending as long as the fee
stays up, which is no property of this code. No symmetry is used: the addresses play different parts.

Three bytes are enough for the checksum to enter at any register, to go wrong and to go on; the proof covers
all lengths. Nine digits (`MaxDigits`) hold every amount and length of the instances; the proofs take any number from
six on, which the conversion to base units needs. A payment code needs two requests for a mix-up (previewed one, paid the other) and two clicks
for an overlap or for a stale answer. `Capacity` (300 bytes) stands for what a QR code holds and only
decides which code is refused by the image encoder. Three fetches let an answer arrive after the next fetch
was started and answered; one transfer and its timer are enough for the delayed refresh. Two signals or kills
let a process end while another drains or while the one above it is gone; transfers do not meet inside the
processes (where they meet is the node, which is `TransferFlow`'s subject), so one is enough. Of `sync_exact`'s
faults one is enough for its conditions (each is about what holds until a fault, or whatever a fault does to
the order); `sync_replay` has two, for a crash and a restart on top of a loss.

Deadlock is not checked: the chain, the requests, the clicks and the faults are bounded, and processes that
stopped may stay down, so every instance really ends.

### Fairness

`LedgerSync`: blocks are sealed on a timer (`anvil --block-time`); the loop's ticker, the NATS client's
flusher and the subscription's goroutine run as long as their process does; a booting custody process goes
on. Nothing obliges a process to be started or restarted, nor a fault to happen. `TransferFlow`: a handler that
can go on does, a raw transaction arrives or is lost, and the node keeps mining each sender's next
transaction if its fee allows. `PaymentPage` and `BalanceView`: the service answers a request that reached it,
or its connection breaks, and the browser runs the continuation; no user is obliged to click. `Deployment`: compose
starts every container, the deployer script and the two external servers come up, a process or handler that
can go on does, and whatever died is started again. The last is an assumption on the operator, which no file of
the repository provides, and is made for `ComesUp` only. The indexer dies of a missing address service at the
next block with transactions; that such blocks keep coming is assumed with its fairness. All of it is weak fairness.

## Proofs

For every chain, every set of addresses, requests and deployments, and every number of faults:

| Theorem | Statement |
|---|---|
| `TypeCorrect` | `LedgerSync`: `Spec => []TypeOK` |
| `PipelineOrdered` | `Spec => []PipelineInOrder` |
| `NeverAppliedTwice` | `Spec => []AppliedInOrder` |
| `TransferTypeCorrect` | `TransferFlow`: `Spec => []TypeOK` |
| `PoolHasNoQueue` | `Spec => []NextInLine` |
| `BroadcastKept` | `Spec => []BroadcastIsKept` |
| `RevertsExplained` | `Spec => []RevertsAreRaces`, whatever state the node estimates gas on |
| `PaysOnlyWhatWasAsked` | `Spec => PaysOnlyOnRequest`: `TransferFlow` implements `Payments`, for finitely many requests |
| `ExactWhenAtRest`, `BalancesArePast` | `LedgerSync`: `Spec => []ExactAtRest`, `Spec => []BalanceIsPast` |
| `LedgerMirrorsChain` | `LedgerSync` implements `BalanceMirror`: `Spec => MirrorsChain`, for a nonempty `Custody` |
| `NoBlockSkipped` | `Spec => []NothingSkipped` |
| `ChecksumProofs!TypeCorrect` | `ChecksumLoop`: `Spec => []TypeOK`, the register stays 16 bits wide |
| `MisreadingsCaught` | `Spec => []MisreadCaught`, for texts of any length |
| `ViewTypeCorrect`, `LoadingStaysTrue`, `LastRefreshShown` | `BalanceView`: `TypeOK`, `LoadingIsTrue`, `ShowsLastRefresh` |
| `PageTypeCorrect` | `PaymentPage`: `Spec => []TypeOK` |
| `DisplayedIsLastAsked`, `TransfersOverlapByEdit`, `PaysAgainOnlyAfterLoss` | `QRIsLastAsked`, `OverlapNeedsEdit`, `PaidAgainAfterLoss` |
| `ShowInjective`, `ReadShow`, `UnitsOfShort` | `QRCodec`, amounts: written alike only if equal, read as written, worth the same in shortest form |
| `ReadAll` | a text of fields of at most 99 bytes is read as these fields, to its end |
| `ServerReads`, `PageReads` | what either parser reads of `Payload(req)`: for `Fits(req)`, and for the page unless its memo is short of exactly four units |
| `PaysAsIssued`, `PaysAsDirect`, `PaysWhatWasSeen` | `PaymentPage`: `PaidAsIssued`, `SameAsDirect`, `PaidWasPreviewed` |
| `DeploymentTypeCorrect`, `OnlyCutsMislead` | `Deployment`: `TypeOK`, `AnswersAreTrue` |
| `CustodyUpIsComplete` | `Spec => []UpIsComplete`, for a nonempty `Custody` |

`TypeCorrect` needs more than types: that the block ends are ordered and within the log, that the scan stays
between progress, target and tip, and that every position in the pipeline is a position of the log
(`TypeInv`). `AppliedInOrder` speaks of the last stage only and is not inductive; `PipelineInOrder` orders
all stages (done, in the callback, received, published) pairwise and bounds them by what the indexer has
covered. The case that needs care is the sentinel: when the indexer is down or has progress 0, what it will
publish next lies above the present tip, so that is the bound (`Covered`).

What the ledger holds is proved from one statement about the whole pipeline (`MirrorInv`). As long as `clean`
holds there is a position at which the ledger stands: what the pipeline holds, in the callback, received and
published, are exactly the relevant events between that position and what the indexer has covered
(`CleanOK`); while the snapshots are taken, each is the chain's balance at its own position (`BootOK`), and
`QuietStart` makes these one. Two facts about the chain carry the rest: a log entry changes the balances of its two
parties only (`LogOK`), and a block's events are the log's between two ends (`SealedOK`). That a balance no event
touches between two positions is the same at both would be an induction over positions; `LogOK` instead states it
for all pairs of positions as an invariant and proves it once per appended event. `ExactAtRest` is the case of an empty pipeline. The refinement follows step by step: `Credit` and the events
that leave the ledger alone move the mirror, everything else stutters.

`NextInLine` and `BroadcastIsKept` are proved together (`FlowInv`): a nonce that was read is at most the
sender's, a transaction on the wire is the one its request built and is not answered yet, and whoever was
answered "ok" is kept, whether told or not. `RevertsAreRaces` adds `FundsOK`: if the sender's nonce is still what it
was at the simulation, so is its money, or more; from the reading of the nonce on, that is said of requests whose two
readings agree (`Backed`), and it follows them onto the wire and into the pool. Every step that takes money from a
sender of the service is the mining of one of its transactions, and that takes the nonce too; deposits only add. When
a transaction is mined, the request that built it is known (`BuiltOK`, below), and a revert is then one of the two cases.

The refinement of `Payments` counts: an order's payments must stay below its requests. `BuiltOK` says that every
transaction the node holds or has executed was built by a request that is past its sending, and that executed ones
have used their nonce. So the transaction being mined is not among the executed ones, and mapping each to a
request that built it is an injection (a request builds one transaction), hence one more payment needs one
more request. The step that could break it is a handler that prepares again under a new nonce.

`MisreadCaught` speaks of the end of the loop. Its invariant (`Parted`) follows the two registers: equal up to
the first wrong byte; right after it, different in the low eight bits, where the next byte does not enter, so
that not even a second wrong byte can repair it; and different from there on. The last part rests on the loop
being reversible bit by bit: the polynomial has its lowest bit set, so a shifted register tells whether it was
added, and equal bytes keep different registers apart.

`BalanceView`: of the fetches in flight, only the last can be there without an overlap, and it is for the active wallet
(`LastOnly`); timers run out in the order in which they were set (`InTurn`), and bookings follow blocks, which follow
transfers (`Follows`). `PaymentPage`: `OneAsk` keeps at most one request
for a code in flight, `EditsCounted` ties the clicks in flight to the edits that enabled the button again, and
`Retried` says of all payments of an untouched text but the last that they are known to have failed, or that their
answer was lost.

That a code is read as it was written is proved once for every text (`QRCodecProofs`) and then carried through the
page. The library's induction theorems cannot be used, as they take a predicate; instead, the set of
offsets (or of numbers, or of prefixes) at which a claim fails has a least element if there is any (`Least`, from
the well-foundedness of the numbers), and there is none. In this way the recursive functions are shown to exist
(`TensDef`, `ScanDef` and their like), a numeral is shown to determine its number, and the loop over the fields
is followed from field to field (`ReadAll`). The server's side is then a question of which fields a request has
and which of them counts (`ServerReads`). The page's side is not: its units shift what stands behind the memo. The
fields up to the memo are plain bytes and read like the server's; from there on the page may read up to two more
fields, or guess one, out of the eight bytes of the checksum's field, and the proof goes through the shortfalls to see
that no tag there begins with the digits of an account's or an amount's (`PageReads`). This is where the case of exactly four units
came to light. `ReadShow` and `UnitsOfShort` close the circle for the amount: decimal to text, to decimal, to base
units, and to the cents on the screen. On top of that, the invariant of the page is short (`Linked`): the preview
is the text area's, whatever text is in the area or in a call is of an issued code, and a call's result is what
the server made of its own text.

`Deployment`: `BootOK` follows the start-up loop (what is booked and what is to do are all of `Custody`, and the first
balance read needed the whole chain of services), and `Coherent` says, for each stage of a transfer, who waits for
it, what is known by then, and that a payment without an answer on its way, or with a wrong one, has been cut off.

The assumptions are those the modules name: `ChainAssumption`, `IndexerAssumption`, `NodeAssumption`,
`TransferAssumption`, `ReadingsAssumption`, `ViewAssumption`, `CodecAssumption` (amounts have at most `MaxDigits`
digits, a checksum is four hexadecimal digits), `PageAssumption` (requests are texts of bytes with an amount in use,
a misreading changes one byte), `SettingsAssumption`, `DeploymentAssumption`; where a theorem
needs more it says so. Every safety property that a run checks is proved.

Only model-checked: all liveness (`EventuallyApplied`, `Answered`, `BroadcastSettles`, `ButtonsComeBack`,
`LoadingEnds`, `ComesUp`, `Stops`), which is beyond this prover; and the three disagreements, of which a
counterexample is the proof. `PaymentPage` takes a misread code's checksum to differ, for which `MisreadCaught` is
proved about `ChecksumLoop`; the step from the one to the other is by reading.

## What is not modelled

* Reorganisations and reverted receipts on the read side: anvil has no reorganisations, and a failed receipt
  carries no logs.
* gRPC, protobuf and HTTP framing; ECDSA; logging; generated contract bindings and message types (they do what
  their generators promise; only the method tables, the statuses and the network ids matter here and are modelled).
* Markup, styling, toasts, tabs and the clipboard; on which side a binary fraction falls when the preview rounds a
  tie; the QR image beyond its capacity; the unused HTML template in `qr.go`.
* Image builds, volumes, the NATS browser; the letter case and the spaces of a network id, which the code drops.
* The letter case of an address: the ledger's keys are checksummed spellings, and the balance endpoint takes any.
* Spaces and signs inside a length field, exponents in an amount.
* Who else might use the signer's keys: nobody does after deployment.
* ABI decoding beyond "the log unpacks or it does not".
* Connections between two services that both live: they do not break. The network is lost between the page and the
  API, between the protocol service and the node, and on NATS.
* Deadlines: the code sets none on its calls to the node, and a node that never answers holds up the request, and a
  stop of the protocol service (`Stops` assumes that calls end), for as long.

## Plan

1. *(done)* Read side: `Chain`, `Indexer`, `LedgerSync`, `BalanceMirror`; type correctness and order proved.
2. *(done)* Transfer side: `Node`, `TransferFlow`, `Payments`; types, nonce safety and why transfers revert proved.
3. *(done)* API and QR: `Crc16`, `ChecksumLoop`, `QRCodec`, `PaymentPage`; the checksum proved.
4. *(done)* Dashboard: the payment part in `PaymentPage`, the balance box in `BalanceView`.
5. *(done)* Configuration and start-up: `Settings`, `Deployment`, and proofs about them.
6. *(done)* Proofs: the ledger's content and the refinement of `BalanceMirror`, the refinement of `Payments`, the
   balance box, the page, the codec's two ends, and with them every safety property that is checked.
7. Composition: a transfer from request to ledger, `TransferFlow` feeding `LedgerSync`. Each side is checked against
   any behaviour of the other today: `LedgerSync` lets any transfer be mined at any time.
8. The spelling of addresses from API to ledger.
