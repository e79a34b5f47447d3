---------------------------- MODULE PaymentPage ----------------------------
(***************************************************************************)
(* A payment request from the payee's page (or any client of the API) to   *)
(* the payer's: the generator endpoint issues a payload, people carry it   *)
(* over, the payer's page previews it and has it executed by the transfer  *)
(* endpoint.  The page's script is single threaded; between a click and    *)
(* the answer to its request other events are handled.                     *)
(***************************************************************************)
EXTENDS QRCodec

CONSTANTS
  Requests,      \* payment requests
  Request,       \* what each asks: [address, network, currency, amount, memo]
  PageRequests,  \* those that the page's form can make
  Slips,         \* misreadings: [at, byte], the byte that one reads there
  Capacity,      \* bytes that fit into a QR code
  MaxAsks, MaxClicks, MaxEdits, MaxLost   \* bounds

ASSUME PageAssumption ==
  /\ PageRequests \subseteq Requests
  /\ Request \in [Requests -> [address : Seq(Byte), network : Seq(Byte), currency : Seq(Byte),
                               amount : Amounts, memo : Seq(Byte)]]
  /\ Slips \subseteq [at : Nat, byte : Byte]
  /\ {Capacity, MaxAsks, MaxClicks, MaxEdits, MaxLost} \subseteq Nat

VARIABLES
  genOn,    \* the generate button is enabled
  asks,     \* its requests in flight
  asked,    \* the request it was clicked for last
  qr,       \* the request whose payload is shown as a QR code
  issued,   \* the requests whose payload people have
  area,     \* the payer's text area: an issued payload, misread or not, or Empty
  preview,  \* the preview box, Unreadable when it is hidden
  payOn,    \* the pay button is enabled
  calls,    \* its requests, in the order of the clicks
  edits,    \* history: inputs that enabled the button while a request was in flight
  since,    \* history: clicks up to the last input
  lost      \* answers lost so far

genVars == <<genOn, asks, asked, qr>>
payVars == <<area, preview, payOn, calls, edits, since>>
vars == <<genVars, issued, payVars, lost>>

None == "none"
NoSlip == [at |-> 0, byte |-> 0]
NoIntent == [to |-> <<>>, units |-> Refused]
USDC == <<85, 83, 68, 67>>
Ethereum == <<101, 116, 104, 101, 114, 101, 117, 109>>

-----------------------------------------------------------------------------
(* The endpoints. *)

NoPayload == [body |-> <<>>, crc |-> <<>>]

GenerateQR_AnyAddress(req) ==
  IF <<>> \in {req.address, req.network, req.currency} \/ req.amount.n <= 0
  THEN NoPayload ELSE Payload(req)

\* handleGeneratePaymentQR
GenerateQR(req) ==
  IF \/ <<>> \in {req.address, req.network, req.currency}
     \/ ~IsAddress(req.address)
     \/ req.amount.n <= 0
     \/ Len(Body(req)) + Len(CrcText) > Capacity
  THEN NoPayload ELSE Payload(req)

\* What handleTransfer makes of a request that comes as JSON.
TransferDirect(req) ==
  IF \/ <<>> \in {req.address, req.currency}
     \/ ~IsAddress(req.address)
     \/ ~EqualFold(req.currency, USDC)
     \/ BaseUnits(req.amount) = Refused
  THEN NoIntent ELSE [to |-> req.address, units |-> BaseUnits(req.amount)]

\* What handleTransferFromQR makes of a payload.
TransferParsed(data) ==
  LET units == BaseUnits(ReadDecimal(data.amount))
  IN  IF \/ <<>> \in {data.address, data.amount, data.currency}
         \/ ~IsAddress(data.address)
         \/ ~EqualFold(data.currency, USDC)
         \/ ~EqualFold(data.network, Ethereum)
         \/ units = Refused
      THEN NoIntent ELSE [to |-> data.address, units |-> units]
TransferFromQR(payload) == TransferParsed(Parse(payload))

(* What is in the text area: a payload, read right or with one byte misread, *)
(* and what the page's parser and the server make of it.                    *)

Misread(code, slip) ==
  IF slip = NoSlip THEN code ELSE [code EXCEPT !.body[slip.at] = slip.byte]
Reading(r, slip, payload) ==
  [req |-> r, slip |-> slip, readable |-> Parse(payload) # Unreadable,
   shown |-> Shown(Preview(payload)), accepted |-> TransferFromQR(payload)]
Sheet(r, slip) == Reading(r, slip, Misread(GenerateQR(Request[r]), slip))

Issuable == {r \in Requests : GenerateQR(Request[r]) # NoPayload}
Sheets == {Sheet(r, slip) : r \in Issuable, slip \in Slips \union {NoSlip}}

Empty == [req |-> None, slip |-> NoSlip, readable |-> FALSE,
          shown |-> Unreadable, accepted |-> NoIntent]

-----------------------------------------------------------------------------
Init ==
  /\ genOn = TRUE
  /\ asks = {}
  /\ asked = None
  /\ qr = None
  /\ issued = {}
  /\ area = Empty
  /\ preview = Unreadable
  /\ payOn = FALSE
  /\ calls = <<>>
  /\ edits = 0
  /\ since = 0
  /\ lost = 0

(* The payee. *)

Room == Cardinality(issued) + Cardinality(asks) < MaxAsks

Ask(r) ==
  /\ genOn
  /\ Request[r].amount.n > 0
  /\ Room
  /\ asks' = asks \union {r}
  /\ asked' = r
  /\ qr' = None
  /\ UNCHANGED <<issued, payVars, lost>>

ClickGenerate_StaysOn(r) == Ask(r) /\ genOn' = TRUE

ClickGenerate(r) == Ask(r) /\ genOn' = FALSE

\* The answer, and "finally": the button is enabled again.
GenerateAnswered(r) ==
  /\ asks' = asks \ {r}
  /\ genOn' = TRUE
  /\ IF r \in Issuable THEN qr' = r /\ issued' = issued \union {r}
     ELSE UNCHANGED <<qr, issued>>
  /\ UNCHANGED <<asked, payVars, lost>>

GenerateLost(r) ==
  /\ lost < MaxLost
  /\ lost' = lost + 1
  /\ asks' = asks \ {r}
  /\ genOn' = TRUE
  /\ UNCHANGED <<asked, qr, issued, payVars>>

\* A client of the API that is not the page.
IssueByAPI(r) ==
  /\ r \in Issuable
  /\ Room
  /\ issued' = issued \union {r}
  /\ UNCHANGED <<genVars, payVars, lost>>

(* The payer. *)

Waiting == {c \in DOMAIN calls : calls[c].page = "waiting"}

\* The input listener: preview and button follow the text.
Input(t) ==
  /\ area' = t
  /\ preview' = t.shown
  /\ payOn' = (t.shown # Unreadable)
  /\ edits' = IF Waiting # {} /\ ~payOn /\ payOn' THEN edits + 1 ELSE edits
  /\ edits' <= MaxEdits
  /\ since' = Len(calls)
  /\ UNCHANGED <<genVars, issued, calls, lost>>

Paste == \E t \in {Empty} \union {s \in Sheets : s.req \in issued} : Input(t)

Pay ==
  /\ payOn
  /\ area # Empty
  /\ Len(calls) < MaxClicks
  /\ calls' = Append(calls, [text |-> area, preview |-> preview, page |-> "waiting",
                             server |-> "sent", intent |-> NoIntent])
  /\ UNCHANGED <<genVars, issued, area, preview, edits, since, lost>>

ClickPay_StaysOn == Pay /\ payOn' = TRUE

ClickPay == Pay /\ payOn' = FALSE

\* The transfer endpoint: the intent goes to custody.Transfer, which may fail.
\* It also fails, and the endpoint says so, when the transfer went out and the
\* node's answer, or one of a service on its way back, was lost: "unheard".
Serve(c) ==
  /\ calls[c].server = "sent"
  /\ \E outcome \in IF calls[c].text.accepted = NoIntent THEN {"refused"}
                     ELSE {"paid", "failed", "unheard"} :
       /\ calls' = [calls EXCEPT ![c].server = outcome, ![c].intent = calls[c].text.accepted]
       /\ lost' = IF outcome = "unheard" THEN lost + 1 ELSE lost
  /\ lost' <= MaxLost
  /\ UNCHANGED <<genVars, issued, area, preview, payOn, edits, since>>

Settled(c, end) ==
  /\ calls[c].page = "waiting"
  /\ calls' = [calls EXCEPT ![c].page = end]

Answered_KeepsText(c) ==
  /\ Settled(c, "answered")
  /\ calls[c].server # "sent"
  /\ payOn' = TRUE
  /\ preview' = IF calls[c].server = "paid" THEN Unreadable ELSE preview
  /\ UNCHANGED <<genVars, issued, area, edits, since, lost>>

Answered_NoFinally(c) ==
  /\ Settled(c, "answered")
  /\ calls[c].server # "sent"
  /\ IF calls[c].server = "paid"
     THEN area' = Empty /\ preview' = Unreadable /\ payOn' = TRUE
     ELSE UNCHANGED <<area, preview, payOn>>
  /\ UNCHANGED <<genVars, issued, edits, since, lost>>

\* The answer: after a success the text is cleared and the preview hidden;
\* "finally" enables the button in any case.
Answered(c) ==
  /\ Settled(c, "answered")
  /\ calls[c].server # "sent"
  /\ payOn' = TRUE
  /\ IF calls[c].server = "paid" THEN area' = Empty /\ preview' = Unreadable
     ELSE UNCHANGED <<area, preview>>
  /\ UNCHANGED <<genVars, issued, edits, since, lost>>

\* The connection breaks, before or after the server has done its work.
AnswerLost(c) ==
  /\ Settled(c, "lost")
  /\ lost < MaxLost
  /\ lost' = lost + 1
  /\ payOn' = TRUE
  /\ UNCHANGED <<genVars, issued, area, preview, edits, since>>

Next ==
  \/ \E r \in PageRequests : ClickGenerate(r)
  \/ \E r \in asks : GenerateAnswered(r) \/ GenerateLost(r)
  \/ \E r \in Requests : IssueByAPI(r)
  \/ Paste
  \/ ClickPay
  \/ \E c \in DOMAIN calls : Serve(c) \/ Answered(c) \/ AnswerLost(c)

Spec == Init /\ [][Next]_vars

\* Servers answer, and answers arrive.
Fairness ==
  /\ WF_vars(\E r \in asks : GenerateAnswered(r))
  /\ \A c \in 1..MaxClicks : WF_vars(c \in DOMAIN calls /\ (Serve(c) \/ Answered(c)))

LiveSpec == Spec /\ Fairness

-----------------------------------------------------------------------------
(* Types; and whatever is issued names an address and a positive amount. *)
TypeOK ==
  /\ genOn \in BOOLEAN /\ payOn \in BOOLEAN
  /\ asks \subseteq PageRequests
  /\ {asked, qr} \subseteq PageRequests \union {None}
  /\ \A r \in issued : IsAddress(Request[r].address) /\ Request[r].amount.n > 0
  /\ area \in Sheets \union {Empty} /\ preview \in {Unreadable, area.shown}
  /\ \A c \in DOMAIN calls :
       /\ calls[c].text \in Sheets
       /\ calls[c].page \in {"waiting", "answered", "lost"}
       /\ calls[c].server \in {"sent", "paid", "failed", "unheard", "refused"}
  /\ edits \in 0..MaxEdits /\ lost \in 0..MaxLost

(* Requests whose code says with two digits how long each value is; the     *)
(* text behind a longer memo can be read as further fields, on both ends.   *)
(* And those that the page, which counts UTF-16 units, reads as they were   *)
(* written.  A memo of n units less than bytes makes it skip the first n    *)
(* characters behind the memo: the tag and the length of the checksum if n  *)
(* is four, so that its digits are read as the beginning of a field, which  *)
(* may be the account or the amount.                                        *)
Fitting == {r \in Requests : Fits(Request[r])}
Counted == {r \in Fitting : Shortfall(Request[r]) # 4}

(* Money moves only as the code in the text area says, which was issued, to *)
(* its address and in its amount, whatever was misread on the way and       *)
(* whichever text is in the area by then.                                   *)
PaidAsIssued ==
  \A c \in DOMAIN calls :
    LET r == calls[c].text.req
    IN  calls[c].intent # NoIntent /\ r \in Fitting =>
          /\ r \in issued
          /\ calls[c].intent = [to |-> Request[r].address, units |-> BaseUnits(Request[r].amount)]
          /\ EqualFold(Request[r].currency, USDC)

(* A code that fits and was read right is as good as the request itself:    *)
(* the QR endpoint accepts it exactly if the transfer endpoint accepts the  *)
(* request as JSON, and with the same result.                               *)
SameAsDirect ==
  \A c \in DOMAIN calls :
    LET r == calls[c].text.req
    IN  /\ calls[c].server # "sent"
        /\ calls[c].text.slip = NoSlip
        /\ r \in Fitting
        /\ EqualFold(Request[r].network, Ethereum)
        => calls[c].intent = TransferDirect(Request[r])

(* Whoever pays has seen in the preview whom and, rounded to cents, how      *)
(* much: the box is never left over from another text, whatever the order   *)
(* of inputs and answers, although page and server read the code with       *)
(* different parsers.  (An amount below half a cent was seen as 0.00.)      *)
PaidWasPreviewed ==
  \A c \in DOMAIN calls :
    calls[c].intent # NoIntent /\ calls[c].text.req \in Counted =>
      /\ calls[c].preview.address = calls[c].intent.to
      /\ calls[c].preview.amount = ToFixed([n |-> calls[c].intent.units, places |-> 6])

(* The button is disabled while a transfer executes.  Only an input in the  *)
(* meantime enables it, so without one there is one transfer at a time.     *)
OverlapNeedsEdit == Cardinality(Waiting) <= 1 + edits

(* There is no idempotency key: the server pays whatever it is sent.  A text *)
(* that has not been touched is paid a second time only after the answer to *)
(* the first payment was lost, between server and page or, so that the page *)
(* was told that the transfer had failed, behind the server; unless an      *)
(* input while another payment executed enabled the button early.           *)
PaidAgainAfterLoss ==
  \A c1, c2 \in DOMAIN calls :
    /\ since < c1 /\ c1 < c2
    /\ {calls[c1].server, calls[c2].server} \subseteq {"paid", "unheard"}
    => calls[c1].page = "lost" \/ calls[c1].server = "unheard" \/ edits > 0

(* The code on display is the one that was asked for last. *)
QRIsLastAsked == qr \in {None, asked}

(* Both buttons come back after every click, whatever became of the request *)
(* (the finally blocks).                                                    *)
ButtonsComeBack ==
  /\ ~genOn ~> genOn
  /\ Waiting # {} ~> payOn

-----------------------------------------------------------------------------
(* "X9.150 compliant", on both ends: what the one writes the other reads. *)
IssuedIsReadable ==
  \A t \in Sheets : t.req \in issued /\ t.slip = NoSlip => t.readable
=============================================================================
