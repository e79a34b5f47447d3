------------------------- MODULE PaymentPageProofs -------------------------
(***************************************************************************)
(* The payment page, for every set of requests and every misreading.       *)
(* Whatever the order of clicks, inputs and answers: types, that the code  *)
(* on display is the one asked for last, that transfers overlap only after *)
(* an edit, and that a text is not paid again before an answer was lost.   *)
(* With what the codec's two ends read (QRCodecProofs): money moves as the *)
(* code says that was issued, just as if it had been asked for directly,   *)
(* and who pays has seen it.                                               *)
(***************************************************************************)
EXTENDS PaymentPage, QRCodecProofs

Call == [text : Sheets, preview : {t.shown : t \in Sheets \cup {Empty}},
         page : {"waiting", "answered", "lost"}, server : {"sent", "paid", "failed", "unheard", "refused"},
         intent : {NoIntent} \cup {t.accepted : t \in Sheets}]

Shapes ==
  /\ genOn \in BOOLEAN /\ payOn \in BOOLEAN
  /\ asks \subseteq PageRequests
  /\ asked \in PageRequests \cup {None} /\ qr \in PageRequests \cup {None}
  /\ issued \subseteq Issuable
  /\ area \in Sheets \cup {Empty} /\ preview \in {Unreadable, area.shown}
  /\ calls \in Seq(Call)
  /\ edits \in 0 .. MaxEdits /\ lost \in 0 .. MaxLost /\ since \in Nat

\* The generate button lets one request through at a time.
OneAsk ==
  /\ asks \subseteq {asked}
  /\ genOn => asks = {}
  /\ QRIsLastAsked

\* An enabled pay button has an edit behind it for every transfer in flight.
EditsCounted ==
  /\ payOn => Cardinality(Waiting) <= edits
  /\ Cardinality(Waiting) <= 1 + edits

PageInv == Shapes /\ OneAsk /\ EditsCounted

-----------------------------------------------------------------------------

LEMMA WaitingFinite ==
  ASSUME calls \in Seq(Call)
  PROVE  /\ Waiting \subseteq 1 .. Len(calls)
         /\ IsFiniteSet(Waiting) /\ Cardinality(Waiting) \in Nat
<1>1. Waiting \subseteq 1 .. Len(calls) /\ Len(calls) \in Nat
  BY DEF Waiting
<1>2. IsFiniteSet(1 .. Len(calls))
  BY <1>1, FS_Interval
<1> QED
  BY <1>1, <1>2, FS_Subset, FS_CardinalityType

LEMMA ShownEmpty == Empty.shown = Unreadable
BY DEF Empty

LEMMA PageInit == Init => PageInv
<1> SUFFICES ASSUME Init PROVE PageInv
  OBVIOUS
<1> USE DEF Init
<1>1. {MaxEdits, MaxLost} \subseteq Nat
  BY PageAssumption
<1>2. Shapes
  <2>1. calls \in Seq(Call)
    OBVIOUS
  <2>2. edits \in 0 .. MaxEdits /\ lost \in 0 .. MaxLost
    BY <1>1
  <2>3. since \in Nat
    OBVIOUS
  <2> QED
    BY <2>1, <2>2, <2>3 DEF Shapes
<1>3. Waiting = {}
  BY DEF Waiting
<1>4. Cardinality(Waiting) = 0
  BY <1>3, FS_EmptySet
<1> QED
  BY <1>2, <1>4 DEF PageInv, OneAsk, EditsCounted, QRIsLastAsked

\* The payee's side moves nothing on the payer's, and the other way round.
LEMMA PayeeStep ==
  ASSUME PageInv,
         \/ \E r \in PageRequests : ClickGenerate(r)
         \/ \E r \in asks : GenerateAnswered(r) \/ GenerateLost(r)
         \/ \E r \in Requests : IssueByAPI(r)
  PROVE  PageInv'
<1> USE DEF PageInv
<1>1. UNCHANGED <<area, preview, payOn, calls, edits, since>> /\ lost' \in 0 .. MaxLost
  <2>1. lost \in 0 .. MaxLost /\ MaxLost \in Nat
    BY PageAssumption DEF Shapes
  <2> QED
    BY <2>1
       DEF ClickGenerate, Ask, GenerateAnswered, GenerateLost, IssueByAPI, payVars, genVars
<1>2. EditsCounted'
  BY <1>1 DEF EditsCounted, Waiting
<1>3. ASSUME NEW r \in PageRequests, ClickGenerate(r) PROVE Shapes' /\ OneAsk'
  <2>1. /\ genOn /\ asks' = asks \cup {r} /\ asked' = r /\ qr' = None
        /\ issued' = issued /\ genOn' = FALSE
    BY <1>3 DEF ClickGenerate, Ask
  <2>2. asks' = {r}
    BY <2>1 DEF OneAsk
  <2> QED
    BY <1>1, <2>1, <2>2 DEF Shapes, OneAsk, QRIsLastAsked
<1>4. ASSUME NEW r \in asks, GenerateAnswered(r) \/ GenerateLost(r)
      PROVE  Shapes' /\ OneAsk'
  <2>1. /\ asks' = asks \ {r} /\ genOn' = TRUE /\ asked' = asked
        /\ qr' \in {qr, r} /\ issued' \in {issued, issued \cup {r}}
        /\ issued' \subseteq issued \cup Issuable
    BY <1>4 DEF GenerateAnswered, GenerateLost
  <2>2. r = asked /\ asks' = {}
    BY <2>1 DEF OneAsk
  <2> QED
    BY <1>1, <2>1, <2>2 DEF Shapes, OneAsk, QRIsLastAsked
<1>5. ASSUME NEW r \in Requests, IssueByAPI(r) PROVE Shapes' /\ OneAsk'
  <2>1. issued' \subseteq Issuable /\ UNCHANGED <<genOn, asks, asked, qr>>
    BY <1>5 DEF IssueByAPI, genVars, Shapes
  <2> QED
    BY <1>1, <2>1 DEF Shapes, OneAsk, QRIsLastAsked
<1> QED
  BY <1>2, <1>3, <1>4, <1>5

\* The text area's input listener.
LEMMA PasteStep ==
  ASSUME PageInv, Paste
  PROVE  PageInv'
<1> USE DEF PageInv
<1>1. PICK t \in Sheets \cup {Empty} : Input(t)
  BY DEF Paste
<1>2. /\ area' = t /\ preview' = t.shown /\ payOn' = (t.shown # Unreadable)
      /\ edits' = IF Waiting # {} /\ ~ payOn /\ payOn' THEN edits + 1 ELSE edits
      /\ edits' <= MaxEdits /\ since' = Len(calls)
      /\ UNCHANGED <<genOn, asks, asked, qr, issued, calls, lost>>
  BY <1>1 DEF Input, genVars
<1>3. edits \in Nat /\ payOn \in BOOLEAN /\ payOn' \in BOOLEAN
      /\ edits' \in 0 .. MaxEdits
  BY <1>2, PageAssumption DEF Shapes
<1>4. Shapes' /\ OneAsk'
  <2>1. since' \in Nat
    BY <1>2 DEF Shapes
  <2> QED
    BY <1>2, <1>3, <2>1 DEF Shapes, OneAsk, QRIsLastAsked
<1>5. EditsCounted'
  <2>1. Waiting' = Waiting /\ Cardinality(Waiting) \in Nat
    BY <1>2, WaitingFinite DEF Waiting, Shapes
  <2>2. Waiting = {} => Cardinality(Waiting) = 0
    BY FS_EmptySet
  <2> QED
    BY <1>2, <1>3, <2>1, <2>2 DEF EditsCounted
<1> QED
  BY <1>4, <1>5

LEMMA ClickStep ==
  ASSUME PageInv, ClickPay
  PROVE  PageInv'
<1> USE DEF PageInv
<1> DEFINE new == [text |-> area, preview |-> preview, page |-> "waiting",
                   server |-> "sent", intent |-> NoIntent]
<1>1. /\ payOn /\ payOn' = FALSE /\ area # Empty /\ calls' = Append(calls, new)
      /\ UNCHANGED <<genOn, asks, asked, qr, issued, area, preview, edits, since, lost>>
  BY DEF ClickPay, Pay, genVars
<1>2. new \in Call /\ calls \in Seq(Call) /\ new.page = "waiting"
  <2>1. preview \in {t.shown : t \in Sheets \cup {Empty}}
    BY ShownEmpty DEF Shapes
  <2> QED
    BY <1>1, <2>1 DEF Shapes, Call
<1> HIDE DEF new
<1>3. /\ calls' \in Seq(Call) /\ Len(calls') = Len(calls) + 1 /\ Len(calls) \in Nat
      /\ \A c \in 1 .. Len(calls) : calls'[c] = calls[c]
      /\ calls'[Len(calls) + 1] = new
      /\ DOMAIN calls = 1 .. Len(calls) /\ DOMAIN calls' = 1 .. Len(calls) + 1
  BY <1>1, <1>2, AppendProperties
<1>4. Waiting' = Waiting \cup {Len(calls) + 1}
  BY <1>2, <1>3 DEF Waiting
<1>5. Cardinality(Waiting') = Cardinality(Waiting) + 1
  <2>1. Len(calls) + 1 \notin Waiting
    BY <1>3 DEF Waiting
  <2> QED
    BY <1>2, <1>4, <2>1, WaitingFinite, FS_AddElement
<1>6. Cardinality(Waiting) \in Nat /\ edits \in Nat
  BY <1>2, WaitingFinite DEF Shapes
<1>7. EditsCounted'
  BY <1>1, <1>5, <1>6 DEF EditsCounted
<1>8. Shapes' /\ OneAsk'
  BY <1>1, <1>3 DEF Shapes, OneAsk, QRIsLastAsked
<1> QED
  BY <1>7, <1>8

\* The server's work, and its answer or the loss of it.
LEMMA AnswerStep ==
  ASSUME PageInv, NEW c \in DOMAIN calls, Serve(c) \/ Answered(c) \/ AnswerLost(c)
  PROVE  PageInv'
<1> USE DEF PageInv
<1>1. /\ calls \in Seq(Call) /\ c \in 1 .. Len(calls) /\ calls[c] \in Call
      /\ Len(calls) \in Nat /\ DOMAIN calls = 1 .. Len(calls)
  BY DEF Shapes
<1>2. UNCHANGED <<genOn, asks, asked, qr, issued, edits, since>>
  BY DEF Serve, Answered, AnswerLost, genVars
<1>3. edits \in Nat /\ lost' \in 0 .. MaxLost
  <2>1. lost \in 0 .. MaxLost /\ MaxLost \in Nat /\ MaxEdits \in Nat /\ edits \in 0 .. MaxEdits
    BY PageAssumption DEF Shapes
  <2>2. lost' = lost \/ (lost' <= MaxLost /\ lost' = lost + 1)
    <3>1. CASE Serve(c)
      BY <3>1 DEF Serve
    <3>2. CASE Answered(c)
      BY <3>2 DEF Answered
    <3>3. CASE AnswerLost(c)
      BY <2>1, <3>3 DEF AnswerLost
    <3> QED
      BY <3>1, <3>2, <3>3
  <2> QED
    BY <2>1, <2>2
<1>4. CASE Serve(c)
  <2>1. PICK o \in {"paid", "failed", "unheard", "refused"} :
          calls' = [calls EXCEPT ![c] = [calls[c] EXCEPT !.server = o,
                                                         !.intent = calls[c].text.accepted]]
    BY <1>1, <1>4 DEF Serve
  <2>2. [calls[c] EXCEPT !.server = o, !.intent = calls[c].text.accepted] \in Call
    BY <1>1 DEF Call
  <2>3. /\ calls' \in Seq(Call) /\ DOMAIN calls' = DOMAIN calls
        /\ \A e \in DOMAIN calls : calls'[e].page = calls[e].page
    <3>1. calls'[c].page = calls[c].page
      BY <1>1, <2>1 DEF Call
    <3> QED
      BY <1>1, <2>1, <2>2, <3>1
  <2>4. Waiting' = Waiting
    BY <2>3 DEF Waiting
  <2>5. UNCHANGED <<area, preview, payOn>>
    BY <1>4 DEF Serve
  <2> QED
    BY <1>2, <1>3, <2>3, <2>4, <2>5
       DEF Shapes, OneAsk, QRIsLastAsked, EditsCounted
<1>5. CASE Answered(c) \/ AnswerLost(c)
  <2>1. PICK end \in {"answered", "lost"} :
        /\ calls[c].page = "waiting" /\ payOn' = TRUE
        /\ calls' = [calls EXCEPT ![c] = [calls[c] EXCEPT !.page = end]]
        /\ \/ UNCHANGED <<area, preview>>
           \/ area' = Empty /\ preview' = Unreadable
    BY <1>1, <1>5 DEF Answered, AnswerLost, Settled
  <2>2. [calls[c] EXCEPT !.page = end] \in Call
    BY <1>1 DEF Call
  <2>3. /\ calls' \in Seq(Call) /\ DOMAIN calls' = DOMAIN calls
        /\ calls'[c].page = end
        /\ \A e \in DOMAIN calls : e # c => calls'[e] = calls[e]
    <3>1. calls'[c].page = end
      BY <1>1, <2>1 DEF Call
    <3> QED
      BY <1>1, <2>1, <2>2, <3>1
  <2>4. Waiting' = Waiting \ {c} /\ c \in Waiting
    BY <1>1, <2>1, <2>3 DEF Waiting
  <2>5. Cardinality(Waiting') = Cardinality(Waiting) - 1 /\ Cardinality(Waiting) \in Nat
    BY <1>1, <2>4, WaitingFinite, FS_RemoveElement
  <2>6. EditsCounted'
    BY <1>2, <1>3, <2>5 DEF EditsCounted
  <2>7. Shapes' /\ OneAsk'
    BY <1>2, <1>3, <2>1, <2>3 DEF Shapes, OneAsk, QRIsLastAsked
  <2> QED
    BY <2>6, <2>7
<1> QED
  BY <1>4, <1>5

-----------------------------------------------------------------------------

LEMMA PageStep == PageInv /\ [Next]_vars => PageInv'
<1> SUFFICES ASSUME PageInv, [Next]_vars PROVE PageInv'
  OBVIOUS
<1>1. CASE UNCHANGED vars
  <2>1. UNCHANGED <<genOn, asks, asked, qr, issued, area, preview, payOn, calls, edits, since, lost>>
    BY <1>1 DEF vars, genVars, payVars
  <2> QED
    BY <2>1 DEF PageInv, Shapes, OneAsk, EditsCounted, QRIsLastAsked, Waiting
<1>2. CASE Next
  BY <1>2, PayeeStep, PasteStep, ClickStep, AnswerStep DEF Next
<1> QED
  BY <1>1, <1>2

LEMMA PageInvariant == Spec => []PageInv
BY PageInit, PageStep, PTL DEF Spec

-----------------------------------------------------------------------------
(* Paying again. *)

\* While the text stays, the page has been told that each payment of it but
\* the last did not succeed, or has not heard of it.
Retried ==
  /\ \A c \in DOMAIN calls : calls[c].page = "answered" => calls[c].server # "sent"
  /\ area # Empty =>
       \A c \in DOMAIN calls :
         since < c /\ calls[c].page = "answered" => calls[c].server # "paid"
  /\ edits = 0 =>
       \A c1, c2 \in DOMAIN calls :
         since < c1 /\ c1 < c2 =>
           \/ calls[c1].page = "lost"
           \/ calls[c1].page = "answered" /\ calls[c1].server # "paid"

\* With no edit and the button enabled, nobody is waiting.
LEMMA NobodyWaits ==
  ASSUME PageInv, payOn, edits = 0
  PROVE  Waiting = {}
<1>1. IsFiniteSet(Waiting) /\ Cardinality(Waiting) \in Nat
  BY WaitingFinite DEF PageInv, Shapes
<1>2. Cardinality(Waiting) <= 0
  BY DEF PageInv, EditsCounted
<1> QED
  BY <1>1, <1>2, FS_EmptySet

LEMMA RetriedByInput ==
  ASSUME PageInv, Retried, Paste
  PROVE  Retried'
<1>1. calls' = calls /\ since' = Len(calls)
  BY DEF Paste, Input
<1>2. DOMAIN calls = 1 .. Len(calls) /\ Len(calls) \in Nat
  BY DEF PageInv, Shapes
<1>3. \A c \in DOMAIN calls : ~ (Len(calls) < c)
  BY <1>2
<1> QED
  BY <1>1, <1>3 DEF Retried

LEMMA RetriedByClick ==
  ASSUME PageInv, Retried, ClickPay
  PROVE  Retried'
<1> DEFINE new == [text |-> area, preview |-> preview, page |-> "waiting",
                   server |-> "sent", intent |-> NoIntent]
<1>1. /\ payOn /\ area # Empty /\ calls' = Append(calls, new)
      /\ UNCHANGED <<area, edits, since>>
  BY DEF ClickPay, Pay
<1>2. new.page = "waiting" /\ calls \in Seq(Call)
  BY DEF PageInv, Shapes
<1> HIDE DEF new
<1>3. /\ \A c \in 1 .. Len(calls) : calls'[c] = calls[c]
      /\ calls'[Len(calls) + 1] = new /\ Len(calls) \in Nat
      /\ DOMAIN calls = 1 .. Len(calls) /\ DOMAIN calls' = 1 .. Len(calls) + 1
  <2>1. Len(calls) \in Nat /\ DOMAIN calls = 1 .. Len(calls)
    BY <1>2
  <2>2. /\ Len(calls') = Len(calls) + 1
        /\ \A c \in 1 .. Len(calls) : calls'[c] = calls[c]
        /\ calls'[Len(calls) + 1] = new
        /\ DOMAIN calls' = 1 .. Len(calls')
    BY <1>1, <1>2
  <2> QED
    BY <2>1, <2>2
<1>4. \A c \in DOMAIN calls' :
        \/ c \in DOMAIN calls /\ calls'[c] = calls[c]
        \/ c = Len(calls) + 1 /\ calls'[c].page = "waiting"
  BY <1>2, <1>3
<1>5. ASSUME edits = 0, NEW c1 \in DOMAIN calls', NEW c2 \in DOMAIN calls',
             since < c1, c1 < c2
      PROVE  \/ calls'[c1].page = "lost"
             \/ calls'[c1].page = "answered" /\ calls'[c1].server # "paid"
  <2>1. c1 \in DOMAIN calls /\ calls'[c1] = calls[c1]
    BY <1>3, <1>5
  <2>2. calls[c1].page # "waiting"
    BY <1>1, <1>5, <2>1, NobodyWaits DEF Waiting
  <2>3. calls[c1] \in Call
    BY <1>2, <2>1
  <2>4. calls[c1].page \in {"answered", "lost"}
    BY <2>2, <2>3 DEF Call
  <2> QED
    BY <1>1, <1>5, <2>1, <2>4 DEF Retried
<1> QED
  BY <1>1, <1>4, <1>5 DEF Retried

LEMMA RetriedByAnswer ==
  ASSUME PageInv, Retried, NEW c \in DOMAIN calls, Serve(c) \/ Answered(c) \/ AnswerLost(c)
  PROVE  Retried'
<1>1. calls \in Seq(Call) /\ calls[c] \in Call
  BY DEF PageInv, Shapes
<1>2. UNCHANGED <<edits, since>>
  BY DEF Serve, Answered, AnswerLost
<1>3. CASE Serve(c)
  <2>1. /\ calls[c].server = "sent" /\ area' = area
        /\ DOMAIN calls' = DOMAIN calls /\ calls'[c].page = calls[c].page
        /\ \A e \in DOMAIN calls : e # c => calls'[e] = calls[e]
    <3>1. PICK o : calls' = [calls EXCEPT ![c] =
                               [calls[c] EXCEPT !.server = o, !.intent = calls[c].text.accepted]]
      BY <1>1, <1>3 DEF Serve
    <3>2. calls[c].server = "sent" /\ area' = area
      BY <1>3 DEF Serve
    <3> QED
      BY <1>1, <3>1, <3>2 DEF Call
  <2>2. calls[c].page # "answered"
    BY <2>1 DEF Retried
  <2> QED
    BY <1>2, <2>1, <2>2 DEF Retried
<1>4. CASE Answered(c)
  <2>1. /\ calls[c].page = "waiting" /\ calls[c].server # "sent"
        /\ calls' = [calls EXCEPT ![c] = [calls[c] EXCEPT !.page = "answered"]]
        /\ area' = area \/ area' = Empty
        /\ calls[c].server = "paid" => area' = Empty
    BY <1>1, <1>4 DEF Answered, Settled
  <2>2. /\ DOMAIN calls' = DOMAIN calls
        /\ calls'[c].page = "answered" /\ calls'[c].server = calls[c].server
        /\ \A e \in DOMAIN calls : e # c => calls'[e] = calls[e]
    BY <1>1, <2>1 DEF Call
  <2>3. \A e \in DOMAIN calls :
          edits = 0 /\ since < c /\ c < e =>
            calls[c].page = "lost" \/ calls[c].page = "answered"
    BY DEF Retried
  <2> QED
    BY <1>2, <2>1, <2>2, <2>3 DEF Retried
<1>5. CASE AnswerLost(c)
  <2>1. /\ calls' = [calls EXCEPT ![c] = [calls[c] EXCEPT !.page = "lost"]]
        /\ area' = area
    BY <1>1, <1>5 DEF AnswerLost, Settled
  <2>2. /\ DOMAIN calls' = DOMAIN calls /\ calls'[c].page = "lost"
        /\ \A e \in DOMAIN calls : e # c => calls'[e] = calls[e]
    BY <1>1, <2>1 DEF Call
  <2> QED
    BY <1>2, <2>1, <2>2 DEF Retried
<1> QED
  BY <1>3, <1>4, <1>5

LEMMA RetriedStep == PageInv /\ Retried /\ [Next]_vars => Retried'
<1> SUFFICES ASSUME PageInv, Retried, [Next]_vars PROVE Retried'
  OBVIOUS
<1>1. CASE UNCHANGED <<area, calls, edits, since>>
  BY <1>1 DEF Retried
<1>2. CASE Paste \/ ClickPay \/ \E c \in DOMAIN calls : Serve(c) \/ Answered(c) \/ AnswerLost(c)
  BY <1>2, RetriedByInput, RetriedByClick, RetriedByAnswer
<1> QED
  BY <1>1, <1>2
     DEF Next, vars, payVars, ClickGenerate, Ask, GenerateAnswered, GenerateLost, IssueByAPI

-----------------------------------------------------------------------------
(* What is paid. *)

\* Every text is of a code that was issued, the preview is always the one of
\* the text, and the server executes what it has read.
Linked ==
  /\ preview = area.shown
  /\ area # Empty => area.req \in issued
  /\ \A c \in DOMAIN calls :
       /\ calls[c].text.req \in issued
       /\ calls[c].preview = calls[c].text.shown
       /\ calls[c].intent = IF calls[c].server = "sent" THEN NoIntent ELSE calls[c].text.accepted

LEMMA LinkedByAnswer ==
  ASSUME PageInv, Linked, NEW c \in DOMAIN calls, Serve(c) \/ Answered(c) \/ AnswerLost(c)
  PROVE  Linked'
<1>0. calls \in Seq(Call) /\ calls[c] \in Call
  BY DEF PageInv, Shapes
<1>1. calls \in Seq(Call) /\ calls[c] \in Call /\ issued' = issued
  BY <1>0 DEF Serve, Answered, AnswerLost
<1>2. CASE Serve(c)
  <2>1. PICK o \in {"paid", "failed", "unheard", "refused"} :
          calls' = [calls EXCEPT ![c] = [calls[c] EXCEPT !.server = o,
                                                         !.intent = calls[c].text.accepted]]
    BY <1>1, <1>2 DEF Serve
  <2>2. /\ DOMAIN calls' = DOMAIN calls
        /\ calls'[c].text = calls[c].text /\ calls'[c].preview = calls[c].preview
        /\ calls'[c].server # "sent" /\ calls'[c].intent = calls'[c].text.accepted
        /\ \A e \in DOMAIN calls : e # c => calls'[e] = calls[e]
    BY <1>1, <2>1 DEF Call
  <2>3. area' = area /\ preview' = preview
    BY <1>2 DEF Serve
  <2> QED
    BY <1>1, <2>2, <2>3 DEF Linked
<1>3. CASE Answered(c) \/ AnswerLost(c)
  <2>1. PICK end \in {"answered", "lost"} :
        /\ calls' = [calls EXCEPT ![c] = [calls[c] EXCEPT !.page = end]]
        /\ \/ UNCHANGED <<area, preview>>
           \/ area' = Empty /\ preview' = Unreadable
    BY <1>1, <1>3 DEF Answered, AnswerLost, Settled
  <2>2. /\ DOMAIN calls' = DOMAIN calls
        /\ calls'[c].text = calls[c].text /\ calls'[c].preview = calls[c].preview
        /\ calls'[c].server = calls[c].server /\ calls'[c].intent = calls[c].intent
        /\ \A e \in DOMAIN calls : e # c => calls'[e] = calls[e]
    BY <1>1, <2>1 DEF Call
  <2>3. preview' = area'.shown /\ (area' # Empty => area' = area)
    BY <2>1, ShownEmpty DEF Linked
  <2> QED
    BY <1>1, <2>2, <2>3 DEF Linked
<1> QED
  BY <1>2, <1>3

LEMMA LinkedByClick ==
  ASSUME PageInv, Linked, ClickPay
  PROVE  Linked'
<1> DEFINE new == [text |-> area, preview |-> preview, page |-> "waiting",
                   server |-> "sent", intent |-> NoIntent]
<1>1. /\ area # Empty /\ calls' = Append(calls, new)
      /\ UNCHANGED <<area, preview, issued>>
  BY DEF ClickPay, Pay
<1>2. /\ new.text = area /\ new.preview = preview /\ new.server = "sent" /\ new.intent = NoIntent
      /\ calls \in Seq(Call)
  BY DEF PageInv, Shapes
<1> HIDE DEF new
<1>3. \A c \in DOMAIN calls' : (c \in DOMAIN calls /\ calls'[c] = calls[c]) \/ calls'[c] = new
  <2>1. Len(calls) \in Nat /\ DOMAIN calls = 1 .. Len(calls)
    BY <1>2
  <2>2. /\ Len(calls') = Len(calls) + 1
        /\ \A c \in 1 .. Len(calls) : calls'[c] = calls[c]
        /\ calls'[Len(calls) + 1] = new
        /\ DOMAIN calls' = 1 .. Len(calls')
    BY <1>1, <1>2
  <2> QED
    BY <2>1, <2>2
<1> QED
  BY <1>1, <1>2, <1>3 DEF Linked

LEMMA LinkedStep == PageInv /\ Linked /\ [Next]_vars => Linked'
<1> SUFFICES ASSUME PageInv, Linked, [Next]_vars PROVE Linked'
  OBVIOUS
<1>1. CASE Paste
  <2>1. PICK t \in {Empty} \cup {s \in Sheets : s.req \in issued} : Input(t)
    BY <1>1 DEF Paste
  <2>2. area' = t /\ preview' = t.shown /\ UNCHANGED <<issued, calls>>
    BY <2>1 DEF Input
  <2> QED
    BY <2>1, <2>2 DEF Linked
<1>2. CASE ClickPay \/ \E c \in DOMAIN calls : Serve(c) \/ Answered(c) \/ AnswerLost(c)
  BY <1>2, LinkedByClick, LinkedByAnswer
<1>3. CASE UNCHANGED <<area, preview, calls>> /\ issued \subseteq issued'
  BY <1>3 DEF Linked
<1> QED
  BY <1>1, <1>2, <1>3
     DEF Next, vars, payVars, ClickGenerate, Ask, GenerateAnswered, GenerateLost, IssueByAPI

LEMMA LinkedInvariant == Spec => []Linked
<1>1. Init => Linked
  BY ShownEmpty DEF Init, Linked
<1> QED
  BY <1>1, PageInvariant, LinkedStep, PTL DEF Spec

\* A request whose code was issued has what its code needs.
LEMMA IssuedSound ==
  ASSUME NEW r \in Issuable
  PROVE  /\ GenerateQR(Request[r]) = Payload(Request[r])
         /\ IsAddress(Request[r].address) /\ Request[r].amount.n > 0
         /\ r \in Fitting => Sound(Request[r])
<1> DEFINE req == Request[r]
<1>1. r \in Requests /\ GenerateQR(req) # NoPayload
  BY DEF Issuable
<1>2. req \in RequestType
  BY <1>1, PageAssumption DEF RequestType
<1> HIDE DEF req
<1>3. /\ <<>> \notin {req.address, req.network, req.currency} /\ IsAddress(req.address)
      /\ ~ (req.amount.n <= 0) /\ GenerateQR(req) = Payload(req)
  BY <1>1, Zenon DEF GenerateQR
<1>4. req.amount.n > 0
  <2>1. req.amount \in Amounts
    BY <1>2, Zenon DEF RequestType
  <2>2. PICK n : n = req.amount.n
    OBVIOUS
  <2>3. n \in Int /\ ~ (n <= 0)
    BY <1>3, <2>1, <2>2, CodecAssumption
  <2>4. n > 0
    BY <2>3
  <2> QED
    BY <2>2, <2>4, Zenon
<1>5. Sound(req) \/ ~ Fits(req)
  BY <1>2, <1>3, <1>4, Zenon DEF Sound
<1> QED
  BY <1>3, <1>4, <1>5, Zenon DEF req, Fitting

\* What a text is worth: that of the code that was issued, or nothing.
LEMMA SheetOf ==
  ASSUME NEW t \in Sheets
  PROVE  /\ t.req \in Issuable
         /\ \/ /\ t.shown = Shown(Preview(Payload(Request[t.req])))
               /\ t.accepted = TransferFromQR(Payload(Request[t.req]))
            \/ t.slip # NoSlip /\ t.accepted = NoIntent
<1>1. PICK r \in Issuable, slip \in {NoSlip} \cup Slips : t = Sheet(r, slip)
  BY DEF Sheets
<1> DEFINE code == Payload(Request[r])
           payload == IF slip = NoSlip THEN code ELSE [code EXCEPT !.body[slip.at] = slip.byte]
<1>2. GenerateQR(Request[r]) = code
  BY IssuedSound
<1> HIDE DEF code
<1>3. /\ t.req = r /\ t.slip = slip /\ t.shown = Shown(Preview(payload))
      /\ t.accepted = TransferFromQR(payload)
  BY <1>1, <1>2, Zenon DEF Sheet, Reading, Misread
<1>4. CASE payload = code
  BY <1>3, <1>4, Zenon DEF code
<1>5. CASE payload # code
  <2>1. PICK b : code = [body |-> b, crc |-> b]
    BY Zenon DEF code, Payload
  <2>2. slip # NoSlip /\ payload = [code EXCEPT !.body[slip.at] = slip.byte]
    BY <1>5, Zenon
  <2>3. PICK d : payload = [body |-> d, crc |-> b]
    BY <2>1, <2>2
  <2>4. payload.crc # payload.body
    BY <1>5, <2>1, <2>3
  <2> HIDE DEF payload
  <2>5. Parse(payload) = Unreadable
    BY <2>4, Zenon DEF Parse
  <2>6. TransferFromQR(payload) = NoIntent
    BY <2>5 DEF TransferFromQR, TransferParsed, Unreadable
  <2> QED
    BY <1>3, <2>2, <2>6, Zenon
<1> QED
  BY <1>4, <1>5

\* What the server makes of a code that fits.
LEMMA Accepted ==
  ASSUME NEW req, Sound(req), IsAddress(req.address)
  PROVE  TransferFromQR(Payload(req)) =
           IF \/ ~ EqualFold(req.currency, USDC)
              \/ ~ EqualFold(req.network, Ethereum)
              \/ BaseUnits(req.amount) = Refused
           THEN NoIntent ELSE [to |-> req.address, units |-> BaseUnits(req.amount)]
<1>1. PICK data : data = Parse(Payload(req))
  OBVIOUS
<1>2. /\ data.address = req.address /\ data.network = req.network
      /\ data.currency = req.currency /\ data.amount = Show(req.amount)
  BY <1>1, ServerReads, Zenon
<1>3. /\ req.amount \in Amounts /\ req.amount.n > 0
      /\ req.address # <<>> /\ req.currency # <<>>
  BY Zenon DEF Sound, RequestType
<1>4. Show(req.amount) # <<>>
  BY <1>3, ShowNotEmpty
<1>5. ReadDecimal(data.amount) = Normal(req.amount)
  BY <1>2, <1>3, ReadShow, Zenon
<1>6. BaseUnits(ReadDecimal(data.amount)) = BaseUnits(req.amount)
  BY <1>3, <1>5, ReadShow, UnitsOfShort, Zenon
<1>7. <<>> \notin {data.address, data.amount, data.currency}
  BY <1>2, <1>3, <1>4, Zenon
<1> QED
  BY <1>1, <1>2, <1>6, <1>7, Zenon DEF TransferFromQR, TransferParsed

\* Addresses are ASCII, and so is what equals an ASCII text but for the case of
\* its letters.
LEMMA AddressPlain ==
  ASSUME NEW text \in Seq(Byte), IsAddress(text)
  PROVE  text \in Seq(Plain)
<1>1. Len(text) = 42 /\ text[1] = 48 /\ text[2] = 120 /\ \A i \in 3 .. 42 : IsHex(text[i])
  BY Zenon DEF IsAddress
<1>2. \A byte : IsHex(byte) => byte \in Plain
  BY DEF IsHex, IsDigit, Plain
<1>3. 48 \in Plain /\ 120 \in Plain
  BY DEF Plain
<1>4. \A i \in 1 .. 42 : i = 1 \/ i = 2 \/ i \in 3 .. 42
  OBVIOUS
<1>5. ASSUME NEW i \in 1 .. 42 PROVE text[i] \in Plain
  <2>1. CASE i \in 3 .. 42
    BY <1>1, <1>2, <2>1, Zenon
  <2>2. text[1] \in Plain /\ text[2] \in Plain
    BY <1>1, <1>3, Zenon
  <2>3. i = 1 \/ i = 2 \/ i \in 3 .. 42
    BY <1>4, Zenon
  <2> QED
    BY <2>1, <2>2, <2>3, Zenon
<1>6. DOMAIN text = 1 .. Len(text) /\ Len(text) \in Nat
  OBVIOUS
<1>7. \A i \in DOMAIN text : text[i] \in Plain
  <2>1. DOMAIN text = 1 .. 42
    BY <1>1, <1>6
  <2> QED
    BY <1>5, <2>1, Zenon
<1> QED
  BY <1>6, <1>7, SeqDef, IsASeq

LEMMA FoldPlain ==
  ASSUME NEW s \in Seq(Byte), NEW t \in Seq(Plain), EqualFold(s, t)
  PROVE  s \in Seq(Plain)
<1>1. Upper(s) = Upper(t)
  BY Zenon DEF EqualFold
<1>2. DOMAIN s = DOMAIN t
  BY <1>1, Zenon DEF Upper
<1>3. ASSUME NEW i \in DOMAIN s PROVE s[i] \in Plain
  <2>1. Upper(s)[i] = (IF s[i] \in 97 .. 122 THEN s[i] - 32 ELSE s[i])
        /\ Upper(t)[i] = IF t[i] \in 97 .. 122 THEN t[i] - 32 ELSE t[i]
    BY <1>2, <1>3, Zenon DEF Upper
  <2>2. PICK a, b : a = s[i] /\ b = t[i]
    OBVIOUS
  <2>3. (IF a \in 97 .. 122 THEN a - 32 ELSE a) = (IF b \in 97 .. 122 THEN b - 32 ELSE b)
    BY <1>1, <2>1, <2>2, Zenon
  <2>4. a \in Byte /\ b \in Plain
    BY <1>2, <1>3, <2>2
  <2>5. a \in Plain
    BY <2>3, <2>4 DEF Plain, Byte
  <2> QED
    BY <2>2, <2>5, Zenon
<1>4. DOMAIN s = 1 .. Len(s) /\ Len(s) \in Nat
  OBVIOUS
<1> QED
  BY <1>3, <1>4, SeqDef, IsASeq

LEMMA PlainNames == USDC \in Seq(Plain) /\ Ethereum \in Seq(Plain)
BY DEF USDC, Ethereum, Plain

\* A preview has five fields.
LEMMA PreviewShape ==
  ASSUME NEW payload
  PROVE  \E a, n, c, m, d :
           Preview(payload) = [address |-> a, network |-> n, currency |-> c, amount |-> m, memo |-> d]
<1> DEFINE fields == FieldsGuessed(Units(payload.body \o CrcText))
<1>1. Preview(payload) \in {Unreadable, Data(fields, "page")}
  BY Zenon DEF Preview, Complete
<1> HIDE DEF fields
<1> QED
  BY <1>1, DataOf, Zenon DEF Unreadable

\* What the preview shows of a code that the server accepts.
LEMMA Previewed ==
  ASSUME NEW req, Sound(req), IsAddress(req.address), Shortfall(req) # 4,
         EqualFold(req.currency, USDC), EqualFold(req.network, Ethereum),
         BaseUnits(req.amount) # Refused
  PROVE  /\ Shown(Preview(Payload(req))).address = req.address
         /\ Shown(Preview(Payload(req))).amount
              = ToFixed([n |-> BaseUnits(req.amount), places |-> 6])
<1>1. /\ req.address \in Seq(Byte) /\ req.network \in Seq(Byte) /\ req.currency \in Seq(Byte)
      /\ req.amount \in Amounts /\ req.amount.n > 0
  BY Zenon DEF Sound, RequestType
<1>2. PlainRequest(req)
  BY <1>1, AddressPlain, FoldPlain, PlainNames, Zenon DEF PlainRequest
<1>3. PICK data : data = Preview(Payload(req))
  OBVIOUS
<1>4. data.address = req.address /\ data.amount = Show(req.amount)
  BY <1>2, <1>3, PageReads, Zenon
<1>5. PICK a, n, c, m, d :
        data = [address |-> a, network |-> n, currency |-> c, amount |-> m, memo |-> d]
  BY <1>3, PreviewShape, Zenon
<1>6. ReadDecimal(data.amount) = Normal(req.amount) /\ Normal(req.amount).n > 0
  BY <1>1, <1>4, ReadShow, Zenon
<1>7. Normal(req.amount) # NotInUse
  BY <1>6 DEF NotInUse
<1>8. Shown(data) = [data EXCEPT !.amount = ToFixed(Normal(req.amount))]
  BY <1>6, <1>7, Zenon DEF Shown
<1>9. ToFixed(Normal(req.amount)) = ToFixed([n |-> BaseUnits(req.amount), places |-> 6])
  BY <1>1, ReadShow, UnitsOfShort, Zenon
<1>10. \A x : [data EXCEPT !.amount = x].address = data.address
              /\ [data EXCEPT !.amount = x].amount = x
  BY <1>5
<1> QED
  BY <1>3, <1>4, <1>8, <1>9, <1>10, Zenon

LEMMA CallText ==
  ASSUME PageInv, NEW c \in DOMAIN calls
  PROVE  calls[c].text \in Sheets
<1>1. calls[c] \in Call
  BY DEF PageInv, Shapes
<1> QED
  BY <1>1 DEF Call

\* What an intent says.
LEMMA IntentIs ==
  ASSUME NEW a, NEW u, NEW i, i = [to |-> a, units |-> u]
  PROVE  i.to = a /\ i.units = u
OBVIOUS

\* What a call with an intent pays.
LEMMA PaidCall ==
  ASSUME PageInv, Linked, NEW c \in DOMAIN calls, calls[c].intent # NoIntent,
         NEW r, r = calls[c].text.req, r \in Fitting
  PROVE  /\ r \in issued /\ Sound(Request[r]) /\ IsAddress(Request[r].address)
         /\ EqualFold(Request[r].currency, USDC) /\ EqualFold(Request[r].network, Ethereum)
         /\ BaseUnits(Request[r].amount) # Refused
         /\ calls[c].intent = [to |-> Request[r].address, units |-> BaseUnits(Request[r].amount)]
         /\ calls[c].preview = Shown(Preview(Payload(Request[r])))
<1>1. PICK t \in Sheets : t = calls[c].text
  BY CallText
<1>2. r \in issued /\ calls[c].preview = t.shown /\ calls[c].intent = t.accepted
  BY <1>1 DEF Linked
<1>3. /\ r \in Issuable /\ t.shown = Shown(Preview(Payload(Request[r])))
      /\ t.accepted = TransferFromQR(Payload(Request[r]))
  BY <1>1, <1>2, SheetOf, Zenon
<1>4. Sound(Request[r]) /\ IsAddress(Request[r].address)
  BY <1>3, IssuedSound, Zenon
<1> QED
  BY <1>2, <1>3, <1>4, Accepted, Zenon

-----------------------------------------------------------------------------

\* Every variable has its type, and whatever is issued names an address and a
\* positive amount.
THEOREM PageTypeCorrect == Spec => []TypeOK
<1>1. PageInv => TypeOK
  <2> SUFFICES ASSUME PageInv PROVE TypeOK
    OBVIOUS
  <2> USE DEF PageInv
  <2>1. ASSUME NEW r \in issued
        PROVE  IsAddress(Request[r].address) /\ Request[r].amount.n > 0
    <3>1. r \in Issuable
      BY DEF Shapes
    <3> QED
      BY <3>1, IssuedSound, Zenon
  <2>2. \A c \in DOMAIN calls : calls[c] \in Call
    BY DEF Shapes
  <2> QED
    BY <2>1, <2>2 DEF Shapes, Call, TypeOK
<1> QED
  BY <1>1, PageInvariant, PTL

\* The code on display is the one that was asked for last.
THEOREM DisplayedIsLastAsked == Spec => []QRIsLastAsked
<1>1. PageInv => QRIsLastAsked
  BY DEF PageInv, OneAsk
<1> QED
  BY <1>1, PageInvariant, PTL

\* The pay button is disabled while a transfer executes; only an input in the
\* meantime enables it, so without one there is one transfer at a time.
THEOREM TransfersOverlapByEdit == Spec => []OverlapNeedsEdit
<1>1. PageInv => OverlapNeedsEdit
  BY DEF PageInv, EditsCounted, OverlapNeedsEdit
<1> QED
  BY <1>1, PageInvariant, PTL

\* Without an edit in between, nobody pays a text again that has not been
\* touched unless the answer to the first payment was lost, on the way to the
\* page or behind the server that then reports a failure.
THEOREM PaysAgainOnlyAfterLoss == Spec => []PaidAgainAfterLoss
<1>1. Init => Retried
  BY DEF Init, Retried
<1>2. PageInv /\ Retried => PaidAgainAfterLoss
  <2>1. PageInv => edits \in Nat
    BY PageAssumption DEF PageInv, Shapes
  <2> QED
    BY <2>1 DEF Retried, PaidAgainAfterLoss
<1> QED
  BY <1>1, <1>2, PageInvariant, RetriedStep, PTL DEF Spec

\* Money moves only as the code in the text area says, which was issued, to its
\* address and in its amount, whatever was misread and whichever text is in
\* the area by then.
THEOREM PaysAsIssued == Spec => []PaidAsIssued
<1>1. PageInv /\ Linked => PaidAsIssued
  BY PaidCall, Zenon DEF PaidAsIssued
<1> QED
  BY <1>1, PageInvariant, LinkedInvariant, PTL

\* A code that fits and was read right is executed exactly as the request
\* itself would be as JSON.
THEOREM PaysAsDirect == Spec => []SameAsDirect
<1>1. PageInv /\ Linked => SameAsDirect
  <2> SUFFICES ASSUME PageInv, Linked, NEW c \in DOMAIN calls, NEW r, r = calls[c].text.req,
                      calls[c].server # "sent", calls[c].text.slip = NoSlip, r \in Fitting,
                      EqualFold(Request[r].network, Ethereum)
               PROVE  calls[c].intent = TransferDirect(Request[r])
    BY Zenon DEF SameAsDirect
  <2>1. PICK t \in Sheets : t = calls[c].text
    BY CallText
  <2>2. calls[c].intent = t.accepted /\ t.slip = NoSlip /\ t.req = r
    BY <2>1 DEF Linked
  <2>3. r \in Issuable /\ t.accepted = TransferFromQR(Payload(Request[r]))
    BY <2>2, SheetOf, Zenon
  <2>4. Sound(Request[r]) /\ IsAddress(Request[r].address)
    BY <2>3, IssuedSound, Zenon
  <2>5. Request[r].address # <<>> /\ Request[r].currency # <<>>
    BY <2>4, Zenon DEF Sound
  <2> QED
    BY <2>2, <2>3, <2>4, <2>5, Accepted, Zenon DEF TransferDirect
<1> QED
  BY <1>1, PageInvariant, LinkedInvariant, PTL

\* Whoever pays has seen in the preview whom and how much, although page and
\* server read the code with different parsers.
THEOREM PaysWhatWasSeen == Spec => []PaidWasPreviewed
<1>1. PageInv /\ Linked => PaidWasPreviewed
  <2> SUFFICES ASSUME PageInv, Linked, NEW c \in DOMAIN calls, calls[c].intent # NoIntent,
                      calls[c].text.req \in Counted
               PROVE  /\ calls[c].preview.address = calls[c].intent.to
                      /\ calls[c].preview.amount
                           = ToFixed([n |-> calls[c].intent.units, places |-> 6])
    BY Zenon DEF PaidWasPreviewed
  <2>0. PICK r : r = calls[c].text.req
    OBVIOUS
  <2>1. r \in Fitting /\ Shortfall(Request[r]) # 4
    BY <2>0, Zenon DEF Counted
  <2>2. /\ Sound(Request[r]) /\ IsAddress(Request[r].address)
        /\ EqualFold(Request[r].currency, USDC) /\ EqualFold(Request[r].network, Ethereum)
        /\ BaseUnits(Request[r].amount) # Refused
        /\ calls[c].intent = [to |-> Request[r].address, units |-> BaseUnits(Request[r].amount)]
        /\ calls[c].preview = Shown(Preview(Payload(Request[r])))
    BY <2>0, <2>1, PaidCall, Zenon
  <2>3. /\ calls[c].preview.address = Request[r].address
        /\ calls[c].preview.amount
             = ToFixed([n |-> BaseUnits(Request[r].amount), places |-> 6])
    BY <2>1, <2>2, Previewed, Zenon
  <2>4. /\ calls[c].intent.to = Request[r].address
        /\ calls[c].intent.units = BaseUnits(Request[r].amount)
    <3>1. PICK i, a, u : i = calls[c].intent /\ a = Request[r].address
                         /\ u = BaseUnits(Request[r].amount)
      OBVIOUS
    <3>2. i = [to |-> a, units |-> u]
      BY <2>2, <3>1, Zenon
    <3>3. i.to = a /\ i.units = u
      BY <3>2, IntentIs
    <3> QED
      BY <3>1, <3>3, Zenon
  <2> QED
    BY <2>3, <2>4, Zenon
<1> QED
  BY <1>1, PageInvariant, LinkedInvariant, PTL
=============================================================================
