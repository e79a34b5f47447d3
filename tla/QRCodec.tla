------------------------------ MODULE QRCodec ------------------------------
(***************************************************************************)
(* The payment QR code: what buildEMVCoQRContent writes, what the server's *)
(* parseEMVCoTLV and the page's parseEMVCoTLV read from it.  A text is the *)
(* sequence of its bytes with their real lengths, since lengths are what   *)
(* the format is about.  A payload is its text up to the checksum (body)   *)
(* and the checksum (crc), which stands for the text it was computed over: *)
(* ChecksumLoop shows that no text with one or two neighbouring bytes      *)
(* misread has the same one.                                               *)
(***************************************************************************)
EXTENDS Integers, SequencesExt

CONSTANTS
  CrcText,   \* the four digits of a checksum, as the loops walk over them
  MaxDigits, \* the digits of the longest number in use
  Amounts    \* the decimals [n, places] in use: n / 10^places

Byte == 0..255
Tens[k \in 0..MaxDigits] == IF k = 0 THEN 1 ELSE 10 * Tens[k - 1]

ASSUME CodecAssumption ==
  /\ MaxDigits \in Nat /\ MaxDigits >= 6
  /\ CrcText \in [1..4 -> 48..57 \union 65..70]
  /\ Amounts \subseteq [n : Int, places : 0..MaxDigits]
  /\ \A d \in Amounts : d.n < Tens[MaxDigits]

Fill(byte, n) == [i \in 1..n |-> byte]
IsDigit(byte) == byte \in 48..57
IsHex(byte) == IsDigit(byte) \/ byte \in 65..70 \/ byte \in 97..102
Upper(text) == [i \in DOMAIN text |-> IF text[i] \in 97..122 THEN text[i] - 32 ELSE text[i]]
EqualFold(s, t) == Upper(s) = Upper(t)

\* ^0x[0-9a-fA-F]{40}$
IsAddress(text) ==
  Len(text) = 42 /\ text[1] = 48 /\ text[2] = 120 /\ \A i \in 3..42 : IsHex(text[i])

-----------------------------------------------------------------------------
(* Numbers.  Decimals are the decimal library's; the page's parseFloat and *)
(* the server's NewFromString read what decimal.String wrote.              *)

Width(n) == CHOOSE w \in 1..MaxDigits : n < Tens[w] /\ (w = 1 \/ n >= Tens[w - 1])
Numeral(n, width) == [i \in 1..width |-> 48 + ((n \div Tens[width - i]) % 10)]

Normal(d) ==
  LET zeros == Max({k \in 0..d.places : d.n % Tens[k] = 0})
  IN  [n |-> d.n \div Tens[zeros], places |-> d.places - zeros]

Show(d) ==
  LET e == Normal(d)
      whole == e.n \div Tens[e.places]
  IN  Numeral(whole, Width(whole))
        \o IF e.places = 0 THEN <<>> ELSE <<46>> \o Numeral(e.n % Tens[e.places], e.places)

NotInUse == [n |-> 0, places |-> 0]
ReadDecimal(text) ==
  IF \E d \in Amounts : d.n > 0 /\ Show(d) = text
  THEN Normal(CHOOSE d \in Amounts : d.n > 0 /\ Show(d) = text)
  ELSE NotInUse

Refused == -1

\* The amount in units of 10^-6, which have to be whole and more than none.
BaseUnits(d) ==
  LET e == Normal(d)
  IN  IF d.n <= 0 \/ e.places > 6 THEN Refused ELSE e.n * Tens[6 - e.places]

-----------------------------------------------------------------------------
(* Writing. *)

\* "%02d": two digits, and three from 100 on.
LengthOf(n) == Numeral(n, Max({2, Width(n)}))

TLV(tag, value) == Numeral(tag, 2) \o LengthOf(Len(value)) \o value
Text(fields) == FlattenSeq([i \in DOMAIN fields |-> TLV(fields[i].tag, fields[i].value)])

Always(tag, value) == <<[tag |-> tag, value |-> value]>>
Optional(tag, value) == IF value = <<>> THEN <<>> ELSE Always(tag, value)

Account(req) ==
  Text(Always(0, Fill(111, 14)) \o Optional(1, req.address)
         \o Optional(2, req.network) \o Optional(3, req.currency))

\* Fields that are the same in every code stand here with their lengths only.
Fixed(req) ==
  <<[tag |-> 0, value |-> Numeral(1, 2)], [tag |-> 1, value |-> Numeral(12, 2)],
    [tag |-> 26, value |-> Account(req)], [tag |-> 52, value |-> Numeral(0, 4)],
    [tag |-> 53, value |-> Numeral(840, 3)], [tag |-> 54, value |-> Show(req.amount)],
    [tag |-> 58, value |-> Fill(85, 2)], [tag |-> 59, value |-> Fill(67, 11)],
    [tag |-> 60, value |-> Fill(78, 8)]>>
Memo(req) == Optional(62, Text(Optional(5, req.memo)))

Body(req) == Text(Fixed(req) \o Memo(req)) \o Numeral(63, 2) \o LengthOf(4)

Payload(req) == [body |-> Body(req), crc |-> Body(req)]

\* The lengths have two digits: no value has 100 bytes, also not the memo's and
\* the account's template.
Fits(req) ==
  /\ Len(req.memo) <= 95
  /\ Len(req.address) + Len(req.network) + Len(req.currency) <= 69
  /\ Len(Show(req.amount)) <= 99

-----------------------------------------------------------------------------
(* Reading. *)

\* The number that begins at text[i], of one or two digits: "%d", parseInt.
NoNumber == -1
NumberAt(text, i) ==
  IF ~IsDigit(text[i]) THEN NoNumber
  ELSE IF IsDigit(text[i + 1]) THEN 10 * (text[i] - 48) + text[i + 1] - 48
  ELSE text[i] - 48

\* The loop over the fields of a text, from an offset on.  It ends well, at a
\* length that is no number, or at a value that the text is too short for; "at"
\* says where.
ScanFrom(text, i, rest) ==
  LET length == NumberAt(text, i + 3)
      next == i + 4 + length
      Stop(why) == [fields |-> <<>>, end |-> why, at |-> i]
  IN  IF i + 4 > Len(text) THEN Stop("done")
      ELSE IF length = NoNumber THEN Stop("no number")
      ELSE IF next > Len(text) THEN Stop("truncated")
      ELSE LET field == [tag |-> SubSeq(text, i + 1, i + 2), value |-> SubSeq(text, i + 5, next)]
               others == rest[next]
           IN  [others EXCEPT !.fields = <<field>> \o @]

Scan(text) == LET scan[i \in 0..Len(text)] == ScanFrom(text, i, scan) IN scan
Fields(text) == Scan(text)[0]

FieldsRead_OneShort(text) == Fields(Front(text)).fields

\* The server keeps the subfields it has read when a template ends badly.
FieldsRead(text) == Fields(text).fields

\* The page goes on with a length of NaN: substring(i, NaN) is the text
\* before i, and that is the last field.
WithGuess(text, f) ==
  LET guess == [tag |-> SubSeq(text, f.at + 1, f.at + 2), value |-> SubSeq(text, 1, f.at + 4)]
  IN  IF f.end = "no number" THEN Append(f.fields, guess) ELSE f.fields
FieldsGuessed(text) == WithGuess(text, Fields(text))

\* The subfields of a template, as either side reads them.
Inside(value, reader) ==
  IF reader = "server" THEN FieldsRead(value) ELSE FieldsGuessed(value)

\* Of several fields with one tag the last counts, also if they are in
\* different templates.
Places(fields, tag) == {i \in DOMAIN fields : fields[i].tag = Numeral(tag, 2)}
ValueOf(fields, tag) ==
  IF Places(fields, tag) = {} THEN <<>> ELSE fields[Max(Places(fields, tag))].value

LastOf(read, tag) ==
  LET at == {i \in DOMAIN read : Places(read[i], tag) # {}}
  IN  IF at = {} THEN <<>> ELSE ValueOf(read[Max(at)], tag)

Data(fields, reader) ==
  LET Subfield(template, tag) ==
        LastOf([i \in Places(fields, template) |-> Inside(fields[i].value, reader)], tag)
  IN  [address |-> Subfield(26, 1), network |-> Subfield(26, 2), currency |-> Subfield(26, 3),
       amount |-> ValueOf(fields, 54), memo |-> Subfield(62, 5)]

Unreadable == [address |-> <<>>, network |-> <<>>, currency |-> <<>>,
               amount |-> <<>>, memo |-> <<>>]

Parse_NoCrc(payload) == Data(Fields(payload.body \o CrcText).fields, "server")

\* The server's parseEMVCoTLV; an error is the empty result, which the
\* handler refuses alike.
Parse(payload) ==
  LET top == Fields(payload.body \o CrcText)
  IN  IF payload.crc # payload.body \/ top.end # "done" THEN Unreadable
      ELSE Data(top.fields, "server")

\* The page counts UTF-16 units: a character of two or three bytes is one, a
\* character of four bytes is two.  The other bytes go, from the last one on.
Uncounted(text, i) ==
  text[i] \in 128..191 /\ (i = 1 \/ text[i - 1] < 240)

UnitsOf(text, i, before) ==
  LET gone == {j \in 1..i : Uncounted(text, j)}
  IN  IF gone = {} THEN SubSeq(text, 1, i)
      ELSE before[Max(gone) - 1] \o SubSeq(text, Max(gone) + 1, i)

Units(text) ==
  LET units[i \in 0..Len(text)] == UnitsOf(text, i, units)
  IN  units[Len(text)]

\* The page's parseEMVCoTLV; null is the empty result.
Complete(data) == IF data.address = <<>> \/ data.amount = <<>> THEN Unreadable ELSE data
Preview(payload) == Complete(Data(FieldsGuessed(Units(payload.body \o CrcText)), "page"))

\* The units that the page counts less than there are bytes in the code of a request.
Shortfall(req) == LET text == Body(req) \o CrcText IN Len(text) - Len(Units(text))

\* parseFloat(...).toFixed(2), away from ties, which a binary fraction decides
\* either way.
ToFixed(d) ==
  LET e == Normal(d)
      cents == IF e.places <= 2 THEN e.n * Tens[2 - e.places]
               ELSE (e.n + 5 * Tens[e.places - 3]) \div Tens[e.places - 2]
  IN  Numeral(cents \div 100, Width(cents \div 100)) \o <<46>> \o Numeral(cents % 100, 2)

\* What the preview box shows of the result.  (An amount that is none of those
\* in use was misread and will be refused; it stands for itself.)
Shown(data) ==
  LET amount == ReadDecimal(data.amount)
  IN  IF amount = NotInUse THEN data ELSE [data EXCEPT !.amount = ToFixed(amount)]
=============================================================================
