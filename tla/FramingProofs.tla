---------------------------- MODULE FramingProofs ----------------------------
(***************************************************************************)
(* The framing of a conversation: for every stream, however it is cut, the *)
(* handler finds each request line at the beginning of a message and the   *)
(* application finds its body, as long as nothing was framed wrongly.      *)
(*                                                                         *)
(* The invariant says for each place in handle() where in the message that *)
(* began at start the stream has got to, and between CallReadLine and the  *)
(* evaluation of the line how much of the line has been read.  Only the    *)
(* messages that the peer broke off end elsewhere, and behind them nothing *)
(* comes any more.                                                         *)
(***************************************************************************)
EXTENDS Conversation, SequenceTheorems, TLAPS, RequestVersionProofs, FiniteSetTheorems

Lengths == -1 .. MaxLength

\* How long a body is, of which a header says it or none does.
BodyLength(length) == IF length = -1 THEN 0 ELSE length

-----------------------------------------------------------------------------
(* The invariant: types, and where the bytes are.                          *)

OwnTypes ==
    /\ application \in Applications /\ waiting \in BOOLEAN /\ clean \in BOOLEAN
    /\ seen \in Lengths /\ contentLength \in 0 .. MaxLength
    /\ remaining \in 0 .. MaxLength
    /\ content \in Seq(Byte) /\ start \in Nat

\* No head is ever buffered: nobody expects a 100, and the 400 has none.
HandlerTypes ==
    /\ pc \in H!PCs \ {"continue", "error_head"}
    /\ headers_buffer = <<>>
    /\ req \in Requests \cup {H!NoRequest} /\ malformed \in BOOLEAN
    /\ fields \in H!Fields
    /\ headers \in H!Fields /\ headers.expect = "absent"
    /\ close_connection \in BOOLEAN /\ request_version \in Seq(Int)
    /\ error \in H!Errors \cup {0} /\ wire \in Seq(H!Token) /\ requests \in Nat

StreamTypes ==
    /\ input \in Inputs /\ unread \in Seq(Byte) /\ buffer \in Seq(Byte)
    /\ out \in Seq(Byte) /\ delivered \in Seq(Byte)
    /\ limit = -1 /\ credit \in Int /\ promised \in BOOLEAN
    /\ op \in {"none", "read_line"}
    /\ ret \in {"none", "line", "data", "eof", "threw"}
    /\ mark \in Nat
    /\ size = 0 /\ count = 0 /\ room = 1 /\ sent = <<>> /\ writes = 0

\* The bytes b and then u go on where the calls so far have stopped.
AtHand(b, u) ==
    /\ Len(delivered) + Len(b) + Len(u) = Len(input)
    /\ \A i \in 1 .. Len(b) : b[i] = input[Len(delivered) + i]
    /\ \A i \in 1 .. Len(u) : u[i] = input[Len(delivered) + Len(b) + i]

\* The call in progress, or the last one, has taken out off the stream.
TakenOff ==
    /\ Len(delivered) = mark + Len(out)
    /\ \A i \in 1 .. Len(out) : out[i] = input[mark + i]

\* A line is read only for the two that wait for one.
Calls ==
    /\ op = "read_line" => waiting
    /\ waiting => pc \in {"read_line", "headers"}

StreamHeld == StreamTypes /\ AtHand(buffer, unread) /\ TakenOff

Typed == OwnTypes /\ HandlerTypes /\ StreamHeld /\ Calls

-----------------------------------------------------------------------------
(* The invariant: where the handler is in the stream.                      *)

\* How many messages begin among the first n bytes.
MessagesIn(n) == Cardinality({i \in 1 .. n : input[i] = GET})

\* Behind m come c bytes of a line and its end, if the stream is so long.
LineAt(m, c) ==
    /\ \A k \in 1 .. c : m + k <= Len(input) => input[m + k] \notin {CR, LF}
    /\ m + c + 1 <= Len(input) => input[m + c + 1] = CR
    /\ m + c + 2 <= Len(input) => input[m + c + 2] = LF

\* What read_line() has taken off such a line.
Reading(c) ==
    /\ op = "read_line" => Len(out) <= c
    /\ op = "none" /\ ret = "line" => Len(out) = c + 2
    /\ op = "none" /\ ret = "eof" => Len(out) <= c /\ Len(delivered) = Len(input)

\* Where the line begins that is read next, or is being read.
Place == IF waiting THEN mark ELSE Len(delivered)

\* The peer has closed within the message that began at start.
BrokenOff(p) ==
    /\ p = Len(input) /\ start < p
    /\ \E length \in Lengths : MessageAt(input, start, length) /\ p <= start + Len(Message(length))

Numbered ==
    requests > 0 =>
       /\ start < Len(input) /\ input[start + 1] = GET
       /\ MessagesIn(start) = requests - 1

Unrefused ==
    /\ error = 0
    /\ pc \in {"begin", "read_line", "headers", "examine", "handler", "close_io", "closed", "threw"}

AtRequestLine ==
    pc \in {"begin", "read_line"} =>
       /\ Place < Len(input) => input[Place + 1] = GET
       /\ MessagesIn(Place) = requests
       /\ waiting => Reading(1)

AtHeaders ==
    pc = "headers" =>
       /\ requests > 0
       /\ \/ seen = -1 /\ Place = start + 3
          \/ seen # -1 /\ Place = start + 6 /\ MessageAt(input, start, seen)
          \/ BrokenOff(Place)
       /\ waiting => \E c \in {0, 1} : LineAt(mark, c) /\ Reading(c)

\* What the stream still holds of the body when the application has read content.
Left == contentLength - Len(content)

\* All but left bytes of the body have been read.
InBody(left) ==
    /\ requests > 0 /\ contentLength = BodyLength(seen)
    /\ \/ /\ MessageAt(input, start, seen)
          /\ Len(delivered) = start + Len(Heading(seen)) + (contentLength - left)
       \/ BrokenOff(Len(delivered))

AtBody ==
    /\ pc = "examine" => InBody(contentLength)
    /\ pc = "handler" => /\ InBody(Left)
                         /\ Len(content) + remaining = BodyWanted
                         /\ \A i \in 1 .. Len(content) : content[i] = Data

Aligned == Numbered /\ Unrefused /\ AtRequestLine /\ AtHeaders /\ AtBody

Framed == WellFormed(input) /\ clean => Aligned

IInv == Typed /\ Framed

LEMMA InitBoth == Init => H!Init /\ S!Init
  BY DEF Init

LEMMA ParsedLines ==
    ASSUME NEW text, NEW r \in Parsed(text)
    PROVE  r \in Requests
  BY DEF Parsed, Requests

\* An application asks for the body or for nothing.
LEMMA WantedIsBound ==
    ASSUME OwnTypes
    PROVE  /\ BodyWanted \in {0, contentLength} /\ BodyWanted \in 0 .. MaxLength
           /\ contentLength \in Nat /\ remaining \in Nat /\ Len(content) \in Nat
           /\ Len(content) + remaining = BodyWanted => Left \in Nat
<1>1. /\ contentLength \in 0 .. MaxLength /\ remaining \in 0 .. MaxLength
      /\ Len(content) \in Nat /\ MaxLength \in Nat
  BY LenProperties, ByteAssumption DEF OwnTypes
<1>2. BodyWanted \in {0, contentLength}
  BY DEF BodyWanted, ContentSize
<1> QED BY <1>1, <1>2 DEF Left

-----------------------------------------------------------------------------
(* The stream, byte by byte.                                               *)

LEMMA StreamLengths ==
    ASSUME StreamTypes
    PROVE  /\ Len(input) \in Nat /\ Len(buffer) \in Nat /\ Len(unread) \in Nat
           /\ Len(delivered) \in Nat /\ Len(out) \in Nat /\ input \in Seq(Byte)
<1>1. input \in Seq(Byte)
  BY InputAssumption DEF StreamTypes
<1> QED BY <1>1, LenProperties DEF StreamTypes

\* The two parts of a sequence that is cut behind n.
LEMMA Parts ==
    ASSUME NEW s \in Seq(Byte), NEW n \in 0 .. Len(s)
    PROVE  /\ SubSeq(s, 1, n) \in Seq(Byte) /\ Len(SubSeq(s, 1, n)) = n
           /\ \A i \in 1 .. n : SubSeq(s, 1, n)[i] = s[i]
           /\ SubSeq(s, n + 1, Len(s)) \in Seq(Byte)
           /\ Len(SubSeq(s, n + 1, Len(s))) = Len(s) - n
           /\ \A i \in 1 .. Len(s) - n : SubSeq(s, n + 1, Len(s))[i] = s[n + i]
<1>1. Len(s) \in Nat /\ \A i \in 1 .. Len(s) : s[i] \in Byte
  BY ElementOfSeq, LenProperties
<1>2. \A i \in n + 1 .. Len(s) : s[i] \in Byte
  BY <1>1
<1>3. /\ SubSeq(s, n + 1, Len(s)) \in Seq(Byte)
      /\ Len(SubSeq(s, n + 1, Len(s))) = Len(s) - n
      /\ \A i \in 1 .. Len(s) - n : SubSeq(s, n + 1, Len(s))[i] = s[n + i]
  BY <1>1, <1>2, SubSeqProperties
<1>4. \A i \in 1 .. n : s[i] \in Byte
  BY <1>1
<1> QED BY <1>1, <1>3, <1>4, SubSeqProperties

\* ::read() brings the next k bytes into the empty buffer.
LEMMA BytesRead ==
    ASSUME StreamHeld, buffer = <<>>, NEW max \in Nat, NEW k \in S!Taken(max), S!Take(k)
    PROVE  /\ SubSeq(unread, 1, k) \in Seq(Byte) /\ Len(SubSeq(unread, 1, k)) = k
           /\ k \in 1 .. Len(unread) /\ k <= max
           /\ unread' \in Seq(Byte) /\ limit' = -1
           /\ AtHand(SubSeq(unread, 1, k), unread')
<1> DEFINE b == SubSeq(unread, 1, k)
           d == Len(delivered)
<1>1. /\ Len(unread) \in Nat /\ d \in Nat /\ Len(input) \in Nat
      /\ unread \in Seq(Byte) /\ limit = -1
  BY StreamLengths DEF StreamHeld, StreamTypes
<1>2. k \in 1 .. Len(unread) /\ k <= max
  BY <1>1, SizeAssumption DEF S!Taken, S!Wanted, S!Least, S!HasLimit
<1>3. limit' = -1 /\ unread' = SubSeq(unread, k + 1, Len(unread))
  BY <1>1 DEF S!Take, S!HasLimit
<1>4. /\ b \in Seq(Byte) /\ Len(b) = k
      /\ unread' \in Seq(Byte) /\ Len(unread') = Len(unread) - k
  BY <1>1, <1>2, <1>3, Parts
<1>5. /\ \A i \in 1 .. k : b[i] = unread[i]
      /\ \A i \in 1 .. Len(unread) - k : unread'[i] = unread[k + i]
  BY <1>1, <1>2, <1>3, Parts
<1>6. Len(buffer) = 0
  BY EmptySeq
<1>7. d + Len(unread) = Len(input)
  BY <1>1, <1>6 DEF StreamHeld, AtHand
<1>8. \A i \in 1 .. Len(unread) : unread[i] = input[d + i]
  BY <1>1, <1>6 DEF StreamHeld, AtHand
<1> HIDE DEF b, d
<1>9. d + Len(b) + Len(unread') = Len(input)
  BY <1>1, <1>2, <1>4, <1>7
<1>10. ASSUME NEW i \in 1 .. Len(b)
       PROVE  b[i] = input[d + i]
  <2>1. i \in 1 .. k /\ i \in 1 .. Len(unread)
    BY <1>1, <1>2, <1>4
  <2> QED BY <2>1, <1>5, <1>8
<1>11. ASSUME NEW i \in 1 .. Len(unread')
       PROVE  unread'[i] = input[d + Len(b) + i]
  <2>1. /\ i \in 1 .. Len(unread) - k /\ k + i \in 1 .. Len(unread)
        /\ d + (k + i) = d + Len(b) + i
    BY <1>1, <1>2, <1>4
  <2> QED BY <2>1, <1>5, <1>8
<1>12. AtHand(b, unread')
  BY <1>9, <1>10, <1>11, Zenon DEF AtHand, d
<1> QED BY <1>2, <1>3, <1>4, <1>12 DEF b

\* append_from_buffer_to() moves the end of the delivered bytes by n.
LEMMA BytesHandedOut ==
    ASSUME StreamTypes, input' = input, unread' \in Seq(Byte),
           NEW b \in Seq(Byte), AtHand(b, unread'),
           NEW n \in 0 .. Len(b), S!Consume(b, n)
    PROVE  /\ buffer' \in Seq(Byte) /\ delivered' \in Seq(Byte)
           /\ credit' \in Int /\ promised' = promised
           /\ Len(delivered') = Len(delivered) + n
           /\ AtHand(buffer, unread)'
<1> DEFINE first == SubSeq(b, 1, n)
           d == Len(delivered)
<1>1. /\ Len(b) \in Nat /\ Len(unread') \in Nat /\ d \in Nat
      /\ Len(input) \in Nat /\ delivered \in Seq(Byte) /\ credit \in Int
  BY StreamLengths, LenProperties DEF StreamTypes
<1>2. first \in Seq(Byte) /\ Len(first) = n
  BY Parts
<1>3. buffer' \in Seq(Byte) /\ Len(buffer') = Len(b) - n
  BY Parts DEF S!Consume
<1>4. \A i \in 1 .. Len(b) - n : buffer'[i] = b[n + i]
  BY Parts DEF S!Consume
<1>5. credit' \in Int /\ promised' = promised /\ delivered' = delivered \o first
  BY <1>1 DEF S!Consume
<1>6. d + Len(b) + Len(unread') = Len(input)
  BY DEF AtHand
<1>7. /\ \A i \in 1 .. Len(b) : b[i] = input[d + i]
      /\ \A i \in 1 .. Len(unread') : unread'[i] = input[d + Len(b) + i]
  BY Zenon DEF AtHand
<1> HIDE DEF first, d
<1>8. delivered' \in Seq(Byte) /\ Len(delivered') = d + n
  BY <1>1, <1>2, <1>5, ConcatProperties DEF d
<1>9. Len(delivered') + Len(buffer') + Len(unread') = Len(input')
  <2>1. n \in Nat /\ Len(b) \in Nat
    BY <1>1
  <2>2. Len(input') = Len(input)
    OBVIOUS
  <2>3. Len(delivered') + Len(buffer') = d + Len(b)
    BY <2>1, <1>1, <1>3, <1>8
  <2> QED BY <2>2, <2>3, <1>1, <1>6
<1>10. ASSUME NEW i \in 1 .. Len(buffer')
       PROVE  buffer'[i] = input'[Len(delivered') + i]
  <2>1. /\ i \in 1 .. Len(b) - n /\ n + i \in 1 .. Len(b)
        /\ d + (n + i) = Len(delivered') + i
    BY <1>1, <1>3, <1>8
  <2> QED BY <2>1, <1>4, <1>7
<1>11. ASSUME NEW i \in 1 .. Len(unread')
       PROVE  unread'[i] = input'[Len(delivered') + Len(buffer') + i]
  <2>1. d + Len(b) + i = Len(delivered') + Len(buffer') + i
    BY <1>1, <1>3, <1>8
  <2> QED BY <2>1, <1>7
<1>12. AtHand(buffer, unread)'
  BY <1>9, <1>10, <1>11, Zenon DEF AtHand
<1> QED BY <1>3, <1>5, <1>8, <1>12 DEF d

\* What the call takes off grows by these n bytes.
LEMMA MoreTakenOff ==
    ASSUME StreamTypes, TakenOff, UNCHANGED <<input, mark>>,
           NEW b \in Seq(Byte), NEW u, AtHand(b, u), NEW n \in 0 .. Len(b),
           out' = out \o SubSeq(b, 1, n), Len(delivered') = Len(delivered) + n
    PROVE  out' \in Seq(Byte) /\ Len(out') = Len(out) + n /\ TakenOff'
<1> DEFINE first == SubSeq(b, 1, n)
           d == Len(delivered)
           l == Len(out)
<1>1. /\ Len(b) \in Nat /\ d \in Nat /\ l \in Nat /\ mark \in Nat
      /\ out \in Seq(Byte)
  BY StreamLengths, LenProperties DEF StreamTypes
<1>2. first \in Seq(Byte) /\ Len(first) = n /\ n \in Nat
  BY <1>1, Parts
<1>3. \A i \in 1 .. n : first[i] = b[i]
  BY Parts
<1>4. d = mark + l
  BY DEF TakenOff
<1>5. \A i \in 1 .. l : out[i] = input[mark + i]
  BY DEF TakenOff
<1>6. \A i \in 1 .. Len(b) : b[i] = input[d + i]
  BY Zenon DEF AtHand
<1> HIDE DEF first, d
<1>7. /\ out' \in Seq(Byte) /\ Len(out') = l + n
      /\ \A i \in 1 .. l + n : out'[i] = IF i <= l THEN out[i] ELSE first[i - l]
  BY <1>1, <1>2, ConcatProperties DEF first
<1> HIDE DEF l
<1>8. ASSUME NEW i \in 1 .. Len(out')
      PROVE  out'[i] = input'[mark' + i]
  <2>1. i \in 1 .. l + n
    BY <1>7
  <2>2. CASE i <= l
    BY <2>1, <2>2, <1>1, <1>5, <1>7
  <2>3. CASE ~(i <= l)
    <3>1. i - l \in 1 .. n /\ i - l \in 1 .. Len(b) /\ d + (i - l) = mark + i
      BY <2>1, <2>3, <1>1, <1>2, <1>4
    <3>2. out'[i] = first[i - l]
      BY <2>1, <2>3, <1>7
    <3> QED BY <3>1, <3>2, <1>3, <1>6
  <2> QED BY <2>2, <2>3
<1>9. Len(delivered') = mark' + Len(out')
  <2>1. Len(delivered') = mark + (l + n)
    BY <1>1, <1>2, <1>4 DEF d
  <2> QED BY <2>1, <1>7
<1>10. TakenOff'
  BY <1>8, <1>9, Zenon DEF TakenOff
<1> QED BY <1>7, <1>10 DEF l

-----------------------------------------------------------------------------
(* The calls keep the stream together.                                     *)

\* The bytes a turn of read_line() looks at: those in the buffer, or the
\* next ones from the network.
LEMMA TurnBytes ==
    ASSUME StreamHeld, S!ReadLineStep
    PROVE  \E b \in Seq(Byte) :
              AtHand(b, unread') /\ S!Scan(b) /\ unread' \in Seq(Byte) /\ limit' = -1
<1>1. CASE S!Scan(buffer) /\ UNCHANGED <<unread, limit>>
  BY <1>1 DEF StreamHeld, StreamTypes
<1>2. CASE buffer = <<>> /\ \E k \in S!Taken(BufSize) : S!Take(k) /\ S!Scan(SubSeq(unread, 1, k))
  BY <1>2, BytesRead, SizeAssumption
<1> QED BY <1>1, <1>2 DEF S!ReadLineStep

\* How many of them it takes off: up to the first CRLF, or all.
LEMMA TurnTakes ==
    ASSUME NEW b \in Seq(Byte), S!Scan(b)
    PROVE  \E n \in 0 .. Len(b) :
              /\ S!Consume(b, n) /\ out' = out \o SubSeq(b, 1, n)
              /\ \/ S!CRLFs(b) = {} /\ n = Len(b) /\ UNCHANGED <<op, ret>>
                 \/ /\ n - 1 \in S!CRLFs(b) /\ \A q \in S!CRLFs(b) : n - 1 <= q
                    /\ S!Ends("line")
<1>1. Len(b) \in Nat
  BY LenProperties
<1>2. CASE /\ S!CRLFs(b) = {} /\ out' = out \o b
           /\ S!Consume(b, Len(b)) /\ UNCHANGED <<op, ret>>
  <2>1. SubSeq(b, 1, Len(b)) = b
    BY SubSeqFull
  <2>2. Len(b) \in 0 .. Len(b)
    BY <1>1
  <2> QED BY <1>2, <2>1, <2>2
<1>3. ASSUME NEW p \in S!CRLFs(b),
             \A q \in S!CRLFs(b) : p <= q,
             out' = out \o SubSeq(b, 1, p + 1), S!Consume(b, p + 1), S!Ends("line")
      PROVE  \E n \in 0 .. Len(b) :
                /\ S!Consume(b, n) /\ out' = out \o SubSeq(b, 1, n)
                /\ n - 1 \in S!CRLFs(b) /\ \A q \in S!CRLFs(b) : n - 1 <= q
                /\ S!Ends("line")
  <2>1. p + 1 \in 0 .. Len(b) /\ (p + 1) - 1 = p
    BY <1>1 DEF S!CRLFs
  <2> QED BY <2>1, <1>3
<1> QED BY <1>2, <1>3 DEF S!Scan

LEMMA LineCallHolds ==
    ASSUME StreamHeld, S!CallReadLine
    PROVE  StreamHeld' /\ out' = <<>> /\ op' = "read_line" /\ mark' = Len(delivered)
<1>1. /\ UNCHANGED <<input, unread, buffer, limit, delivered, promised, credit>>
      /\ UNCHANGED <<size, count, room, sent, writes>>
      /\ mark' = Len(delivered) /\ op' = "read_line" /\ out' = <<>> /\ ret' = "none"
  BY DEF S!CallReadLine, S!Begin, S!reader, S!writer
<1>2. <<>> \in Seq(Byte) /\ Len(<<>>) = 0 /\ Len(delivered) \in Nat
  BY EmptySeq, StreamLengths DEF StreamHeld
<1>3. StreamTypes'
  BY <1>1, <1>2 DEF StreamHeld, StreamTypes
<1>4. AtHand(buffer, unread)'
  BY <1>1 DEF StreamHeld, AtHand
<1>5. TakenOff'
  BY <1>1, <1>2 DEF TakenOff
<1> QED BY <1>1, <1>3, <1>4, <1>5 DEF StreamHeld

LEMMA LineTurnHolds ==
    ASSUME StreamHeld, S!ReadLineTurn
    PROVE  StreamHeld' /\ UNCHANGED <<input, mark>>
<1>1. UNCHANGED <<input, mark, size, count, room, sent, writes>>
  BY DEF S!ReadLineTurn, S!ReadLineStep, S!ReadLineEOF, S!ReadLineThrows, S!reader, S!writer
<1>2. CASE S!ReadLineStep
  <2>1. PICK b \in Seq(Byte) :
           AtHand(b, unread') /\ S!Scan(b) /\ unread' \in Seq(Byte) /\ limit' = -1
    BY <1>2, TurnBytes
  <2>2. PICK n \in 0 .. Len(b) :
           /\ S!Consume(b, n) /\ out' = out \o SubSeq(b, 1, n)
           /\ UNCHANGED <<op, ret>> \/ S!Ends("line")
    BY <2>1, TurnTakes
  <2>3. /\ buffer' \in Seq(Byte) /\ delivered' \in Seq(Byte)
        /\ credit' \in Int /\ promised' = promised
        /\ Len(delivered') = Len(delivered) + n
        /\ AtHand(buffer, unread)'
    BY <1>1, <2>1, <2>2, BytesHandedOut DEF StreamHeld
  <2>4. out' \in Seq(Byte) /\ TakenOff'
    BY <1>1, <2>1, <2>2, <2>3, MoreTakenOff DEF StreamHeld
  <2>5. StreamTypes'
    BY <1>1, <2>1, <2>2, <2>3, <2>4 DEF StreamHeld, StreamTypes, S!Ends
  <2> QED BY <1>1, <2>3, <2>4, <2>5 DEF StreamHeld
<1>3. CASE S!ReadLineEOF \/ S!ReadLineThrows
  <2>1. /\ UNCHANGED <<unread, buffer, limit, out, delivered, promised, credit>>
        /\ op' = "none" /\ ret' \in {"eof", "threw"}
    BY <1>3 DEF S!ReadLineEOF, S!ReadLineThrows, S!ReadThrows, S!Ends, S!reader
  <2>2. StreamTypes'
    BY <1>1, <2>1 DEF StreamHeld, StreamTypes
  <2>3. AtHand(buffer, unread)' /\ TakenOff'
    BY <1>1, <2>1 DEF StreamHeld, AtHand, TakenOff
  <2> QED BY <1>1, <2>2, <2>3 DEF StreamHeld
<1> QED BY <1>2, <1>3 DEF S!ReadLineTurn

\* read(max) hands out the next bytes, at most max.
LEMMA HandHolds ==
    ASSUME StreamHeld, UNCHANGED <<input, size, count, room, sent, writes>>,
           mark' = Len(delivered), unread' \in Seq(Byte), limit' = -1,
           NEW b \in Seq(Byte), AtHand(b, unread'), NEW n \in 0 .. Len(b), S!Hand(b, n)
    PROVE  StreamHeld' /\ Len(out') = n /\ Len(delivered') = Len(delivered) + n
<1>1. /\ buffer' \in Seq(Byte) /\ delivered' \in Seq(Byte)
      /\ credit' \in Int /\ promised' = promised
      /\ Len(delivered') = Len(delivered) + n
      /\ AtHand(buffer, unread)'
  BY BytesHandedOut DEF StreamHeld, S!Hand
<1>2. /\ out' \in Seq(Byte) /\ Len(out') = n /\ op' = "none" /\ ret' = "data"
      /\ \A i \in 1 .. n : out'[i] = b[i]
  BY Parts DEF S!Hand, S!Ends
<1>3. Len(delivered) \in Nat /\ Len(b) \in Nat
  BY StreamLengths, LenProperties DEF StreamHeld
<1>4. StreamTypes'
  BY <1>1, <1>2, <1>3 DEF StreamHeld, StreamTypes
<1>5. \A i \in 1 .. Len(b) : b[i] = input[Len(delivered) + i]
  BY Zenon DEF AtHand
<1>6. ASSUME NEW i \in 1 .. Len(out') PROVE out'[i] = input'[mark' + i]
  <2>1. i \in 1 .. n /\ i \in 1 .. Len(b)
    BY <1>2, <1>3
  <2> QED BY <2>1, <1>2, <1>5
<1>7. Len(delivered') = mark' + Len(out')
  BY <1>1, <1>2
<1>8. TakenOff'
  BY <1>6, <1>7, Zenon DEF TakenOff
<1> QED BY <1>1, <1>2, <1>4, <1>8 DEF StreamHeld

LEMMA ReadHolds ==
    ASSUME StreamHeld, NEW max \in Nat, S!Read(max)
    PROVE  /\ StreamHeld' /\ UNCHANGED input /\ mark' = Len(delivered) /\ op = "none" /\ op' = "none"
           /\ Len(out') \in 0 .. max
           /\ Len(delivered') = Len(delivered) + Len(out')
           /\ buffer # <<>> \/ unread # <<>>
<1>1. /\ UNCHANGED <<input, size, count, room, sent, writes>>
      /\ mark' = Len(delivered) /\ op = "none"
  BY DEF S!Read, S!Begin, S!writer
<1>2. /\ unread \in Seq(Byte) /\ buffer \in Seq(Byte) /\ limit = -1 /\ Len(buffer) \in Nat
      /\ AtHand(buffer, unread)
  BY StreamLengths DEF StreamHeld, StreamTypes
<1>3. CASE /\ buffer # <<>> /\ S!Hand(buffer, S!Least(max, Len(buffer)))
           /\ UNCHANGED <<unread, limit>>
  <2>1. S!Least(max, Len(buffer)) \in 0 .. Len(buffer) /\ S!Least(max, Len(buffer)) \in 0 .. max
    BY <1>2 DEF S!Least
  <2>2. unread' \in Seq(Byte) /\ limit' = -1 /\ AtHand(buffer, unread')
    BY <1>2, <1>3
  <2>3. /\ StreamHeld' /\ Len(out') = S!Least(max, Len(buffer))
        /\ Len(delivered') = Len(delivered) + S!Least(max, Len(buffer))
    BY <1>1, <1>2, <1>3, <2>1, <2>2, HandHolds
  <2> QED BY <1>1, <1>3, <2>1, <2>3 DEF S!Hand, S!Ends
<1>4. ASSUME buffer = <<>>, NEW k \in S!Taken(max), S!Take(k), S!Hand(SubSeq(unread, 1, k), k)
      PROVE  /\ StreamHeld' /\ Len(out') = k /\ Len(delivered') = Len(delivered) + k
             /\ k \in 0 .. max /\ op' = "none" /\ unread # <<>>
  <2>1. /\ SubSeq(unread, 1, k) \in Seq(Byte) /\ Len(SubSeq(unread, 1, k)) = k
        /\ k \in 1 .. Len(unread) /\ k <= max
        /\ unread' \in Seq(Byte) /\ limit' = -1
        /\ AtHand(SubSeq(unread, 1, k), unread')
    BY <1>4, BytesRead
  <2>2. k \in 0 .. Len(SubSeq(unread, 1, k)) /\ k \in 0 .. max /\ unread # <<>>
    BY <2>1, EmptySeq
  <2>3. StreamHeld' /\ Len(out') = k /\ Len(delivered') = Len(delivered) + k
    BY <1>1, <1>4, <2>1, <2>2, HandHolds
  <2> QED BY <1>4, <2>2, <2>3 DEF S!Hand, S!Ends
<1> QED BY <1>1, <1>3, <1>4 DEF S!Read

LEMMA ReadEndsHolds ==
    ASSUME StreamHeld, NEW max \in Nat, S!ReadEnds(max)
    PROVE  /\ StreamHeld' /\ UNCHANGED <<input, delivered, buffer, unread>>
           /\ op = "none" /\ op' = "none"
<1>1. /\ UNCHANGED <<input, size, count, room, sent, writes>>
      /\ UNCHANGED <<unread, limit, buffer, delivered, promised, credit>>
      /\ mark' = Len(delivered) /\ op = "none" /\ op' = "none" /\ out' = <<>>
      /\ ret' \in {"eof", "threw"}
  BY DEF S!ReadEnds, S!NothingRead, S!Begin, S!writer, S!ReadThrows
<1>2. <<>> \in Seq(Byte) /\ Len(<<>>) = 0 /\ Len(delivered) \in Nat
  BY EmptySeq, StreamLengths DEF StreamHeld
<1>3. StreamTypes'
  BY <1>1, <1>2 DEF StreamHeld, StreamTypes
<1>4. AtHand(buffer, unread)'
  BY <1>1 DEF StreamHeld, AtHand
<1>5. TakenOff'
  BY <1>1, <1>2 DEF TakenOff
<1> QED BY <1>1, <1>3, <1>4, <1>5 DEF StreamHeld

LEMMA StreamAlone ==
    ASSUME StreamHeld, UNCHANGED stream
    PROVE  StreamHeld'
<1>1. UNCHANGED <<input, unread, buffer, limit, out, op, ret, delivered, mark, promised,
                  credit, size, count, room, sent, writes>>
  BY DEF stream
<1>2. StreamTypes'
  BY <1>1 DEF StreamHeld, StreamTypes
<1> QED BY <1>1, <1>2 DEF StreamHeld, AtHand, TakenOff

-----------------------------------------------------------------------------
(* The handler: what a conversation leaves of its states.                  *)

LEMMA GoodVersion ==
    /\ H!Number(<<1>>) = 1
    /\ H!Converts(<<1>>)
    /\ H!Text(<<<<1>>, <<1>>>>) \in Seq(Int) /\ H!HTTP09 \in Seq(Int)
<1>1. <<1>> \in Seq(Int) /\ <<1>> \in Seq(Digit) /\ Unsigned(<<1>>) = <<1>>
  BY DEF Digit, Unsigned, Signed, Plus, Minus
<1>2. Digits(<<1>>) = <<1>>
  <2>1. PICK n \in 0 .. Len(<<1>>) :
           /\ Digits(<<1>>) = SubSeq(<<1>>, 1, n)
           /\ n < Len(<<1>>) => <<1>>[n + 1] \notin Digit
    BY <1>1, DigitsOfString
  <2>2. n = 1
    BY <2>1 DEF Digit
  <2>3. SubSeq(<<1>>, 1, Len(<<1>>)) = <<1>>
    BY <1>1, SubSeqFull
  <2> QED BY <2>1, <2>2, <2>3
<1>3. Integer(<<1>>) = 1
  <2> DEFINE one == <<1>>
  <2>1. one \in Seq(Digit) /\ Len(one) = 1 /\ one[1] = 1 /\ 1 \in 1 .. Len(one)
    BY <1>1
  <2> HIDE DEF one
  <2>2. Values(one)[0] = 0 /\ Values(one)[1] = 10 * Values(one)[1 - 1] + one[1]
    BY <2>1, Recursion
  <2>3. Values(one)[1] = 1
    BY <2>1, <2>2
  <2>4. Integer(one) = Values(one)[1]
    BY <1>2, <2>1 DEF Integer, one
  <2> QED BY <2>3, <2>4 DEF one
<1>4. Converts(<<1>>)
  <2>1. ~OutOfRange(<<1>>)
    <3>1. \A k \in 0 .. Len(<<1>>) : Len(SubSeq(<<1>>, k + 1, Len(<<1>>))) \in {0, 1}
      OBVIOUS
    <3>2. Len(ULongMax) = 20
      BY DEF ULongMax
    <3> QED BY <3>1, <3>2 DEF OutOfRange
  <2> QED BY <1>1, <1>2, <2>1 DEF Converts, Digit
<1>5. Number(<<1>>) = 1
  <2>1. Integer(<<1>>) < Width
    BY <1>3 DEF Width
  <2>2. <<1>>[1] = 0 => Len(<<1>>) = 1
    OBVIOUS
  <2> QED BY <1>1, <1>2, <1>3, <1>4, <2>1, <2>2, CanonicalNumber
<1>6. H!Number(<<1>>) = Number(<<1>>)
  BY DEF Number, Unsigned, Signed, Plus, Minus, Integer, Values, Digits, Digit, Width,
         H!Number, H!Unsigned, H!Signed, H!Plus, H!Minus, H!Integer, H!Values, H!Digits,
         H!Digit, H!Width
<1>7. H!Converts(<<1>>) <=> Converts(<<1>>)
  BY DEF Converts, OutOfRange, ULongMax, Before, Unsigned, Signed, Plus, Minus, Digits, Digit,
         H!Converts, H!OutOfRange, H!ULongMax, H!Before, H!Unsigned, H!Signed, H!Plus, H!Minus,
         H!Digits, H!Digit
<1>8. H!Text(<<<<1>>, <<1>>>>) \in Seq(Int) /\ H!HTTP09 \in Seq(Int)
  BY DEF H!Text, H!HTTP09, H!Dot
<1> QED BY <1>4, <1>5, <1>6, <1>7, <1>8

LEMMA LinesConsidered ==
    ASSUME NEW r \in Requests
    PROVE  r.long = FALSE /\ r.latin = TRUE /\ r.version = <<<<1>>, <<1>>>> /\ r.method = "GET"
  BY DEF Requests, Good, Blank, Bad

\* GET / HTTP/1.1 is taken.
LEMMA GoodLine ==
    ASSUME H!RequestLine(Good)
    PROVE  pc = "read_line" /\ pc' = "headers" /\ error' = 0 /\ requests' = requests + 1
<1>1. Good.long = FALSE /\ Good.latin = TRUE /\ Good.parts = 3 /\ Good.http = TRUE
      /\ Good.version[1] = <<1>> /\ Good.version[2] = <<1>> /\ Len(Good.version) = 2
  BY DEF Good
<1>2. H!TwoNumbers(Good) /\ H!NumbersConvert(Good) /\ ~H!NumberIsAtLeast(Good.version, 2, 0)
  <2>1. H!TwoNumbers(Good)
    BY <1>1 DEF H!TwoNumbers
  <2>2. H!NumbersConvert(Good)
    <3>1. ASSUME NEW i \in 1 .. 2 PROVE Good.version[i] = <<1>>
      BY <1>1
    <3>2. H!Converts(<<1>>)
      BY GoodVersion
    <3>3. ASSUME NEW i \in 1 .. 2 PROVE H!Converts(Good.version[i])
      BY <3>1, <3>2
    <3> QED BY <3>3, Zenon DEF H!NumbersConvert
  <2>3. ~H!NumberIsAtLeast(Good.version, 2, 0)
    BY <1>1, GoodVersion DEF H!NumberIsAtLeast
  <2> QED BY <2>1, <2>2, <2>3
<1>3. H!GoodRequestLine(Good)
  BY <1>1, <1>2 DEF H!RequestLine, H!LineTooLong, H!EncodingThrows, H!BadRequestLine,
                    H!Malformed, H!BlankRequestLine, H!VersionThrows, H!VersionNotSupported
<1> QED BY <1>3 DEF H!GoodRequestLine, H!Parse, H!Receive

LEMMA RequestLineTypes ==
    ASSUME HandlerTypes, NEW r \in Requests, H!RequestLine(r)
    PROVE  HandlerTypes' /\ pc' \in {"error_body", "close_io", "threw", "headers"}
<1>1. /\ r.long = FALSE /\ r.latin = TRUE /\ H!HTTP09 \in Seq(Int) /\ H!Text(r.version) \in Seq(Int)
      /\ {400, 505} \subseteq H!Errors
  BY LinesConsidered, GoodVersion DEF H!Errors
<1>2. H!Parse(r)
  BY <1>1 DEF H!RequestLine, H!LineTooLong, H!EncodingThrows, H!BadRequestLine,
              H!BlankRequestLine, H!VersionThrows, H!VersionNotSupported, H!GoodRequestLine
<1>3. /\ req' \in Requests \cup {H!NoRequest} /\ malformed' \in BOOLEAN
      /\ fields' \in H!Fields
      /\ headers' \in H!Fields /\ headers'.expect = "absent"
      /\ wire' \in Seq(H!Token) /\ requests' \in Nat
  <2>1. /\ req' = r /\ malformed' = FALSE /\ headers' = headers /\ wire' = wire
        /\ requests' = requests + 1 /\ fields' = H!NoFields
    BY <1>2 DEF H!Parse, H!Receive
  <2>2. req' \in Requests \cup {H!NoRequest} /\ requests' \in Nat
    BY <2>1 DEF HandlerTypes
  <2>3. malformed' \in BOOLEAN
    BY <2>1
  <2>4. fields' \in H!Fields
    BY <2>1 DEF H!NoFields, H!Fields
  <2> QED BY <2>1, <2>2, <2>3, <2>4 DEF HandlerTypes
<1>4. /\ pc' \in {"error_body", "close_io", "threw", "headers"}
      /\ headers_buffer' = <<>> /\ error' \in H!Errors \cup {0}
      /\ request_version' \in Seq(Int)
  BY <1>1 DEF HandlerTypes, H!RequestLine, H!LineTooLong, H!EncodingThrows, H!BadRequestLine,
              H!BlankRequestLine, H!VersionThrows, H!VersionNotSupported,
              H!GoodRequestLine, H!SendError, H!Return
<1>5. close_connection' \in BOOLEAN
  BY <1>1 DEF H!RequestLine, H!LineTooLong, H!EncodingThrows, H!BadRequestLine,
              H!BlankRequestLine, H!VersionThrows, H!VersionNotSupported,
              H!GoodRequestLine, H!SendError, H!Return, H!NumberIsAtLeast
<1> QED BY <1>3, <1>4, <1>5 DEF HandlerTypes, H!PCs

LEMMA HeadersReadTypes ==
    ASSUME HandlerTypes, H!HeadersRead(SeenFields)
    PROVE  /\ HandlerTypes' /\ pc = "headers" /\ pc' = "examine"
           /\ UNCHANGED <<req, malformed, request_version, error, wire, requests>>
<1>1. PICK old \in {headers, H!NoFields} : headers' = H!Merged(old, SeenFields)
  BY DEF H!HeadersRead
<1>2. SeenFields \in H!Fields /\ SeenFields.expect = "absent"
  BY DEF SeenFields, H!NoFields, H!Fields
<1>3. old \in H!Fields /\ old.expect = "absent"
  BY DEF HandlerTypes, H!NoFields, H!Fields
<1>4. headers' \in H!Fields /\ headers'.expect = "absent" /\ fields' = SeenFields
  BY <1>1, <1>2, <1>3 DEF H!Merged, H!Fields, H!HeadersRead
<1>5. /\ pc = "headers" /\ pc' = "examine" /\ headers_buffer' = <<>>
      /\ UNCHANGED <<req, malformed, request_version, error, wire, requests>>
  BY <1>4 DEF H!HeadersRead, HandlerTypes
<1>6. close_connection' \in BOOLEAN
  BY DEF H!HeadersRead, HandlerTypes
<1> QED BY <1>2, <1>4, <1>5, <1>6 DEF HandlerTypes, H!PCs

LEMMA CallHandlerTypes ==
    ASSUME HandlerTypes, H!CallHandler
    PROVE  HandlerTypes'
<1>1. headers' \in H!Fields /\ headers'.expect = "absent" /\ close_connection' \in BOOLEAN
  BY DEF H!CallHandler, H!CleanupHeaders, HandlerTypes, H!Fields
<1> QED BY <1>1 DEF H!CallHandler, HandlerTypes, H!PCs

LEMMA WriteTypes ==
    ASSUME HandlerTypes, NEW kind \in {"body", "handler"}, NEW code \in H!Errors \cup {0},
           wire' \in {wire, Append(wire, [kind |-> kind, code |-> code, request |-> requests])},
           H!Return(close_connection),
           UNCHANGED <<req, malformed, fields, headers, request_version, headers_buffer,
                       error, requests>>
    PROVE  HandlerTypes'
<1>1. [kind |-> kind, code |-> code, request |-> requests] \in H!Token
  BY DEF HandlerTypes, H!Token
<1>2. wire' \in Seq(H!Token)
  BY <1>1, AppendProperties DEF HandlerTypes
<1> QED BY <1>2 DEF HandlerTypes, H!Return, H!PCs

LEMMA ReturnTypes ==
    ASSUME HandlerTypes, H!Return(TRUE), malformed' \in BOOLEAN,
           UNCHANGED <<req, fields, headers, request_version, headers_buffer, error, wire,
                       requests>>
    PROVE  HandlerTypes' /\ pc' = "close_io"
  BY DEF HandlerTypes, H!Return, H!PCs

LEMMA HandlerAlone ==
    ASSUME HandlerTypes, UNCHANGED handler
    PROVE  HandlerTypes'
  BY DEF HandlerTypes, handler

-----------------------------------------------------------------------------
(* Types hold.                                                             *)

LEMMA InitTyped == Init => Typed
<1> SUFFICES ASSUME Init PROVE Typed
  OBVIOUS
<1>1. H!Init /\ S!Init
  BY InitBoth
<1>2. <<>> \in Seq(Byte) /\ Len(<<>>) = 0 /\ input \in Seq(Byte) /\ Len(input) \in Nat
  BY <1>1, EmptySeq, InputAssumption, LenProperties DEF S!Init
<1>3. OwnTypes
  <2>1. 0 \in 0 .. MaxLength /\ -1 \in Lengths
    BY ByteAssumption DEF Lengths
  <2>2. /\ application \in Applications /\ waiting = FALSE /\ clean = TRUE
        /\ seen = -1 /\ contentLength = 0 /\ remaining = 0 /\ content = <<>> /\ start = 0
    BY DEF Init
  <2> QED BY <1>2, <2>1, <2>2 DEF OwnTypes
<1>4. HandlerTypes
  <2>1. H!NoFields \in H!Fields /\ H!NoFields.expect = "absent"
    BY DEF H!NoFields, H!Fields
  <2> QED BY <1>1, <2>1, EmptySeq DEF H!Init, HandlerTypes, H!PCs
<1>5. StreamTypes
  <2>1. /\ input \in Inputs /\ unread = input /\ buffer = <<>> /\ out = <<>> /\ delivered = <<>>
        /\ limit = -1 /\ promised = FALSE /\ credit = 0
        /\ op = "none" /\ ret = "none" /\ mark = 0
        /\ size = 0 /\ count = 0 /\ room = 1 /\ sent = <<>> /\ writes = 0
    BY <1>1 DEF S!Init
  <2>2. promised \in BOOLEAN
    BY <2>1
  <2>3. credit \in Int /\ mark \in Nat
    BY <2>1
  <2>4. op \in {"none", "read_line"} /\ ret \in {"none", "line", "data", "eof", "threw"}
    BY <2>1
  <2>5. /\ unread \in Seq(Byte) /\ buffer \in Seq(Byte) /\ out \in Seq(Byte)
        /\ delivered \in Seq(Byte)
    BY <1>2, <2>1
  <2> QED BY <2>1, <2>2, <2>3, <2>4, <2>5, Zenon DEF StreamTypes
<1>6. AtHand(buffer, unread)
  BY <1>1, <1>2 DEF S!Init, AtHand
<1>7. TakenOff /\ Calls
  BY <1>1, <1>2 DEF Init, S!Init, TakenOff, Calls
<1> QED BY <1>3, <1>4, <1>5, <1>6, <1>7 DEF Typed, StreamHeld

\* A line that is evaluated leaves the stream where it is.
LEMMA Evaluated ==
    ASSUME Typed, HandlerTypes', UNCHANGED stream, op = "none", waiting' = FALSE,
           UNCHANGED <<application, remaining, content>>, clean' \in BOOLEAN,
           seen' \in Lengths, contentLength' \in 0 .. MaxLength, start' \in Nat
    PROVE  Typed'
<1>1. OwnTypes'
  BY DEF Typed, OwnTypes
<1>2. StreamHeld'
  BY StreamAlone DEF Typed
<1>3. op' = "none"
  BY DEF stream
<1> QED BY <1>1, <1>2, <1>3 DEF Typed, Calls

LEMMA StepTyped == Typed /\ [Next]_vars => Typed'
<1> SUFFICES ASSUME Typed, [Next]_vars PROVE Typed'
  OBVIOUS
<1>1. CASE CallReadLine
  <2>1. UNCHANGED <<handler, application, seen, contentLength, remaining, content, start, clean>>
        /\ waiting' = TRUE /\ pc \in {"read_line", "headers"} /\ S!CallReadLine
    BY <1>1 DEF CallReadLine
  <2>2. OwnTypes'
    BY <2>1 DEF Typed, OwnTypes
  <2>3. HandlerTypes' /\ StreamHeld'
    BY <2>1, HandlerAlone, LineCallHolds DEF Typed
  <2>4. Calls'
    BY <2>1 DEF Calls, handler
  <2> QED BY <2>2, <2>3, <2>4 DEF Typed
<1>2. CASE ReadLine
  <2>1. /\ UNCHANGED <<handler, application, waiting, seen, contentLength, remaining, content, start>>
        /\ S!ReadLineTurn /\ clean' \in BOOLEAN
    BY <1>2 DEF ReadLine
  <2>2. op = "read_line"
    BY <2>1 DEF S!ReadLineTurn, S!ReadLineStep, S!ReadLineEOF, S!ReadLineThrows
  <2>3. OwnTypes'
    BY <2>1 DEF Typed, OwnTypes
  <2>4. HandlerTypes' /\ StreamHeld'
    BY <2>1, HandlerAlone, LineTurnHolds DEF Typed
  <2>5. Calls'
    BY <2>1, <2>2 DEF Typed, Calls, handler
  <2> QED BY <2>3, <2>4, <2>5 DEF Typed
<1>3. CASE RequestLine
  <2>1. PICK r \in Parsed(Stripped(out)) : H!RequestLine(r)
    BY <1>3 DEF RequestLine
  <2>2. HandlerTypes'
    BY <2>1, ParsedLines, RequestLineTypes DEF Typed
  <2>3. seen' \in Lengths /\ start' \in Nat
    BY <1>3, ByteAssumption DEF RequestLine, Lengths, Typed, StreamHeld, StreamTypes
  <2> QED BY <1>3, <2>2, <2>3, Evaluated DEF RequestLine, Line, Typed, OwnTypes
<1>4. CASE NoRequestLine
  <2>1. HandlerTypes'
    BY <1>4, ReturnTypes DEF NoRequestLine, H!ReadLineFails, Typed, HandlerTypes
  <2> QED BY <1>4, <2>1, Evaluated DEF NoRequestLine, Typed, OwnTypes
<1>5. CASE ContentLength
  <2>1. HandlerTypes'
    BY <1>5, HandlerAlone DEF ContentLength, Typed
  <2>2. seen' \in Lengths
    BY <1>5, ByteAssumption DEF ContentLength, Lengths
  <2> QED BY <1>5, <2>1, <2>2, Evaluated DEF ContentLength, Line, Typed, OwnTypes
<1>6. CASE OtherHeader
  <2>1. HandlerTypes'
    <3>1. CASE UNCHANGED handler
      BY <3>1, HandlerAlone DEF Typed
    <3>2. CASE H!HeadersMalformed
      BY <3>2, ReturnTypes DEF H!HeadersMalformed, Typed
    <3> QED BY <1>6, <3>1, <3>2 DEF OtherHeader
  <2> QED BY <1>6, <2>1, Evaluated DEF OtherHeader, Line, Typed, OwnTypes
<1>7. CASE HeadersEnd
  <2>1. HandlerTypes'
    BY <1>7, HeadersReadTypes DEF HeadersEnd, Typed
  <2>2. contentLength' \in 0 .. MaxLength
    BY <1>7, ByteAssumption DEF HeadersEnd, Typed, OwnTypes, Lengths
  <2>3. clean' \in BOOLEAN
    BY <1>7 DEF HeadersEnd
  <2> QED BY <1>7, <2>1, <2>2, <2>3, Evaluated DEF HeadersEnd, Line, Typed, OwnTypes
<1>8. CASE HeadersFail
  <2>1. HandlerTypes'
    BY <1>8, ReturnTypes DEF HeadersFail, H!HeadersFail, Typed, HandlerTypes
  <2> QED BY <1>8, <2>1, Evaluated DEF HeadersFail, Typed, OwnTypes
<1>9. CASE CallHandler
  <2>1. /\ H!CallHandler /\ remaining' = BodyWanted /\ content' = <<>>
        /\ UNCHANGED <<stream, application, waiting, seen, contentLength, start, clean>>
    BY <1>9 DEF CallHandler
  <2>2. OwnTypes'
    BY <2>1, EmptySeq, WantedIsBound DEF Typed, OwnTypes
  <2>3. HandlerTypes' /\ StreamHeld'
    BY <2>1, CallHandlerTypes, StreamAlone DEF Typed
  <2>4. Calls'
    BY <2>1 DEF Typed, Calls, stream, H!CallHandler
  <2> QED BY <2>2, <2>3, <2>4 DEF Typed
<1>10. CASE ReadBody
  <2>1. /\ pc = "handler" /\ remaining > 0 /\ S!Read(remaining)
        /\ content' = content \o out' /\ remaining' = remaining - Len(out')
        /\ UNCHANGED <<handler, application, waiting, seen, contentLength, start, clean>>
    BY <1>10 DEF ReadBody
  <2>2. remaining \in 0 .. MaxLength /\ remaining \in Nat /\ content \in Seq(Byte)
    BY ByteAssumption DEF Typed, OwnTypes
  <2>3. StreamHeld' /\ op' = "none" /\ Len(out') \in 0 .. remaining
    BY <2>1, <2>2, ReadHolds DEF Typed
  <2>4. content' \in Seq(Byte) /\ remaining' \in 0 .. MaxLength
    <3>1. out' \in Seq(Byte)
      BY <2>3 DEF StreamHeld, StreamTypes
    <3>2. content' \in Seq(Byte)
      BY <2>1, <2>2, <3>1, ConcatProperties
    <3> QED BY <2>1, <2>2, <2>3, <3>2, ByteAssumption
  <2>5. OwnTypes'
    BY <2>1, <2>4 DEF Typed, OwnTypes
  <2>6. HandlerTypes'
    BY <2>1, HandlerAlone DEF Typed
  <2>7. Calls'
    BY <2>1, <2>3 DEF Typed, Calls
  <2> QED BY <2>3, <2>5, <2>6, <2>7 DEF Typed
<1>11. CASE ReadBodyEOF \/ ReadBodyThrows
  <2>1. /\ pc = "handler" /\ remaining \in Nat /\ S!ReadEnds(remaining) /\ UNCHANGED own
        /\ UNCHANGED handler \/ H!HandlerThrows
    BY <1>11, ByteAssumption DEF ReadBodyEOF, ReadBodyThrows, Typed, OwnTypes
  <2>2. StreamHeld' /\ op' = "none"
    BY <2>1, ReadEndsHolds DEF Typed
  <2>3. OwnTypes'
    BY <2>1 DEF Typed, OwnTypes, own
  <2>4. HandlerTypes'
    <3>1. CASE UNCHANGED handler
      BY <3>1, HandlerAlone DEF Typed
    <3>2. CASE H!HandlerThrows
      BY <3>2 DEF H!HandlerThrows, Typed, HandlerTypes, H!PCs
    <3> QED BY <2>1, <3>1, <3>2
  <2>5. Calls'
    BY <2>1, <2>2 DEF Typed, Calls, own
  <2> QED BY <2>2, <2>3, <2>4, <2>5 DEF Typed
<1>12. CASE HandlerReturns
  <2>1. /\ H!HandlerReturns /\ clean' \in BOOLEAN
        /\ UNCHANGED <<stream, application, waiting, seen, contentLength, remaining, content, start>>
    BY <1>12 DEF HandlerReturns
  <2>2. OwnTypes'
    BY <2>1 DEF Typed, OwnTypes
  <2>3. HandlerTypes'
    BY <2>1, WriteTypes DEF Typed, H!HandlerReturns
  <2>4. StreamHeld'
    BY <2>1, StreamAlone DEF Typed
  <2>5. Calls'
    BY <2>1 DEF Typed, Calls, stream, H!HandlerReturns
  <2> QED BY <2>2, <2>3, <2>4, <2>5 DEF Typed
<1>13. CASE HandlerThrows \/ Elsewhere
  <2>1. /\ UNCHANGED <<stream, own>>
        /\ H!HandlerThrows \/ H!Handle \/ H!SendErrorBody \/ H!CloseIO
    BY <1>13 DEF HandlerThrows, Elsewhere, Alone
  <2>2. HandlerTypes'
    <3>1. CASE H!HandlerThrows \/ H!Handle \/ H!CloseIO
      BY <3>1 DEF H!HandlerThrows, H!Handle, H!CloseIO, Typed, HandlerTypes, H!PCs
    <3>2. CASE H!SendErrorBody
      BY <3>2, WriteTypes DEF H!SendErrorBody, Typed, HandlerTypes
    <3> QED BY <2>1, <3>1, <3>2
  <2>3. StreamHeld'
    BY <2>1, StreamAlone DEF Typed
  <2>4. OwnTypes' /\ Calls'
    <3>1. pc \notin {"read_line", "headers"}
      BY <2>1 DEF H!HandlerThrows, H!Handle, H!SendErrorBody, H!CloseIO
    <3> QED BY <2>1, <3>1 DEF Typed, OwnTypes, Calls, own, stream
  <2> QED BY <2>2, <2>3, <2>4 DEF Typed
<1>14. CASE UNCHANGED vars
  <2>1. UNCHANGED <<handler, stream, own>>
    BY <1>14 DEF vars
  <2>2. HandlerTypes' /\ StreamHeld'
    BY <2>1, HandlerAlone, StreamAlone DEF Typed
  <2>3. OwnTypes' /\ Calls'
    BY <2>1 DEF Typed, OwnTypes, Calls, own, stream, handler
  <2> QED BY <2>2, <2>3 DEF Typed
<1> QED BY <1>1, <1>2, <1>3, <1>4, <1>5, <1>6, <1>7, <1>8, <1>9, <1>10,
           <1>11, <1>12, <1>13, <1>14 DEF Next, Works

LEMMA TypedSuffices == Typed => TypeOK
<1> SUFFICES ASSUME Typed PROVE TypeOK
  OBVIOUS
<1>1. H!TypeOK
  <2>1. headers_buffer \in Seq(H!Errors \cup {100}) /\ Len(headers_buffer) <= 1
    BY EmptySeq DEF Typed, HandlerTypes
  <2> QED BY <2>1 DEF Typed, HandlerTypes, H!TypeOK
<1>2. S!TypeOK
  <2>1. mark \in 0 .. Len(delivered)
    BY StreamLengths DEF Typed, StreamHeld, StreamTypes, TakenOff
  <2>2. sent \in Seq(S!Place) /\ count \in 0 .. size /\ size \in Nat /\ room \in 0 .. 1 /\ writes \in Nat
    BY EmptySeq DEF Typed, StreamHeld, StreamTypes
  <2>3. op \in {"none", "read_line", "write"}
        /\ ret \in {"none", "line", "data", "peek", "eof", "threw", "set", "sent"}
    BY DEF Typed, StreamHeld, StreamTypes
  <2>4. limit \in Int /\ (limit = -1 \/ limit >= -Len(input))
    BY DEF Typed, StreamHeld, StreamTypes
  <2> QED BY <2>1, <2>2, <2>3, <2>4 DEF Typed, StreamHeld, StreamTypes, S!TypeOK
<1> QED BY <1>1, <1>2 DEF Typed, OwnTypes, Lengths, TypeOK

-----------------------------------------------------------------------------
(* Lines: what read_line() returns of one that is where it should be.      *)

\* rtrim() takes off what ends the line and no more.
LEMMA Stripping ==
    ASSUME NEW line \in Seq(Byte), NEW n \in 0 .. Len(line),
           n > 0 => line[n] \notin {CR, LF},
           \A i \in n + 1 .. Len(line) : line[i] \in {CR, LF}
    PROVE  Stripped(line) = SubSeq(line, 1, n)
<1> DEFINE IsEnd(m) == /\ m > 0 => line[m] \notin {CR, LF}
                       /\ \A i \in m + 1 .. Len(line) : line[i] \in {CR, LF}
           m == CHOOSE m \in 0 .. Len(line) : IsEnd(m)
<1>1. Len(line) \in Nat
  BY LenProperties
<1>2. m \in 0 .. Len(line) /\ IsEnd(m)
  <2>1. IsEnd(n)
    OBVIOUS
  <2> HIDE DEF IsEnd
  <2> QED BY <2>1
<1>3. Stripped(line) = SubSeq(line, 1, m)
  BY DEF Stripped
<1> HIDE DEF m
<1>4. ~(m < n)
  <2>1. m < n => n \in m + 1 .. Len(line) /\ n > 0
    BY <1>1, <1>2
  <2> QED BY <2>1, <1>2
<1>5. ~(n < m)
  <2>1. n < m => m \in n + 1 .. Len(line) /\ m > 0
    BY <1>1, <1>2
  <2> QED BY <2>1, <1>2
<1>6. m = n
  BY <1>1, <1>2, <1>4, <1>5
<1> QED BY <1>3, <1>6

\* A turn of read_line() on such a line stops behind it or goes on in it.
LEMMA LineIsRead ==
    ASSUME StreamHeld, NEW c \in {0, 1}, LineAt(mark, c), Reading(c),
           S!ReadLineTurn, ~Torn'
    PROVE  Reading(c)'
<1> DEFINE l == Len(out)
           d == Len(delivered)
<1>1. /\ op = "read_line" /\ l <= c /\ l \in Nat /\ d \in Nat /\ mark \in Nat /\ d = mark + l
      /\ Len(input) \in Nat
  <2>1. op = "read_line"
    BY DEF S!ReadLineTurn, S!ReadLineStep, S!ReadLineEOF, S!ReadLineThrows
  <2> QED BY <2>1, StreamLengths DEF StreamHeld, StreamTypes, TakenOff, Reading
<1>2. CASE S!ReadLineStep
  <2>1. PICK b \in Seq(Byte) : AtHand(b, unread') /\ S!Scan(b) /\ unread' \in Seq(Byte)
    BY <1>2, TurnBytes
  <2>2. PICK n \in 0 .. Len(b) :
           /\ S!Consume(b, n) /\ out' = out \o SubSeq(b, 1, n)
           /\ \/ S!CRLFs(b) = {} /\ n = Len(b) /\ UNCHANGED <<op, ret>>
              \/ /\ n - 1 \in S!CRLFs(b) /\ \A q \in S!CRLFs(b) : n - 1 <= q
                 /\ S!Ends("line")
    BY <2>1, TurnTakes
  <2>3. input' = input /\ mark' = mark
    BY <1>2 DEF S!ReadLineStep
  <2>4. Len(delivered') = d + n
    BY <2>1, <2>2, <2>3, BytesHandedOut DEF StreamHeld
  <2>5. out' \in Seq(Byte) /\ Len(out') = l + n /\ TakenOff'
    BY <2>1, <2>2, <2>3, <2>4, MoreTakenOff DEF StreamHeld
  <2>6. /\ Len(b) \in Nat /\ Len(unread') \in Nat /\ d + Len(b) + Len(unread') = Len(input)
    BY <2>1, LenProperties DEF AtHand
  <2>7. \A i \in 1 .. Len(b) : b[i] = input[mark + (l + i)]
    <3> TAKE i \in 1 .. Len(b)
    <3>1. d + i = mark + (l + i)
      BY <1>1
    <3>2. b[i] = input[d + i]
      BY <2>1, Zenon DEF AtHand
    <3> QED BY <3>1, <3>2
  <2>8. \* what LineAt says of the bytes at hand
        \A i \in 1 .. Len(b) :
           /\ l + i <= c => b[i] \notin {CR, LF}
           /\ l + i = c + 1 => b[i] = CR
           /\ l + i = c + 2 => b[i] = LF
    <3> TAKE i \in 1 .. Len(b)
    <3>1. mark + (l + i) <= Len(input) /\ b[i] = input[mark + (l + i)]
      BY <1>1, <2>6, <2>7
    <3>2. l + i <= c => l + i \in 1 .. c
      BY <1>1
    <3>3. l + i <= c => input[mark + (l + i)] \notin {CR, LF}
      BY <3>1, <3>2 DEF LineAt
    <3>4. l + i = c + 1 => mark + c + 1 = mark + (l + i)
      BY <1>1
    <3>5. l + i = c + 2 => mark + c + 2 = mark + (l + i)
      BY <1>1
    <3> QED BY <3>1, <3>3, <3>4, <3>5 DEF LineAt
  <2>9. CASE S!CRLFs(b) = {} /\ n = Len(b) /\ UNCHANGED <<op, ret>>
    <3>1. ~(l + n >= c + 2)
      <4> SUFFICES ASSUME l + n >= c + 2 PROVE FALSE
        OBVIOUS
      <4>1. c + 1 - l \in 1 .. Len(b) - 1 /\ c + 2 - l \in 1 .. Len(b)
            /\ (c + 1 - l) + 1 = c + 2 - l /\ c + 1 - l \in 1 .. Len(b)
            /\ l + (c + 1 - l) = c + 1 /\ l + (c + 2 - l) = c + 2
        BY <1>1, <2>6, <2>9
      <4>2. b[c + 1 - l] = CR /\ b[c + 2 - l] = LF
        BY <4>1, <2>8
      <4>3. c + 1 - l \in S!CRLFs(b)
        BY <4>1, <4>2 DEF S!CRLFs
      <4> QED BY <4>3, <2>9
    <3>2. l + n # c + 1
      <4> SUFFICES ASSUME l + n = c + 1 PROVE FALSE
        OBVIOUS
      <4>1. Len(out') = c + 1 /\ c + 1 \in 1 .. Len(out') /\ mark + (c + 1) = mark + c + 1
            /\ mark + c + 1 <= Len(input)
        BY <1>1, <2>5, <2>6, <2>9
      <4>2. out'[c + 1] = input[mark + (c + 1)]
        BY <4>1, <2>3, <2>5 DEF TakenOff
      <4>3. out'[Len(out')] = CR
        BY <4>1, <4>2 DEF LineAt
      <4>4. out' # <<>>
        BY <4>1, EmptySeq
      <4> QED BY <4>3, <4>4, <1>1, <2>9 DEF Torn
    <3>3. Len(out') <= c
      BY <3>1, <3>2, <1>1, <2>5
    <3> QED BY <3>3, <2>9, <1>1 DEF Reading
  <2>10. CASE /\ n - 1 \in S!CRLFs(b) /\ \A q \in S!CRLFs(b) : n - 1 <= q
              /\ S!Ends("line")
    <3>1. /\ n - 1 \in 1 .. Len(b) - 1 /\ b[n - 1] = CR /\ b[(n - 1) + 1] = LF
      BY <2>10 DEF S!CRLFs
    <3>2. n - 1 \in 1 .. Len(b) /\ n \in 1 .. Len(b) /\ (n - 1) + 1 = n
      BY <3>1, <2>6
    <3>3. ~(l + (n - 1) <= c)
      BY <3>1, <3>2, <2>8
    <3>4. ~(l + (n - 1) > c + 1)
      <4> SUFFICES ASSUME l + (n - 1) > c + 1 PROVE FALSE
        OBVIOUS
      <4>1. c + 1 - l \in 1 .. Len(b) - 1 /\ c + 2 - l \in 1 .. Len(b)
            /\ (c + 1 - l) + 1 = c + 2 - l /\ c + 1 - l \in 1 .. Len(b)
            /\ l + (c + 1 - l) = c + 1 /\ l + (c + 2 - l) = c + 2
            /\ ~(n - 1 <= c + 1 - l)
        BY <1>1, <2>6, <3>2
      <4>2. b[c + 1 - l] = CR /\ b[c + 2 - l] = LF
        BY <4>1, <2>8
      <4>3. c + 1 - l \in S!CRLFs(b)
        BY <4>1, <4>2 DEF S!CRLFs
      <4> QED BY <4>1, <4>3, <2>10
    <3>5. Len(out') = c + 2
      BY <3>2, <3>3, <3>4, <1>1, <2>5, <2>6
    <3> QED BY <3>5, <2>10 DEF Reading, S!Ends
  <2> QED BY <2>2, <2>9, <2>10
<1>3. CASE S!ReadLineEOF
  <2>1. /\ buffer = <<>> /\ unread = <<>> /\ op' = "none" /\ ret' = "eof"
        /\ out' = out /\ delivered' = delivered /\ input' = input
    BY <1>3 DEF S!ReadLineEOF, S!PeerClosed, S!Ends, S!reader
  <2>2. d = Len(input)
    BY <2>1, <1>1, EmptySeq DEF StreamHeld, AtHand
  <2> QED BY <1>1, <2>1, <2>2 DEF Reading
<1>4. CASE S!ReadLineThrows
  BY <1>4 DEF S!ReadLineThrows, S!ReadThrows, Reading
<1> QED BY <1>2, <1>3, <1>4 DEF S!ReadLineTurn

\* The line that is evaluated: whole, or what there was of it.
LEMMA LineTaken ==
    ASSUME StreamHeld, NEW c \in {0, 1}, LineAt(mark, c), Reading(c), Line
    PROVE  /\ Len(delivered) <= Len(input) /\ Len(delivered) \in Nat
           /\ \/ /\ Len(delivered) = mark + c + 2
                 /\ c = 0 => Stripped(out) = <<>>
                 /\ c = 1 => Stripped(out) = <<input[mark + 1]>>
                             /\ input[mark + 1] \notin {CR, LF}
              \/ /\ Len(delivered) = Len(input) /\ Len(delivered) = mark
                 /\ out = <<>> /\ Stripped(out) = <<>>
              \/ /\ Len(delivered) = Len(input) /\ Len(delivered) = mark + 1 /\ c = 1
                 /\ Stripped(out) = <<input[mark + 1]>>
                 /\ input[mark + 1] \notin {CR, LF}
<1> DEFINE l == Len(out)
           d == Len(delivered)
<1>1. /\ l \in Nat /\ d \in Nat /\ mark \in Nat /\ Len(input) \in Nat /\ d = mark + l
      /\ out \in Seq(Byte)
  BY StreamLengths DEF StreamHeld, StreamTypes, TakenOff
<1>2. d <= Len(input)
  BY <1>1, StreamLengths DEF StreamHeld, AtHand
<1>3. \A i \in 1 .. l : out[i] = input[mark + i]
  BY DEF StreamHeld, TakenOff
<1>4. ASSUME l = 0 PROVE out = <<>> /\ Stripped(out) = <<>>
  <2>1. out = <<>>
    BY <1>1, <1>4, EmptySeq
  <2>2. 0 \in 0 .. l /\ ~(0 > 0) /\ \A i \in 0 + 1 .. l : out[i] \in {CR, LF}
    BY <1>1, <1>4
  <2>3. Stripped(out) = SubSeq(out, 1, 0)
    BY <1>1, <2>2, Stripping
  <2> QED BY <2>1, <2>3, SubSeqEmpty
<1>5. ASSUME l >= 1, c = 1, l = 1 \/ l = 3
      PROVE  Stripped(out) = <<input[mark + 1]>> /\ input[mark + 1] \notin {CR, LF}
  <2>1. mark + 1 <= Len(input) /\ 1 \in 1 .. c /\ 1 \in 1 .. l /\ 1 \in 0 .. l
    BY <1>1, <1>2, <1>5
  <2>2. input[mark + 1] \notin {CR, LF} /\ out[1] = input[mark + 1]
    BY <2>1, <1>3 DEF LineAt
  <2>3. \A i \in 1 + 1 .. l : out[i] \in {CR, LF}
    <3> TAKE i \in 1 + 1 .. l
    <3>1. i \in 1 .. l /\ (i = 2 \/ i = 3)
      <4>1. l = 1 => ~(1 + 1 <= l)
        BY <1>1
      <4>2. l = 3
        BY <1>5, <4>1
      <4> QED BY <4>2
    <3>4. mark + i <= Len(input)
      BY <1>1, <1>2, <3>1
    <3>2. out[i] = input[mark + i]
      BY <3>1, <1>3
    <3>3. (i = 2 => mark + c + 1 = mark + i) /\ (i = 3 => mark + c + 2 = mark + i)
      BY <1>1, <1>5
    <3> QED BY <3>1, <3>2, <3>3, <3>4 DEF LineAt
  <2>4. Stripped(out) = SubSeq(out, 1, 1)
    BY <1>1, <2>1, <2>2, <2>3, Stripping
  <2>5. /\ SubSeq(out, 1, 1) \in Seq(Byte) /\ Len(SubSeq(out, 1, 1)) = 1
        /\ SubSeq(out, 1, 1)[1] = out[1]
    BY <1>1, <2>1, Parts
  <2>6. ASSUME NEW s \in Seq(Byte), Len(s) = 1 PROVE s = <<s[1]>>
    BY <2>6
  <2>7. SubSeq(out, 1, 1) = <<out[1]>>
    BY <2>5, <2>6
  <2> QED BY <2>2, <2>4, <2>7
<1>6. ASSUME c = 0, l = 2 PROVE Stripped(out) = <<>>
  <2>1. 0 \in 0 .. l /\ ~(0 > 0)
    BY <1>1
  <2>2. \A i \in 0 + 1 .. l : out[i] \in {CR, LF}
    <3> TAKE i \in 0 + 1 .. l
    <3>1. i \in 1 .. l /\ (i = 1 \/ i = 2) /\ mark + i <= Len(input)
      BY <1>1, <1>2, <1>6
    <3>2. out[i] = input[mark + i]
      BY <3>1, <1>3
    <3>3. i = 1 => mark + c + 1 = mark + i
      BY <1>1, <1>6
    <3>4. i = 2 => mark + c + 2 = mark + i
      BY <1>1, <1>6
    <3> QED BY <3>1, <3>2, <3>3, <3>4 DEF LineAt
  <2>3. Stripped(out) = SubSeq(out, 1, 0)
    BY <1>1, <2>1, <2>2, Stripping
  <2> QED BY <2>3, SubSeqEmpty
<1>7. CASE ret = "line"
  <2>1. l = c + 2
    BY <1>7 DEF Line, Reading
  <2>2. d = mark + c + 2
    BY <1>1, <2>1
  <2>3. c = 1 => l >= 1 /\ l = 3
    BY <2>1
  <2>4. c = 0 => l = 2
    BY <2>1
  <2> QED BY <1>1, <1>2, <1>5, <1>6, <2>2, <2>3, <2>4
<1>8. CASE ret = "eof"
  <2>1. l <= c /\ d = Len(input)
    BY <1>8 DEF Line, Reading
  <2>2. l = 0 \/ (l = 1 /\ c = 1)
    <3>1. \A n \in Nat, e \in {0, 1} : n <= e => n = 0 \/ (n = 1 /\ e = 1)
      OBVIOUS
    <3> QED BY <1>1, <2>1, <3>1, Zenon
  <2>3. CASE l = 0
    <3>1. d = mark
      BY <1>1, <2>3
    <3> QED BY <1>1, <1>2, <1>4, <2>1, <2>3, <3>1
  <2>4. CASE l = 1 /\ c = 1
    <3>1. d = mark + 1 /\ l >= 1
      BY <1>1, <2>4
    <3> QED BY <1>1, <1>2, <1>5, <2>1, <2>4, <3>1
  <2> QED BY <2>2, <2>3, <2>4
<1> QED BY <1>7, <1>8 DEF Line

-----------------------------------------------------------------------------
(* Messages.                                                               *)

\* What a message is made of.
LEMMA Composition ==
    ASSUME NEW length \in Lengths
    PROVE  LET m == Message(length)
               h == Len(Heading(length))
           IN  /\ h = IF length = -1 THEN 5 ELSE 8
               /\ BodyLength(length) \in Nat
               /\ Len(m) = h + BodyLength(length)
               /\ m[1] = GET /\ m[2] = CR /\ m[3] = LF
               /\ length = -1 => m[4] = CR /\ m[5] = LF
               /\ length # -1 => /\ m[4] = length /\ m[5] = CR /\ m[6] = LF
                                 /\ m[7] = CR /\ m[8] = LF
               /\ \A k \in h + 1 .. Len(m) : m[k] = Data
<1> DEFINE m == Message(length)
           g == Heading(length)
           h == Len(g)
           body == [i \in 1 .. (IF length = -1 THEN 0 ELSE length) |-> Data]
<1>1. BodyLength(length) \in Nat /\ MaxLength \in Nat /\ (length # -1 => length \in 0 .. MaxLength)
  BY ByteAssumption DEF Lengths, BodyLength
<1>2. /\ body \in Seq(Byte) /\ Len(body) = BodyLength(length)
      /\ \A i \in 1 .. BodyLength(length) : body[i] = Data
  <2>1. body = [i \in 1 .. BodyLength(length) |-> Data]
    BY DEF BodyLength
  <2>2. Data \in Byte
    BY DEF Byte
  <2> HIDE DEF body
  <2> QED BY <1>1, <2>1, <2>2
<1>3. /\ g \in Seq(Byte) /\ h = IF length = -1 THEN 5 ELSE 8
      /\ g[1] = GET /\ g[2] = CR /\ g[3] = LF
      /\ length = -1 => g[4] = CR /\ g[5] = LF
      /\ length # -1 => /\ g[4] = length /\ g[5] = CR /\ g[6] = LF
                        /\ g[7] = CR /\ g[8] = LF
  <2>1. {CR, LF, GET} \subseteq Byte /\ (length # -1 => length \in Byte)
    BY <1>1 DEF Byte
  <2> QED BY <2>1 DEF Heading
<1>4. m = g \o body
  BY DEF Message
<1> HIDE DEF body, g
<1>5. /\ Len(m) = h + BodyLength(length)
      /\ \A k \in 1 .. h + BodyLength(length) : m[k] = IF k <= h THEN g[k] ELSE body[k - h]
  <2>1. g \in Seq(Byte) /\ body \in Seq(Byte) /\ Len(body) = BodyLength(length)
    BY <1>2, <1>3
  <2>2. /\ Len(g \o body) = h + Len(body)
        /\ \A k \in 1 .. h + Len(body) : (g \o body)[k] = IF k <= h THEN g[k] ELSE body[k - h]
    BY <2>1, ConcatProperties
  <2> QED BY <1>4, <2>1, <2>2
<1> HIDE DEF m
<1>6. \A k \in h + 1 .. Len(m) : m[k] = Data
  <2> TAKE k \in h + 1 .. Len(m)
  <2>1. /\ k \in 1 .. h + BodyLength(length) /\ ~(k <= h) /\ k - h \in 1 .. BodyLength(length)
    BY <1>1, <1>3, <1>5
  <2> QED BY <2>1, <1>2, <1>5
<1>7. \A k \in 1 .. h : m[k] = g[k]
  <2> TAKE k \in 1 .. h
  <2>1. k \in 1 .. h + BodyLength(length) /\ k <= h
    BY <1>1, <1>3
  <2> QED BY <2>1, <1>5
<1>8. /\ \A k \in 1 .. 5 : m[k] = g[k]
      /\ length # -1 => \A k \in 1 .. 8 : m[k] = g[k]
  BY <1>3, <1>7
<1>9. /\ m[1] = GET /\ m[2] = CR /\ m[3] = LF
      /\ length = -1 => m[4] = CR /\ m[5] = LF
      /\ length # -1 => /\ m[4] = length /\ m[5] = CR /\ m[6] = LF
                        /\ m[7] = CR /\ m[8] = LF
  <2>1. /\ m[1] = g[1] /\ m[2] = g[2] /\ m[3] = g[3] /\ m[4] = g[4] /\ m[5] = g[5]
    BY <1>8
  <2>2. length # -1 => m[6] = g[6] /\ m[7] = g[7] /\ m[8] = g[8]
    BY <1>8
  <2> QED BY <2>1, <2>2, <1>3
<1> QED BY <1>1, <1>3, <1>5, <1>6, <1>9 DEF m, g

LEMMA MessageLength ==
    ASSUME NEW length \in Lengths
    PROVE  /\ Len(Heading(length)) \in Nat /\ Len(Heading(length)) >= 5
           /\ Len(Message(length)) \in Nat /\ Len(Message(length)) >= 5
           /\ Len(Message(length)) = Len(Heading(length)) + BodyLength(length)
           /\ BodyLength(length) \in Nat
<1> DEFINE h == Len(Heading(length))
           l == BodyLength(length)
           n == Len(Message(length))
<1>1. /\ h = (IF length = -1 THEN 5 ELSE 8) /\ n = h + l /\ l \in Nat
  BY Composition
<1> HIDE DEF h, l, n
<1>2. h \in Nat /\ h >= 5
  BY <1>1
<1>3. n \in Nat /\ n >= 5
  BY <1>1, <1>2
<1> QED BY <1>1, <1>2, <1>3 DEF h, l, n

\* One more message begins among the first b bytes than among the first a.
LEMMA OneMoreMessage ==
    ASSUME NEW a \in Nat, NEW b \in Nat, a < b, input[a + 1] = GET,
           \A k \in a + 2 .. b : input[k] # GET
    PROVE  MessagesIn(b) = MessagesIn(a) + 1
<1> DEFINE M(n) == {i \in 1 .. n : input[i] = GET}
<1>1. M(b) = M(a) \cup {a + 1}
  <2>1. ASSUME NEW i \in M(b) PROVE i \in M(a) \cup {a + 1}
    <3>1. i \in 1 .. b /\ input[i] = GET
      OBVIOUS
    <3>2. i \notin a + 2 .. b
      BY <3>1
    <3>3. i \in 1 .. a \/ i = a + 1
      BY <3>1, <3>2
    <3> QED BY <3>1, <3>3
  <2>2. ASSUME NEW i \in M(a) \cup {a + 1} PROVE i \in M(b)
    <3>1. a + 1 \in 1 .. b
      OBVIOUS
    <3>2. i \in M(a) => i \in 1 .. b /\ input[i] = GET
      OBVIOUS
    <3> QED BY <3>1, <3>2
  <2> QED BY <2>1, <2>2
<1>2. IsFiniteSet(M(a)) /\ a + 1 \notin M(a)
  <2>1. IsFiniteSet(1 .. a) /\ M(a) \in SUBSET (1 .. a)
    BY FS_Interval
  <2> QED BY <2>1, FS_Subset
<1>3. Cardinality(M(a) \cup {a + 1}) = Cardinality(M(a)) + 1
  <2> HIDE DEF M
  <2> QED BY <1>2, FS_AddElement
<1> QED BY <1>1, <1>3 DEF MessagesIn

\* Within a message no other one begins.
LEMMA WithinMessage ==
    ASSUME input \in Seq(Byte), NEW i \in Nat, input[i + 1] = GET,
           NEW length \in Lengths, MessageAt(input, i, length),
           NEW p \in Nat, i < p, p <= i + Len(Message(length)), p <= Len(input)
    PROVE  MessagesIn(p) = MessagesIn(i) + 1
<1> DEFINE m == Message(length)
           h == Len(Heading(length))
<1>1. /\ h = IF length = -1 THEN 5 ELSE 8
      /\ Len(m) = h + BodyLength(length) /\ BodyLength(length) \in Nat
      /\ m[2] = CR /\ m[3] = LF
      /\ length = -1 => m[4] = CR /\ m[5] = LF
      /\ length # -1 => /\ m[4] = length /\ m[5] = CR /\ m[6] = LF
                        /\ m[7] = CR /\ m[8] = LF
      /\ \A k \in h + 1 .. Len(m) : m[k] = Data
  BY Composition
<1>2. GET # CR /\ GET # LF /\ GET # Data /\ (length # -1 => GET # length)
  <2>1. length # -1 => length \in 0 .. MaxLength
    BY ByteAssumption DEF Lengths
  <2>2. GET \notin 0 .. MaxLength
    BY ByteAssumption
  <2> QED BY <2>1, <2>2, ByteAssumption
<1>3. Len(input) \in Nat /\ Len(m) \in Nat
  BY LenProperties, MessageLength
<1>4. \A k \in 1 .. Len(m) : i + k <= Len(input) => input[i + k] = m[k]
  BY DEF MessageAt
<1> HIDE DEF m, h
<1>5. ASSUME NEW k \in 2 .. Len(m) PROVE m[k] # GET
  <2>1. CASE k \in h + 1 .. Len(m)
    BY <2>1, <1>1, <1>2
  <2>2. CASE k \notin h + 1 .. Len(m)
    <3>1. k \in 2 .. h
      BY <2>2, <1>1
    <3>2. CASE length = -1
      <4>1. k = 2 \/ k = 3 \/ k = 4 \/ k = 5
        BY <3>1, <3>2, <1>1
      <4>2. m[2] = CR /\ m[3] = LF /\ m[4] = CR /\ m[5] = LF
        BY <3>2, <1>1
      <4> QED BY <4>1, <4>2, <1>2
    <3>3. CASE length # -1
      <4>1. k = 2 \/ k = 3 \/ k = 4 \/ k = 5 \/ k = 6 \/ k = 7 \/ k = 8
        BY <3>1, <3>3, <1>1
      <4>2. /\ m[2] = CR /\ m[3] = LF /\ m[4] = length /\ m[5] = CR /\ m[6] = LF
            /\ m[7] = CR /\ m[8] = LF
        BY <3>3, <1>1
      <4> QED BY <3>3, <4>1, <4>2, <1>2
    <3> QED BY <3>2, <3>3
  <2> QED BY <2>1, <2>2
<1>6. ASSUME NEW k \in i + 2 .. p PROVE input[k] # GET
  <2>1. k - i \in 2 .. Len(m) /\ k - i \in 1 .. Len(m) /\ i + (k - i) = k /\ k <= Len(input)
    <3>1. p <= i + Len(m)
      BY DEF m
    <3> QED BY <1>3, <3>1
  <2>2. input[i + (k - i)] = m[k - i]
    BY <2>1, <1>4
  <2> QED BY <2>1, <2>2, <1>5
<1> QED BY <1>6, OneMoreMessage

\* What comes behind the first bytes of a body: the rest of it, and then
\* the next message.
LEMMA BehindBody ==
    ASSUME input \in Seq(Byte), NEW i \in Nat, NEW length \in Lengths, MessageAt(input, i, length),
           NEW left \in 0 .. BodyLength(length), NEW p,
           p = i + Len(Heading(length)) + (BodyLength(length) - left)
    PROVE  /\ p \in Nat /\ i < p /\ p <= i + Len(Message(length))
           /\ \A k \in 1 .. left : p + k <= Len(input) => input[p + k] = Data
           /\ left = 0 /\ p < Len(input) => input[p + 1] = GET
<1> DEFINE m == Message(length)
           h == Len(Heading(length))
           l == BodyLength(length)
<1>1. /\ h \in Nat /\ h > 0 /\ Len(m) = h + l /\ l \in Nat
      /\ \A k \in h + 1 .. Len(m) : m[k] = Data
  BY Composition, MessageLength
<1>2. Len(input) \in Nat
  BY LenProperties
<1>3. /\ \A k \in 1 .. Len(m) : i + k <= Len(input) => input[i + k] = m[k]
      /\ i + Len(m) < Len(input) => input[i + Len(m) + 1] = GET
  BY DEF MessageAt
<1> HIDE DEF m, h, l
<1>4. /\ p \in Nat /\ i < p /\ p <= i + Len(m) /\ left \in 0 .. l
      /\ p = i + h + (l - left)
  BY <1>1 DEF h, l
<1>5. ASSUME NEW k \in 1 .. left, p + k <= Len(input) PROVE input[p + k] = Data
  <2>1. /\ h + (l - left) + k \in 1 .. Len(m) /\ h + (l - left) + k \in h + 1 .. Len(m)
        /\ i + (h + (l - left) + k) = p + k
    BY <1>1, <1>4
  <2> QED BY <2>1, <1>1, <1>3, <1>5
<1>6. left = 0 /\ p < Len(input) => input[p + 1] = GET
  <2>1. left = 0 => p = i + Len(m)
    BY <1>1, <1>4
  <2> QED BY <2>1, <1>3
<1> QED BY <1>4, <1>5, <1>6 DEF m

-----------------------------------------------------------------------------
(* The lines of a message.                                                 *)

LEMMA MessageBegins ==
    ASSUME input \in Seq(Byte), WellFormed(input), NEW p \in Nat, p < Len(input), input[p + 1] = GET
    PROVE  \E length \in Lengths : MessageAt(input, p, length)
<1>1. p \in 0 .. Len(input) - 1
  BY LenProperties
<1> QED BY <1>1 DEF WellFormed, Lengths

LEMMA RequestLineAt ==
    ASSUME input \in Seq(Byte), WellFormed(input), NEW p \in Nat,
           p < Len(input) => input[p + 1] = GET
    PROVE  LineAt(p, 1)
<1>1. Len(input) \in Nat /\ GET \notin {CR, LF}
  BY LenProperties, ByteAssumption
<1>2. CASE p < Len(input)
  <2>1. PICK length \in Lengths : MessageAt(input, p, length)
    BY <1>2, MessageBegins
  <2>2. /\ 2 \in 1 .. Len(Message(length)) /\ 3 \in 1 .. Len(Message(length))
        /\ Message(length)[2] = CR /\ Message(length)[3] = LF
    BY Composition, MessageLength
  <2>3. /\ p + 2 <= Len(input) => input[p + 2] = CR
        /\ p + 3 <= Len(input) => input[p + 3] = LF
    BY <2>1, <2>2 DEF MessageAt
  <2>4. \A k \in 1 .. 1 : k = 1
    OBVIOUS
  <2>5. p + 1 + 1 = p + 2 /\ p + 1 + 2 = p + 3
    OBVIOUS
  <2> QED BY <1>1, <1>2, <2>3, <2>4, <2>5 DEF LineAt
<1>3. CASE ~(p < Len(input))
  <2>1. ~(p + 1 <= Len(input)) /\ ~(p + 1 + 1 <= Len(input)) /\ ~(p + 1 + 2 <= Len(input))
    BY <1>1, <1>3
  <2>2. \A k \in 1 .. 1 : k = 1
    OBVIOUS
  <2> QED BY <2>1, <2>2 DEF LineAt
<1> QED BY <1>2, <1>3

LEMMA HeaderBytes ==
    ASSUME NEW i \in Nat, NEW length \in Lengths, MessageAt(input, i, length)
    PROVE  /\ i + 4 <= Len(input) => input[i + 4] = IF length = -1 THEN CR ELSE length
           /\ i + 5 <= Len(input) => input[i + 5] = IF length = -1 THEN LF ELSE CR
           /\ length # -1 => /\ i + 6 <= Len(input) => input[i + 6] = LF
                             /\ i + 7 <= Len(input) => input[i + 7] = CR
                             /\ i + 8 <= Len(input) => input[i + 8] = LF
<1> DEFINE m == Message(length)
<1>1. \A k \in 1 .. Len(m) : i + k <= Len(input) => input[i + k] = m[k]
  BY DEF MessageAt
<1>2. /\ length = -1 => m[4] = CR /\ m[5] = LF
      /\ length # -1 => m[4] = length /\ m[5] = CR /\ m[6] = LF /\ m[7] = CR /\ m[8] = LF
  BY Composition
<1>3. 4 \in 1 .. Len(m) /\ 5 \in 1 .. Len(m)
  BY MessageLength
<1>4. ASSUME length # -1
      PROVE  6 \in 1 .. Len(m) /\ 7 \in 1 .. Len(m) /\ 8 \in 1 .. Len(m)
  <2>1. Len(Heading(length)) = 8
    BY <1>4, Composition
  <2>2. Len(m) = Len(Heading(length)) + BodyLength(length) /\ BodyLength(length) \in Nat
    BY MessageLength
  <2>3. Len(m) \in Nat /\ Len(m) >= 8
    BY <2>1, <2>2
  <2> QED BY <2>3
<1> HIDE DEF m
<1> QED BY <1>1, <1>2, <1>3, <1>4

LEMMA LengthIsNoLineEnd ==
    ASSUME NEW length \in Lengths, length # -1
    PROVE  length \in 0 .. MaxLength /\ length \notin {CR, LF}
<1>1. length \in 0 .. MaxLength
  BY ByteAssumption DEF Lengths
<1> QED BY <1>1, ByteAssumption

\* Where the handler reads a header there is a line, if there is anything.
LEMMA HeaderLineAt ==
    ASSUME input \in Seq(Byte), WellFormed(input), start \in Nat, start < Len(input),
           input[start + 1] = GET, NEW p \in Nat, seen \in Lengths,
           \/ seen = -1 /\ p = start + 3
           \/ seen # -1 /\ p = start + 6 /\ MessageAt(input, start, seen)
           \/ BrokenOff(p)
    PROVE  \E c \in {0, 1} : LineAt(p, c)
<1>1. Len(input) \in Nat
  BY LenProperties
<1>2. CASE seen = -1 /\ p = start + 3
  <2>1. PICK length \in Lengths : MessageAt(input, start, length)
    BY MessageBegins
  <2>2. p + 1 = start + 4 /\ p + 2 = start + 5 /\ p + 3 = start + 6
    BY <1>2
  <2>3. CASE length = -1
    <3>1. /\ p + 1 <= Len(input) => input[p + 1] = CR
          /\ p + 2 <= Len(input) => input[p + 2] = LF
      BY <2>1, <2>2, <2>3, HeaderBytes
    <3>2. p + 0 + 1 = p + 1 /\ p + 0 + 2 = p + 2 /\ 1 .. 0 = {}
      OBVIOUS
    <3>3. LineAt(p, 0)
      BY <3>1, <3>2 DEF LineAt
    <3> QED BY <3>3
  <2>4. CASE length # -1
    <3>1. /\ p + 1 <= Len(input) => input[p + 1] \notin {CR, LF}
          /\ p + 2 <= Len(input) => input[p + 2] = CR
          /\ p + 3 <= Len(input) => input[p + 3] = LF
      BY <2>1, <2>2, <2>4, HeaderBytes, LengthIsNoLineEnd
    <3>2. p + 1 + 1 = p + 2 /\ p + 1 + 2 = p + 3 /\ \A k \in 1 .. 1 : k = 1
      OBVIOUS
    <3>3. LineAt(p, 1)
      BY <3>1, <3>2 DEF LineAt
    <3> QED BY <3>3
  <2> QED BY <2>3, <2>4
<1>3. CASE seen # -1 /\ p = start + 6 /\ MessageAt(input, start, seen)
  <2>1. p + 0 + 1 = start + 7 /\ p + 0 + 2 = start + 8 /\ 1 .. 0 = {}
    BY <1>3
  <2>2. LineAt(p, 0)
    BY <1>3, <2>1, HeaderBytes DEF LineAt
  <2> QED BY <2>2
<1>4. CASE BrokenOff(p)
  <2>1. ~(p + 0 + 1 <= Len(input)) /\ ~(p + 0 + 2 <= Len(input)) /\ 1 .. 0 = {}
    BY <1>1, <1>4 DEF BrokenOff
  <2>2. LineAt(p, 0)
    BY <2>1 DEF LineAt
  <2> QED BY <2>2
<1> QED BY <1>2, <1>3, <1>4

\* A header line is the Content-Length of the message or ends its heading.
LEMMA HeaderLine ==
    ASSUME Typed, WellFormed(input), start < Len(input), input[start + 1] = GET,
           \/ seen = -1 /\ mark = start + 3
           \/ seen # -1 /\ mark = start + 6 /\ MessageAt(input, start, seen)
           \/ BrokenOff(mark),
           NEW c \in {0, 1}, LineAt(mark, c), Reading(c), Line
    PROVE  \/ /\ Stripped(out) = <<>>
              /\ \/ /\ MessageAt(input, start, seen)
                    /\ Len(delivered) = start + Len(Heading(seen))
                 \/ BrokenOff(Len(delivered))
           \/ \E n \in 0 .. MaxLength :
                 /\ Stripped(out) = <<n>>
                 /\ \/ Len(delivered) = start + 6 /\ MessageAt(input, start, n)
                    \/ BrokenOff(Len(delivered))
<1> DEFINE d == Len(delivered)
<1>1. /\ input \in Seq(Byte) /\ Len(input) \in Nat /\ d \in Nat /\ mark \in Nat
      /\ start \in Nat /\ seen \in Lengths
  BY StreamLengths DEF Typed, OwnTypes, StreamHeld, StreamTypes
<1>2. d <= Len(input)
  BY LineTaken DEF Typed
<1>3. \/ /\ d = mark + c + 2
         /\ c = 0 => Stripped(out) = <<>>
         /\ c = 1 => Stripped(out) = <<input[mark + 1]>>
                     /\ input[mark + 1] \notin {CR, LF}
      \/ d = Len(input) /\ d = mark /\ out = <<>> /\ Stripped(out) = <<>>
      \/ /\ d = Len(input) /\ d = mark + 1 /\ c = 1
         /\ Stripped(out) = <<input[mark + 1]>>
         /\ input[mark + 1] \notin {CR, LF}
  BY LineTaken DEF Typed
<1> HIDE DEF d
<1>4. CASE seen = -1 /\ mark = start + 3
  <2>1. PICK length \in Lengths : MessageAt(input, start, length)
    BY <1>1, MessageBegins
  <2>2. /\ mark + 1 = start + 4
        /\ Len(Message(length)) \in Nat /\ Len(Message(length)) >= 5
    BY <1>1, <1>4, MessageLength
  <2>3. mark + 1 <= Len(input) => input[mark + 1] = IF length = -1 THEN CR ELSE length
    BY <1>1, <2>1, <2>2, HeaderBytes
  <2>4. d = Len(input) /\ (d = mark \/ d = mark + 1) => BrokenOff(d)
    <3>1. d = Len(input) /\ (d = mark \/ d = mark + 1) =>
             start < d /\ d <= start + Len(Message(length))
      BY <1>1, <1>4, <2>2
    <3> QED BY <2>1, <3>1 DEF BrokenOff
  <2>5. CASE d = mark + c + 2 /\ c = 0 /\ Stripped(out) = <<>>
    <3>1. mark + 1 <= Len(input) /\ mark + c + 1 = mark + 1 /\ d = start + 5
      BY <1>1, <1>2, <1>4, <2>5
    <3>2. input[mark + 1] = CR
      BY <3>1 DEF LineAt
    <3>3. length = -1
      BY <2>3, <3>1, <3>2, LengthIsNoLineEnd
    <3>4. Len(Heading(-1)) = 5
      BY <3>3, Composition
    <3> QED BY <1>4, <2>1, <2>5, <3>1, <3>3, <3>4 DEF d
  <2>6. CASE /\ d = mark + c + 2 /\ c = 1
             /\ Stripped(out) = <<input[mark + 1]>> /\ input[mark + 1] \notin {CR, LF}
    <3>1. mark + 1 <= Len(input) /\ d = start + 6
      BY <1>1, <1>2, <1>4, <2>6
    <3>2. length # -1 /\ input[mark + 1] = length
      BY <2>3, <2>6, <3>1
    <3>3. length \in 0 .. MaxLength
      BY <3>2, LengthIsNoLineEnd
    <3> QED BY <2>1, <2>6, <3>1, <3>2, <3>3 DEF d
  <2>7. CASE d = Len(input) /\ d = mark /\ Stripped(out) = <<>>
    BY <2>4, <2>7 DEF d
  <2>8. CASE /\ d = Len(input) /\ d = mark + 1
             /\ Stripped(out) = <<input[mark + 1]>> /\ input[mark + 1] \notin {CR, LF}
    <3>1. mark + 1 <= Len(input)
      BY <1>1, <2>8
    <3>2. length # -1 /\ input[mark + 1] = length
      BY <2>3, <2>8, <3>1
    <3>3. length \in 0 .. MaxLength
      BY <3>2, LengthIsNoLineEnd
    <3> QED BY <2>4, <2>8, <3>2, <3>3 DEF d
  <2>9. c = 0 \/ c = 1
    OBVIOUS
  <2> QED BY <1>3, <2>5, <2>6, <2>7, <2>8, <2>9
<1>5. CASE seen # -1 /\ mark = start + 6 /\ MessageAt(input, start, seen)
  <2>1. mark + 1 = start + 7 /\ mark + c + 2 >= mark + 1
    BY <1>1, <1>5
  <2>2. mark + 1 <= Len(input) => input[mark + 1] = CR
    BY <1>1, <1>5, <2>1, HeaderBytes
  <2>3. CASE d = mark + c + 2 /\ c = 0 /\ Stripped(out) = <<>>
    <3>1. d = start + 8 /\ Len(Heading(seen)) = 8
      BY <1>1, <1>5, <2>3, Composition
    <3> QED BY <1>5, <2>3, <3>1 DEF d
  <2>4. CASE d >= mark + 1 /\ input[mark + 1] \notin {CR, LF}
    <3>1. mark + 1 <= Len(input)
      BY <1>1, <1>2, <2>4
    <3> QED BY <2>2, <2>4, <3>1
  <2>5. CASE d = Len(input) /\ d = mark /\ Stripped(out) = <<>>
    <3>1. /\ Len(Message(seen)) = Len(Heading(seen)) + BodyLength(seen)
          /\ Len(Heading(seen)) = 8 /\ BodyLength(seen) \in Nat
      BY <1>1, <1>5, Composition
    <3>2. start < d /\ d <= start + Len(Message(seen))
      BY <1>1, <1>5, <2>5, <3>1
    <3>3. BrokenOff(d)
      BY <1>1, <1>5, <2>5, <3>2 DEF BrokenOff
    <3> QED BY <2>5, <3>3 DEF d
  <2>6. c = 0 \/ c = 1
    OBVIOUS
  <2>7. d = mark + 1 => d >= mark + 1
    BY <1>1
  <2> QED BY <1>3, <2>1, <2>3, <2>4, <2>5, <2>6, <2>7
<1>6. CASE BrokenOff(mark)
  <2>1. mark = Len(input)
    BY <1>6 DEF BrokenOff
  <2>2. d # mark + c + 2 /\ d # mark + 1
    BY <1>1, <1>2, <2>1
  <2>3. d = mark /\ Stripped(out) = <<>>
    BY <1>3, <2>2
  <2> QED BY <1>6, <2>3 DEF d
<1> QED BY <1>4, <1>5, <1>6

-----------------------------------------------------------------------------
(* Every step keeps the handler where it should be.                        *)

\* Nothing is said of the stream any more when the handler has done.
LEMMA HandlerIsDone ==
    ASSUME Aligned, UNCHANGED <<input, start, requests, error>>,
           pc' \in {"close_io", "closed", "threw"}
    PROVE  Aligned'
<1>1. Numbered'
  BY DEF Aligned, Numbered, MessagesIn
<1>2. Unrefused'
  BY DEF Aligned, Unrefused
<1> QED BY <1>1, <1>2 DEF Aligned, AtRequestLine, AtHeaders, AtBody

LEMMA CallReadLineKeeps ==
    ASSUME Typed, WellFormed(input), Aligned, CallReadLine
    PROVE  Aligned'
<1>1. /\ pc \in {"read_line", "headers"} /\ ~waiting /\ waiting' = TRUE
      /\ UNCHANGED <<input, delivered, pc, requests, error, start, seen>>
      /\ mark' = Len(delivered) /\ op' = "read_line" /\ out' = <<>>
  BY DEF CallReadLine, S!CallReadLine, S!Begin, S!reader, handler
<1>2. Place' = Place /\ Place \in Nat /\ mark' = Place /\ input \in Seq(Byte)
  BY <1>1, StreamLengths DEF Place, Typed, StreamHeld
<1>3. \A c \in {0, 1} : Reading(c)'
  BY <1>1, EmptySeq DEF Reading
<1>4. Numbered' /\ Unrefused' /\ AtBody'
  BY <1>1 DEF Aligned, Numbered, MessagesIn, Unrefused, AtBody
<1>5. AtRequestLine'
  BY <1>1, <1>2, <1>3 DEF Aligned, AtRequestLine, MessagesIn
<1>6. AtHeaders'
  <2> SUFFICES ASSUME pc = "headers" PROVE AtHeaders'
    BY <1>1 DEF AtHeaders
  <2>1. /\ requests > 0
        /\ \/ seen = -1 /\ Place = start + 3
           \/ seen # -1 /\ Place = start + 6 /\ MessageAt(input, start, seen)
           \/ BrokenOff(Place)
    BY DEF Aligned, AtHeaders
  <2>2. start < Len(input) /\ input[start + 1] = GET /\ start \in Nat /\ seen \in Lengths
    BY <2>1 DEF Aligned, Numbered, Typed, OwnTypes
  <2>3. PICK c \in {0, 1} : LineAt(Place, c)
    BY <1>2, <2>1, <2>2, HeaderLineAt
  <2>4. LineAt(mark, c)'
    BY <1>1, <1>2, <2>3 DEF LineAt
  <2>5. \/ seen' = -1 /\ Place' = start' + 3
        \/ seen' # -1 /\ Place' = start' + 6 /\ MessageAt(input', start', seen')
        \/ BrokenOff(Place)'
    BY <1>1, <1>2, <2>1 DEF BrokenOff
  <2> QED BY <1>1, <1>3, <2>1, <2>4, <2>5 DEF AtHeaders
<1> QED BY <1>4, <1>5, <1>6 DEF Aligned

LEMMA ReadLineKeepsPlace ==
    ASSUME Typed, WellFormed(input), Aligned, ReadLine, clean'
    PROVE  Aligned'
<1>1. /\ S!ReadLineTurn /\ ~Torn' /\ op = "read_line"
      /\ UNCHANGED <<pc, requests, error, start, seen, waiting>>
  BY DEF ReadLine, handler, S!ReadLineTurn, S!ReadLineStep, S!ReadLineEOF, S!ReadLineThrows
<1>2. waiting /\ pc \in {"read_line", "headers"} /\ Place = mark
  BY <1>1 DEF Typed, Calls, Place
<1>3. UNCHANGED <<input, mark>> /\ input \in Seq(Byte) /\ mark \in Nat
  BY <1>1, LineTurnHolds, StreamLengths DEF Typed, StreamHeld, StreamTypes
<1>4. Place' = Place
  BY <1>1, <1>2, <1>3 DEF Place
<1>5. Numbered' /\ Unrefused' /\ AtBody'
  BY <1>1, <1>2, <1>3 DEF Aligned, Numbered, MessagesIn, Unrefused, AtBody
<1>6. AtRequestLine'
  <2> SUFFICES ASSUME pc = "read_line" PROVE AtRequestLine'
    BY <1>1, <1>2 DEF AtRequestLine
  <2>1. /\ mark < Len(input) => input[mark + 1] = GET
        /\ MessagesIn(mark) = requests /\ Reading(1)
    BY <1>2 DEF Aligned, AtRequestLine
  <2>2. LineAt(mark, 1)
    BY <1>3, <2>1, RequestLineAt
  <2>3. Reading(1)'
    BY <1>1, <2>1, <2>2, LineIsRead DEF Typed
  <2> QED BY <1>1, <1>2, <1>3, <1>4, <2>1, <2>3 DEF AtRequestLine, MessagesIn
<1>7. AtHeaders'
  <2> SUFFICES ASSUME pc = "headers" PROVE AtHeaders'
    BY <1>1 DEF AtHeaders
  <2>1. PICK c \in {0, 1} : LineAt(mark, c) /\ Reading(c)
    BY <1>2 DEF Aligned, AtHeaders
  <2>2. Reading(c)' /\ LineAt(mark, c)'
    BY <1>1, <1>3, <2>1, LineIsRead DEF Typed, LineAt
  <2>3. \/ seen' = -1 /\ Place' = start' + 3
        \/ seen' # -1 /\ Place' = start' + 6 /\ MessageAt(input', start', seen')
        \/ BrokenOff(Place)'
    BY <1>1, <1>3, <1>4 DEF Aligned, AtHeaders, BrokenOff
  <2> QED BY <1>1, <2>2, <2>3 DEF Aligned, AtHeaders
<1> QED BY <1>5, <1>6, <1>7 DEF Aligned

LEMMA RequestLineKeepsPlace ==
    ASSUME Typed, WellFormed(input), Aligned, RequestLine
    PROVE  Aligned'
<1>1. /\ pc = "read_line" /\ Line /\ waiting /\ out # <<>> /\ waiting' = FALSE /\ seen' = -1 /\ start' = mark
      /\ UNCHANGED <<input, delivered>>
  BY DEF RequestLine, Line, stream
<1>2. /\ input \in Seq(Byte) /\ mark \in Nat /\ Len(input) \in Nat /\ requests \in Nat
      /\ Len(delivered) \in Nat
  BY StreamLengths DEF Typed, StreamHeld, StreamTypes, HandlerTypes
<1>3. /\ mark < Len(input) => input[mark + 1] = GET
      /\ MessagesIn(mark) = requests /\ Reading(1)
  BY <1>1 DEF Aligned, AtRequestLine, Place
<1>4. LineAt(mark, 1)
  BY <1>2, <1>3, RequestLineAt
<1>5. /\ Stripped(out) = <<input[mark + 1]>> /\ Len(delivered) <= Len(input)
      /\ \/ Len(delivered) = mark + 3
         \/ Len(delivered) = Len(input) /\ Len(delivered) = mark + 1
  <2>1. mark + 1 + 2 = mark + 3
    BY <1>2
  <2> QED BY <1>1, <1>3, <1>4, <2>1, LineTaken DEF Typed
<1>6. mark < Len(input)
  BY <1>2, <1>5
<1>7. Stripped(out) = <<GET>>
  BY <1>3, <1>5, <1>6
<1>8. Parsed(Stripped(out)) = {Good}
  BY <1>7 DEF Parsed
<1>9. H!RequestLine(Good)
  BY <1>8 DEF RequestLine
<1>10. pc' = "headers" /\ error' = 0 /\ requests' = requests + 1
  BY <1>9, GoodLine
<1>11. Numbered'
  BY <1>1, <1>2, <1>3, <1>6, <1>10 DEF Numbered, MessagesIn
<1>12. PICK length \in Lengths : MessageAt(input, mark, length)
  BY <1>2, <1>3, <1>6, MessageBegins
<1>13. Len(Message(length)) \in Nat /\ Len(Message(length)) >= 5
  BY MessageLength
<1>14. Place' = Len(delivered)
  BY <1>1 DEF Place
<1>15. AtHeaders'
  <2>1. CASE Len(delivered) = mark + 3
    BY <1>1, <1>2, <1>10, <1>14, <2>1 DEF AtHeaders
  <2>2. CASE Len(delivered) = Len(input) /\ Len(delivered) = mark + 1
    <3>1. mark < Len(delivered) /\ Len(delivered) <= mark + Len(Message(length))
      BY <1>2, <1>13, <2>2
    <3>2. BrokenOff(Place)'
      BY <1>1, <1>12, <1>14, <2>2, <3>1 DEF BrokenOff
    <3> QED BY <1>1, <1>2, <1>10, <3>2 DEF AtHeaders
  <2> QED BY <1>5, <2>1, <2>2
<1>16. Unrefused' /\ AtRequestLine' /\ AtBody'
  BY <1>10 DEF Unrefused, AtRequestLine, AtBody
<1> QED BY <1>11, <1>15, <1>16 DEF Aligned

LEMMA HeaderLineEvaluated ==
    ASSUME Typed, WellFormed(input), Aligned, pc = "headers", Line
    PROVE  /\ requests > 0 /\ start < Len(input) /\ input[start + 1] = GET
           /\ \/ /\ Stripped(out) = <<>>
                 /\ \/ /\ MessageAt(input, start, seen)
                       /\ Len(delivered) = start + Len(Heading(seen))
                    \/ BrokenOff(Len(delivered))
              \/ \E n \in 0 .. MaxLength :
                    /\ Stripped(out) = <<n>>
                    /\ \/ Len(delivered) = start + 6 /\ MessageAt(input, start, n)
                       \/ BrokenOff(Len(delivered))
<1>1. waiting /\ Place = mark
  BY DEF Line, Place
<1>2. requests > 0 /\ start < Len(input) /\ input[start + 1] = GET
  BY DEF Aligned, AtHeaders, Numbered
<1>3. \/ seen = -1 /\ mark = start + 3
      \/ seen # -1 /\ mark = start + 6 /\ MessageAt(input, start, seen)
      \/ BrokenOff(mark)
  BY <1>1 DEF Aligned, AtHeaders
<1>4. PICK c \in {0, 1} : LineAt(mark, c) /\ Reading(c)
  BY <1>1 DEF Aligned, AtHeaders
<1> QED BY <1>2, <1>3, <1>4, HeaderLine

LEMMA ContentLengthKeeps ==
    ASSUME Typed, WellFormed(input), Aligned, ContentLength
    PROVE  Aligned'
<1>1. /\ pc = "headers" /\ Line /\ waiting' = FALSE
      /\ UNCHANGED <<input, delivered, pc, requests, error, start>>
  BY DEF ContentLength, stream, handler
<1>2. PICK n \in 0 .. MaxLength : Stripped(out) = <<n>> /\ seen' = n
  BY DEF ContentLength
<1>3. /\ requests > 0
      /\ \/ Len(delivered) = start + 6 /\ MessageAt(input, start, n)
         \/ BrokenOff(Len(delivered))
  <2>1. Stripped(out) # <<>>
    BY <1>2
  <2>2. \A k \in 0 .. MaxLength : Stripped(out) = <<k>> => k = n
    BY <1>2
  <2> QED BY <1>1, <2>1, <2>2, HeaderLineEvaluated
<1>4. Place' = Len(delivered) /\ seen' # -1
  BY <1>1, <1>2, ByteAssumption DEF Place
<1>5. AtHeaders'
  <2>1. BrokenOff(Len(delivered)) => BrokenOff(Place)'
    BY <1>1, <1>4 DEF BrokenOff
  <2> QED BY <1>1, <1>2, <1>3, <1>4, <2>1 DEF AtHeaders
<1>6. Numbered' /\ Unrefused'
  BY <1>1 DEF Aligned, Numbered, MessagesIn, Unrefused
<1>7. AtRequestLine' /\ AtBody'
  BY <1>1 DEF AtRequestLine, AtBody
<1> QED BY <1>5, <1>6, <1>7 DEF Aligned

LEMMA HeadersEndKeeps ==
    ASSUME Typed, WellFormed(input), Aligned, HeadersEnd, clean'
    PROVE  Aligned'
<1>1. /\ pc = "headers" /\ Line /\ Stripped(out) = <<>> /\ waiting' = FALSE
      /\ UNCHANGED <<input, delivered, start, seen>>
  BY DEF HeadersEnd, stream
<1>2. pc' = "examine" /\ UNCHANGED <<requests, error>>
  BY HeadersReadTypes DEF HeadersEnd, Typed
<1>3. contentLength' = BodyLength(seen)
  BY DEF HeadersEnd, BodyLength
<1>4. /\ requests > 0
      /\ \/ MessageAt(input, start, seen) /\ Len(delivered) = start + Len(Heading(seen))
         \/ BrokenOff(Len(delivered))
  <2>1. \A n \in 0 .. MaxLength : Stripped(out) # <<n>>
    BY <1>1
  <2> QED BY <1>1, <2>1, HeaderLineEvaluated
<1>5. InBody(contentLength)'
  <2>1. /\ Len(Heading(seen)) \in Nat /\ start \in Nat /\ BodyLength(seen) \in Nat
    BY MessageLength DEF Typed, OwnTypes
  <2>2. start + Len(Heading(seen)) = start + Len(Heading(seen)) + (BodyLength(seen) - BodyLength(seen))
    BY <2>1
  <2>3. BrokenOff(Len(delivered)) => BrokenOff(Len(delivered))'
    BY <1>1 DEF BrokenOff
  <2> QED BY <1>1, <1>2, <1>3, <1>4, <2>2, <2>3 DEF InBody
<1>6. Numbered' /\ Unrefused'
  BY <1>1, <1>2 DEF Aligned, Numbered, MessagesIn, Unrefused
<1> QED BY <1>2, <1>5, <1>6 DEF Aligned, AtRequestLine, AtHeaders, AtBody

LEMMA CallHandlerKeeps ==
    ASSUME Typed, Aligned, CallHandler
    PROVE  Aligned'
<1>1. /\ pc = "examine" /\ pc' = "handler" /\ remaining' = BodyWanted /\ content' = <<>>
      /\ UNCHANGED <<input, delivered, start, seen, contentLength, requests, error, application>>
  BY DEF CallHandler, H!CallHandler, stream
<1>2. InBody(contentLength) /\ contentLength \in Nat /\ BodyWanted \in Nat
  BY <1>1, WantedIsBound DEF Aligned, AtBody, Typed
<1>3. Left' = contentLength /\ Len(content') = 0
  BY <1>1, <1>2, EmptySeq DEF Left
<1>4. InBody(Left)'
  <2>1. BrokenOff(Len(delivered)) => BrokenOff(Len(delivered))'
    BY <1>1 DEF BrokenOff
  <2> QED BY <1>1, <1>2, <1>3, <2>1 DEF InBody
<1>5. Len(content') + remaining' = BodyWanted'
  <2>1. BodyWanted' = BodyWanted
    BY <1>1 DEF BodyWanted, ContentSize
  <2> QED BY <1>1, <1>2, <1>3, <2>1
<1>6. \A i \in 1 .. Len(content') : content'[i] = Data
  BY <1>3
<1>7. Numbered' /\ Unrefused'
  BY <1>1 DEF Aligned, Numbered, MessagesIn, Unrefused
<1> QED BY <1>1, <1>4, <1>5, <1>6, <1>7 DEF Aligned, AtRequestLine, AtHeaders, AtBody

\* What has been read of a body is data, and so is what follows.
LEMMA InsideBody ==
    ASSUME Typed, Aligned, pc = "handler", Len(delivered) < Len(input)
    PROVE  /\ MessageAt(input, start, seen) /\ contentLength = BodyLength(seen)
           /\ Len(delivered) = start + Len(Heading(seen)) + (contentLength - Left)
           /\ \A k \in 1 .. Left :
                 Len(delivered) + k <= Len(input) => input[Len(delivered) + k] = Data
           /\ Left = 0 => input[Len(delivered) + 1] = GET
<1>1. InBody(Left) /\ Left \in Nat /\ Left <= contentLength
  <2>1. InBody(Left) /\ Len(content) + remaining = BodyWanted
    BY DEF Aligned, AtBody
  <2> QED BY <2>1, WantedIsBound DEF Typed, Left
<1>2. ~BrokenOff(Len(delivered))
  BY StreamLengths DEF BrokenOff, Typed, StreamHeld
<1>3. /\ MessageAt(input, start, seen) /\ contentLength = BodyLength(seen)
      /\ Len(delivered) = start + Len(Heading(seen)) + (contentLength - Left)
  BY <1>1, <1>2 DEF InBody
<1>4. input \in Seq(Byte) /\ start \in Nat /\ seen \in Lengths
  BY StreamLengths, ByteAssumption DEF Typed, OwnTypes, StreamHeld
<1>5. Left \in 0 .. BodyLength(seen)
  <2>1. BodyLength(seen) \in Nat
    BY <1>4, MessageLength
  <2> QED BY <1>1, <1>3, <2>1
<1>6. Len(delivered) = start + Len(Heading(seen)) + (BodyLength(seen) - Left)
  BY <1>3
<1>7. /\ \A k \in 1 .. Left :
            Len(delivered) + k <= Len(input) => input[Len(delivered) + k] = Data
      /\ Left = 0 /\ Len(delivered) < Len(input) => input[Len(delivered) + 1] = GET
  BY <1>3, <1>4, <1>5, <1>6, BehindBody
<1> QED BY <1>3, <1>7

LEMMA ReadBodyKeeps ==
    ASSUME Typed, Aligned, ReadBody
    PROVE  Aligned'
<1> DEFINE d == Len(delivered)
           k == Len(out')
<1>1. /\ pc = "handler" /\ remaining > 0 /\ S!Read(remaining)
      /\ content' = content \o out' /\ remaining' = remaining - k
      /\ UNCHANGED <<pc, requests, error, waiting, seen, contentLength, start, application>>
  BY DEF ReadBody, handler
<1>2. /\ remaining \in Nat /\ content \in Seq(Byte) /\ start \in Nat /\ seen \in Lengths
      /\ contentLength \in Nat /\ Len(content) \in Nat
  BY LenProperties, ByteAssumption DEF Typed, OwnTypes
<1>3. /\ StreamHeld' /\ input' = input /\ mark' = d /\ k \in 0 .. remaining
      /\ Len(delivered') = d + k
      /\ buffer # <<>> \/ unread # <<>>
  BY <1>1, <1>2, ReadHolds DEF Typed
<1>4. /\ d \in Nat /\ Len(input) \in Nat /\ Len(buffer) \in Nat /\ Len(unread) \in Nat
      /\ d + Len(buffer) + Len(unread) = Len(input)
      /\ buffer \in Seq(Byte) /\ unread \in Seq(Byte)
  BY StreamLengths DEF Typed, StreamHeld, StreamTypes, AtHand
<1>5. d < Len(input)
  <2>1. Len(buffer) > 0 \/ Len(unread) > 0
    BY <1>3, <1>4, EmptySeq
  <2> QED BY <1>4, <2>1
<1>6. /\ MessageAt(input, start, seen) /\ contentLength = BodyLength(seen)
      /\ d = start + Len(Heading(seen)) + (contentLength - Left)
      /\ \A j \in 1 .. Left : d + j <= Len(input) => input[d + j] = Data
  BY <1>1, <1>5, InsideBody
<1>7. requests > 0 /\ Len(content) + remaining = BodyWanted
      /\ \A i \in 1 .. Len(content) : content[i] = Data
  BY <1>1 DEF Aligned, AtBody, InBody
\* An application that reads wants the body.
<1>7a. Left = remaining /\ BodyWanted' = BodyWanted
  <2>1. BodyWanted \in {0, contentLength} /\ Len(content) + remaining = BodyWanted
    BY <1>7, WantedIsBound DEF Typed
  <2>2. BodyWanted = contentLength
    BY <1>1, <1>2, <2>1
  <2> QED BY <1>1, <1>2, <2>1, <2>2 DEF Left, BodyWanted, ContentSize
<1>8. out' \in Seq(Byte) /\ d + k <= Len(input)
  <2>1. /\ Len(delivered') \in Nat /\ Len(buffer') \in Nat /\ Len(unread') \in Nat
        /\ Len(delivered') + Len(buffer') + Len(unread') = Len(input')
        /\ out' \in Seq(Byte)
    BY <1>3, LenProperties DEF StreamHeld, StreamTypes, AtHand
  <2>2. Len(input') = Len(input) /\ Len(delivered') = d + k
    BY <1>3
  <2> HIDE DEF d, k
  <2>3. d + k <= Len(input)
    BY <2>1, <2>2, <1>4
  <2> QED BY <2>1, <2>3
<1>9. \A i \in 1 .. k : out'[i] = input[d + i]
  BY <1>3 DEF StreamHeld, TakenOff
<1> HIDE DEF d, k
<1>10. \A i \in 1 .. k : out'[i] = Data
  <2> TAKE i \in 1 .. k
  <2>1. i \in 1 .. Left /\ d + i <= Len(input)
    BY <1>2, <1>3, <1>4, <1>8, <1>7a
  <2> QED BY <2>1, <1>6, <1>9
<1>11. /\ Len(content') = Len(content) + k
       /\ \A i \in 1 .. Len(content) + k :
             content'[i] = IF i <= Len(content) THEN content[i] ELSE out'[i - Len(content)]
  BY <1>1, <1>2, <1>8, ConcatProperties DEF k
<1>12. \A i \in 1 .. Len(content') : content'[i] = Data
  <2> TAKE i \in 1 .. Len(content')
  <2>1. i \in 1 .. Len(content) + k
    BY <1>11
  <2>2. CASE i <= Len(content)
    <3>1. i \in 1 .. Len(content)
      BY <2>1, <2>2, <1>2
    <3> QED BY <2>1, <2>2, <3>1, <1>7, <1>11
  <2>3. CASE ~(i <= Len(content))
    <3>1. i - Len(content) \in 1 .. k
      BY <2>1, <2>3, <1>2, <1>3
    <3> QED BY <2>1, <2>3, <3>1, <1>10, <1>11
  <2> QED BY <2>2, <2>3
<1>13. remaining' = remaining - k /\ k \in Nat /\ contentLength' = contentLength
  <2>1. remaining' = remaining - k /\ contentLength' = contentLength
    BY <1>1 DEF k
  <2>2. k \in Nat
    BY <1>2, <1>3
  <2> QED BY <2>1, <2>2
<1>14. Len(content') + remaining' = BodyWanted' /\ Left' = Left - k
  <2>1. Len(content') = Len(content) + k /\ Len(content) + remaining = BodyWanted
    BY <1>7, <1>11
  <2> QED BY <1>2, <1>13, <1>7a, <2>1 DEF Left
<1>15. Len(delivered') = start + Len(Heading(seen)) + (contentLength - Left')
  <2>1. Len(Heading(seen)) \in Nat
    BY <1>2, MessageLength
  <2>2. /\ Len(delivered') = d + k
        /\ d = start + Len(Heading(seen)) + (contentLength - Left)
    BY <1>3, <1>6
  <2>3. Left \in Nat
    BY <1>2, <1>7a
  <2> QED BY <1>2, <1>13, <1>14, <2>1, <2>2, <2>3
<1>16. InBody(Left)'
  BY <1>1, <1>3, <1>6, <1>7, <1>15 DEF InBody
<1>17. Numbered' /\ Unrefused'
  BY <1>1, <1>3 DEF Aligned, Numbered, MessagesIn, Unrefused
<1> QED BY <1>1, <1>12, <1>14, <1>16, <1>17 DEF Aligned, AtRequestLine, AtHeaders, AtBody

LEMMA ReadBodyStopsKeeps ==
    ASSUME Typed, Aligned, ReadBodyEOF \/ ReadBodyThrows
    PROVE  Aligned'
<1>1. /\ pc = "handler" /\ remaining \in Nat /\ S!ReadEnds(remaining) /\ UNCHANGED own
      /\ UNCHANGED handler \/ H!HandlerThrows
  BY ByteAssumption DEF ReadBodyEOF, ReadBodyThrows, Typed, OwnTypes
<1>2. UNCHANGED <<input, delivered>>
  BY <1>1, ReadEndsHolds DEF Typed
<1>3. UNCHANGED <<application, waiting, seen, contentLength, remaining, content, start>>
  BY <1>1 DEF own
<1>4. CASE UNCHANGED handler
  <2>1. UNCHANGED <<pc, requests, error>>
    BY <1>4 DEF handler
  <2>2. Numbered' /\ Unrefused'
    BY <1>2, <1>3, <2>1 DEF Aligned, Numbered, MessagesIn, Unrefused
  <2>3. InBody(Left)'
    <3>1. BrokenOff(Len(delivered)) => BrokenOff(Len(delivered))'
      BY <1>2, <1>3 DEF BrokenOff
    <3> QED BY <1>1, <1>2, <1>3, <2>1, <3>1 DEF Aligned, AtBody, InBody, Left
  <2>4. BodyWanted' = BodyWanted
    BY <1>3 DEF BodyWanted, ContentSize
  <2> QED BY <1>1, <1>3, <2>1, <2>2, <2>3, <2>4 DEF Aligned, AtRequestLine, AtHeaders, AtBody
<1>5. CASE H!HandlerThrows
  BY <1>2, <1>3, <1>5, HandlerIsDone DEF H!HandlerThrows
<1> QED BY <1>1, <1>4, <1>5

\* Behind a body that was read to its end the next message begins.
LEMMA HandlerReturnsKeeps ==
    ASSUME Typed, Aligned, HandlerReturns, clean'
    PROVE  Aligned'
<1>1. /\ pc = "handler" /\ Left = 0 /\ pc' \in {"close_io", "read_line"}
      /\ UNCHANGED <<input, delivered, waiting, start, requests, error>>
  <2>1. Len(content) = contentLength
    BY DEF HandlerReturns
  <2>2. contentLength \in Nat
    BY WantedIsBound DEF Typed
  <2> QED BY <2>1, <2>2 DEF HandlerReturns, H!HandlerReturns, H!Return, stream, Left
<1>2. CASE pc' = "close_io"
  BY <1>1, <1>2, HandlerIsDone
<1>3. CASE pc' = "read_line"
  <2>1. ~waiting /\ Place' = Len(delivered)
    BY <1>1 DEF Typed, Calls, OwnTypes, Place
  <2>2. /\ input \in Seq(Byte) /\ Len(input) \in Nat /\ Len(delivered) \in Nat
        /\ start \in Nat /\ seen \in Lengths /\ requests \in Nat
        /\ Len(delivered) <= Len(input)
    <3>1. Len(delivered) + Len(buffer) + Len(unread) = Len(input)
      BY DEF Typed, StreamHeld, AtHand
    <3>2. /\ Len(buffer) \in Nat /\ Len(unread) \in Nat /\ Len(delivered) \in Nat
          /\ Len(input) \in Nat /\ input \in Seq(Byte)
      BY StreamLengths DEF Typed, StreamHeld
    <3> QED BY <3>1, <3>2 DEF Typed, OwnTypes, HandlerTypes
  <2>3. requests > 0 /\ InBody(Left)
    BY <1>1 DEF Aligned, AtBody, InBody
  <2>4. start < Len(input) /\ input[start + 1] = GET /\ MessagesIn(start) = requests - 1
    BY <2>3 DEF Aligned, Numbered
  <2>5. Len(delivered) < Len(input) => input[Len(delivered) + 1] = GET
    BY <1>1, InsideBody
  <2>6. \E length \in Lengths :
           /\ MessageAt(input, start, length)
           /\ start < Len(delivered) /\ Len(delivered) <= start + Len(Message(length))
    <3>1. CASE BrokenOff(Len(delivered))
      BY <3>1 DEF BrokenOff
    <3>2. CASE ~BrokenOff(Len(delivered))
      <4>1. /\ MessageAt(input, start, seen)
            /\ Len(delivered) = start + Len(Heading(seen)) + (BodyLength(seen) - 0)
        BY <1>1, <2>3, <3>2 DEF InBody
      <4>2. 0 \in 0 .. BodyLength(seen)
        BY <2>2, MessageLength
      <4> QED BY <2>2, <4>1, <4>2, BehindBody
    <3> QED BY <3>1, <3>2
  <2>7. MessagesIn(Len(delivered)) = MessagesIn(start) + 1
    BY <2>2, <2>4, <2>6, WithinMessage
  <2>8. MessagesIn(Len(delivered)) = requests
    BY <2>2, <2>4, <2>7
  <2>9. Numbered' /\ Unrefused'
    BY <1>1, <1>3 DEF Aligned, Numbered, MessagesIn, Unrefused
  <2>10. AtRequestLine'
    BY <1>1, <2>1, <2>5, <2>8 DEF AtRequestLine, MessagesIn
  <2> QED BY <1>3, <2>9, <2>10 DEF Aligned, AtHeaders, AtBody
<1> QED BY <1>1, <1>2, <1>3

LEMMA ElsewhereKeeps ==
    ASSUME Typed, Aligned, HandlerThrows \/ Elsewhere
    PROVE  Aligned'
<1>1. /\ UNCHANGED <<stream, own>>
      /\ H!HandlerThrows \/ H!Handle \/ H!SendErrorBody \/ H!CloseIO
  BY DEF HandlerThrows, Elsewhere, Alone
<1>2. UNCHANGED <<input, delivered, mark, op, ret, out, waiting, start, seen>>
  BY <1>1 DEF stream, own
<1>3. CASE H!HandlerThrows \/ H!CloseIO
  BY <1>2, <1>3, HandlerIsDone DEF H!HandlerThrows, H!CloseIO
<1>4. CASE H!SendErrorBody
  BY <1>4 DEF H!SendErrorBody, Aligned, Unrefused
<1>5. CASE H!Handle
  <2>1. pc = "begin" /\ pc' = "read_line" /\ UNCHANGED <<requests, error>>
    BY <1>5 DEF H!Handle
  <2>2. ~waiting /\ Place' = Place
    BY <1>2, <2>1 DEF Typed, Calls, Place
  <2>3. Numbered' /\ Unrefused'
    BY <1>2, <2>1 DEF Aligned, Numbered, MessagesIn, Unrefused
  <2>4. AtRequestLine'
    BY <1>2, <2>1, <2>2 DEF Aligned, AtRequestLine, MessagesIn
  <2> QED BY <2>1, <2>3, <2>4 DEF Aligned, AtHeaders, AtBody
<1> QED BY <1>1, <1>3, <1>4, <1>5

-----------------------------------------------------------------------------
(* Framing holds.                                                          *)

\* What once was framed wrongly stays so, and the stream is what was sent.
LEMMA StaysClean ==
    ASSUME Typed, [Next]_vars
    PROVE  UNCHANGED input /\ (clean' => clean)
<1>1. CASE CallReadLine
  BY <1>1 DEF CallReadLine, S!CallReadLine, S!Begin, S!reader
<1>2. CASE ReadLine
  <2>1. UNCHANGED input
    BY <1>2, LineTurnHolds DEF ReadLine, Typed
  <2> QED BY <1>2, <2>1 DEF ReadLine
<1>3. CASE RequestLine \/ NoRequestLine \/ ContentLength \/ OtherHeader \/ HeadersFail
  BY <1>3 DEF RequestLine, NoRequestLine, ContentLength, OtherHeader, HeadersFail, stream
<1>4. CASE HeadersEnd \/ CallHandler \/ HandlerReturns
  <2>1. UNCHANGED input
    BY <1>4 DEF HeadersEnd, CallHandler, HandlerReturns, stream
  <2>2. clean' => clean
    <3>1. CASE HeadersEnd
      BY <3>1 DEF HeadersEnd
    <3>2. CASE CallHandler \/ HandlerReturns
      BY <3>2 DEF CallHandler, HandlerReturns
    <3> QED BY <1>4, <3>1, <3>2
  <2> QED BY <2>1, <2>2
<1>5. CASE ReadBody
  <2>1. remaining \in Nat
    BY ByteAssumption DEF Typed, OwnTypes
  <2> QED BY <1>5, <2>1, ReadHolds DEF ReadBody, Typed
<1>6. CASE ReadBodyEOF \/ ReadBodyThrows
  <2>1. remaining \in Nat
    BY ByteAssumption DEF Typed, OwnTypes
  <2> QED BY <1>6, <2>1, ReadEndsHolds DEF ReadBodyEOF, ReadBodyThrows, Typed, own
<1>7. CASE HandlerThrows \/ Elsewhere
  BY <1>7 DEF HandlerThrows, Elsewhere, Alone, stream, own
<1>8. CASE UNCHANGED vars
  BY <1>8 DEF vars, stream, own
<1> QED BY <1>1, <1>2, <1>3, <1>4, <1>5, <1>6, <1>7, <1>8 DEF Next, Works

LEMMA InitFramed == Init => Framed
<1> SUFFICES ASSUME Init, WellFormed(input) PROVE Aligned
  BY DEF Framed
<1>1. /\ pc = "begin" /\ error = 0 /\ requests = 0 /\ delivered = <<>> /\ ~waiting
      /\ input \in Seq(Byte)
  BY InitBoth, InputAssumption DEF Init, H!Init, S!Init
<1>2. Place = 0
  BY <1>1, EmptySeq DEF Place
<1>3. MessagesIn(0) = 0
  <2>1. {i \in 1 .. 0 : input[i] = GET} = {}
    OBVIOUS
  <2> QED BY <2>1, FS_EmptySet DEF MessagesIn
<1>4. 0 < Len(input) => input[1] = GET
  BY <1>1, EmptySeq DEF WellFormed
<1>5. AtRequestLine
  BY <1>1, <1>2, <1>3, <1>4 DEF AtRequestLine
<1> QED BY <1>1, <1>5 DEF Aligned, Numbered, Unrefused, AtHeaders, AtBody

LEMMA StutterKeeps ==
    ASSUME Aligned, UNCHANGED vars
    PROVE  Aligned'
<1>1. /\ UNCHANGED <<pc, error, requests, input, out, op, ret, delivered, mark, application>>
      /\ UNCHANGED <<waiting, seen, contentLength, remaining, content, start>>
  BY DEF vars, handler, stream, own
<1>2. Numbered' /\ Unrefused'
  BY <1>1 DEF Aligned, Numbered, MessagesIn, Unrefused
<1>3. AtRequestLine'
  BY <1>1 DEF Aligned, AtRequestLine, MessagesIn, Place, Reading
<1>4. AtHeaders'
  BY <1>1 DEF Aligned, AtHeaders, Place, BrokenOff, LineAt, Reading
<1>5. AtBody'
  BY <1>1 DEF Aligned, AtBody, InBody, BrokenOff, Left, BodyWanted, ContentSize
<1> QED BY <1>2, <1>3, <1>4, <1>5 DEF Aligned

LEMMA StepFramed == IInv /\ [Next]_vars => Framed'
<1> SUFFICES ASSUME Typed, Framed, [Next]_vars, WellFormed(input)', clean'
             PROVE  Aligned'
  BY DEF IInv, Framed
<1>1. WellFormed(input) /\ Aligned
  BY StaysClean DEF Framed
<1>2. CASE CallReadLine
  BY <1>1, <1>2, CallReadLineKeeps
<1>3. CASE ReadLine
  BY <1>1, <1>3, ReadLineKeepsPlace
<1>4. CASE RequestLine
  BY <1>1, <1>4, RequestLineKeepsPlace
<1>5. CASE NoRequestLine
  BY <1>1, <1>5, ReturnTypes, HandlerIsDone
     DEF NoRequestLine, H!ReadLineFails, Typed, HandlerTypes, stream
<1>6. CASE ContentLength
  BY <1>1, <1>6, ContentLengthKeeps
\* There is no other header.
<1>7. CASE OtherHeader
  <2>1. Stripped(out) = <<>> \/ \E n \in 0 .. MaxLength : Stripped(out) = <<n>>
    BY <1>1, <1>7, HeaderLineEvaluated DEF OtherHeader
  <2> QED BY <1>7, <2>1 DEF OtherHeader
<1>8. CASE HeadersEnd
  BY <1>1, <1>8, HeadersEndKeeps
<1>9. CASE HeadersFail
  BY <1>1, <1>9, ReturnTypes, HandlerIsDone
     DEF HeadersFail, H!HeadersFail, Typed, HandlerTypes, stream
<1>10. CASE CallHandler
  BY <1>1, <1>10, CallHandlerKeeps
<1>11. CASE ReadBody
  BY <1>1, <1>11, ReadBodyKeeps
<1>12. CASE ReadBodyEOF \/ ReadBodyThrows
  BY <1>1, <1>12, ReadBodyStopsKeeps
<1>13. CASE HandlerReturns
  BY <1>1, <1>13, HandlerReturnsKeeps
<1>14. CASE HandlerThrows \/ Elsewhere
  BY <1>1, <1>14, ElsewhereKeeps
<1>15. CASE UNCHANGED vars
  BY <1>1, <1>15, StutterKeeps
<1> QED BY <1>2, <1>3, <1>4, <1>5, <1>6, <1>7, <1>8, <1>9, <1>10,
           <1>11, <1>12, <1>13, <1>14, <1>15 DEF Next, Works

LEMMA Invariance == Spec => []IInv
<1>1. Init => IInv
  BY InitTyped, InitFramed DEF IInv
<1>2. IInv /\ [Next]_vars => IInv'
  BY StepTyped, StepFramed DEF IInv
<1> QED BY <1>1, <1>2, PTL DEF Spec

-----------------------------------------------------------------------------
(* What follows of it.                                                     *)

\* In a conversation the variables of the handler, of the stream and of the
\* application hold what their declarations in the source can hold.
THEOREM ConversationTypes == Spec => []TypeOK
<1>1. IInv => TypeOK
  BY TypedSuffices DEF IInv
<1> QED BY <1>1, Invariance, PTL

LEMMA FramedRequests == IInv => RequestsAreFramed
<1> SUFFICES ASSUME IInv, WellFormed(input), clean, requests > 0
             PROVE  /\ error = 0 /\ input[start + 1] = GET
                    /\ Cardinality({i \in 1 .. start : input[i] = GET}) = requests - 1
  BY DEF RequestsAreFramed
<1>1. Numbered /\ Unrefused
  BY DEF IInv, Framed, Aligned
<1> QED BY <1>1 DEF Numbered, Unrefused, MessagesIn

\* However the bytes of a well-formed stream arrive, the n-th request line
\* that handle_one_request() reads is the beginning of the n-th message, and
\* no request is answered with an error, unless a CRLF was cut in two, a body
\* was not read to its end, or a Content-Length was left over.
THEOREM RequestsFramed == Spec => []RequestsAreFramed
  BY FramedRequests, Invariance, PTL

LEMMA OwnBodies == IInv => BodyIsOwn
<1> SUFFICES ASSUME IInv, WellFormed(input), clean, pc = "handler"
             PROVE  /\ Len(content) + remaining = BodyWanted
                    /\ \A i \in 1 .. Len(content) : content[i] = Data
                    /\ LET rest == buffer \o unread IN
                          rest # <<>> =>
                             rest[1] = (IF Len(content) = contentLength THEN GET ELSE Data)
  BY DEF BodyIsOwn
<1> DEFINE d == Len(delivered)
           rest == buffer \o unread
<1>1. Typed /\ Aligned
  BY DEF IInv, Framed
<1>2. /\ Len(content) + remaining = BodyWanted
      /\ \A i \in 1 .. Len(content) : content[i] = Data
      /\ Left \in Nat /\ contentLength \in Nat /\ Len(content) \in Nat
  BY <1>1, WantedIsBound DEF Aligned, AtBody, Typed
<1>3. /\ d \in Nat /\ Len(input) \in Nat /\ Len(buffer) \in Nat /\ Len(unread) \in Nat
      /\ buffer \in Seq(Byte) /\ unread \in Seq(Byte)
      /\ d + Len(buffer) + Len(unread) = Len(input)
  BY <1>1, StreamLengths DEF Typed, StreamHeld, StreamTypes, AtHand
<1>4. /\ \A i \in 1 .. Len(buffer) : buffer[i] = input[d + i]
      /\ \A i \in 1 .. Len(unread) : unread[i] = input[d + Len(buffer) + i]
  BY <1>1, Zenon DEF Typed, StreamHeld, AtHand
<1> HIDE DEF d
<1>5. ASSUME rest # <<>>
      PROVE  d < Len(input) /\ rest[1] = input[d + 1]
  <2>1. CASE buffer # <<>>
    <3>1. Len(buffer) > 0
      BY <1>3, <2>1, EmptySeq
    <3>2. 1 \in 1 .. Len(buffer) /\ d < Len(input)
      BY <1>3, <3>1
    <3>3. rest[1] = buffer[1]
      BY <1>3, <3>2, ConcatProperties
    <3> QED BY <1>4, <3>2, <3>3
  <2>2. CASE buffer = <<>>
    <3>1. Len(buffer) = 0 /\ rest = unread
      BY <1>3, <2>2, EmptySeq, ConcatProperties
    <3>2. Len(unread) > 0
      BY <1>3, <1>5, <3>1, EmptySeq
    <3>3. 1 \in 1 .. Len(unread) /\ d < Len(input) /\ d + Len(buffer) + 1 = d + 1
      BY <1>3, <3>1, <3>2
    <3> QED BY <1>4, <3>1, <3>3
  <2> QED BY <2>1, <2>2
<1>6. ASSUME d < Len(input)
      PROVE  input[d + 1] = (IF Len(content) = contentLength THEN GET ELSE Data)
  <2>1. /\ \A k \in 1 .. Left : d + k <= Len(input) => input[d + k] = Data
        /\ Left = 0 => input[d + 1] = GET
    BY <1>1, <1>6, InsideBody DEF d
  <2>2. CASE Len(content) = contentLength
    BY <1>2, <2>1, <2>2 DEF Left
  <2>3. CASE Len(content) # contentLength
    <3>1. Left # 0
      BY <1>2, <2>3 DEF Left
    <3>2. 1 \in 1 .. Left /\ d + 1 <= Len(input)
      BY <1>2, <1>3, <1>6, <3>1
    <3> QED BY <2>1, <2>3, <3>2
  <2> QED BY <2>2, <2>3
<1> QED BY <1>2, <1>5, <1>6

\* What the application reads is the body of the request it is called for and
\* no byte of the next message, and once it has read as much as the headers
\* say the next message comes: framing is not lost through the buffer that
\* line and body are both read from.
THEOREM BodiesAreOwn == Spec => []BodyIsOwn
  BY OwnBodies, Invariance, PTL

-----------------------------------------------------------------------------
(* A body that is cut off.                                                 *)

\* What the application has read and what it still asks for.
Told == pc = "handler" => Len(content) + remaining = BodyWanted

LEMMA ReadBodyCounts ==
    ASSUME Typed, Told, ReadBody
    PROVE  /\ Told' /\ StreamHeld' /\ UNCHANGED <<pc, application, contentLength>>
           /\ Len(content') + Len(buffer') + Len(unread') =
                 Len(content) + Len(buffer) + Len(unread)
<1>1. /\ pc = "handler" /\ S!Read(remaining)
      /\ content' = content \o out' /\ remaining' = remaining - Len(out')
      /\ UNCHANGED <<pc, application, contentLength>>
  BY DEF ReadBody, handler
<1>2. /\ remaining \in Nat /\ content \in Seq(Byte) /\ Len(content) \in Nat
      /\ Len(content) + remaining = BodyWanted /\ contentLength \in Nat
      /\ BodyWanted' = BodyWanted
  BY <1>1, WantedIsBound DEF Typed, OwnTypes, Told, BodyWanted, ContentSize
<1>3. /\ StreamHeld' /\ Len(input') = Len(input) /\ Len(out') \in Nat
      /\ Len(delivered') = Len(delivered) + Len(out')
  BY <1>1, <1>2, ReadHolds DEF Typed
<1>4. Len(content') = Len(content) + Len(out')
  <2>1. out' \in Seq(Byte)
    BY <1>3 DEF StreamHeld, StreamTypes
  <2> QED BY <1>1, <1>2, <2>1, ConcatProperties
<1>5. Told'
  BY <1>1, <1>2, <1>3, <1>4 DEF Told
<1>6. /\ Len(delivered) + Len(buffer) + Len(unread) = Len(input)
      /\ Len(delivered') + Len(buffer') + Len(unread') = Len(input')
  BY <1>3 DEF Typed, StreamHeld, AtHand
<1>7. /\ Len(delivered) \in Nat /\ Len(buffer) \in Nat /\ Len(unread) \in Nat
      /\ Len(buffer') \in Nat /\ Len(unread') \in Nat
  BY <1>3, StreamLengths, LenProperties DEF Typed, StreamHeld, StreamTypes
<1>8. Len(content') + Len(buffer') + Len(unread') = Len(content) + Len(buffer) + Len(unread)
  BY <1>2, <1>3, <1>4, <1>6, <1>7
<1> QED BY <1>1, <1>3, <1>5, <1>8

LEMMA StepTold == Typed /\ Told /\ [Next]_vars => Told'
<1> SUFFICES ASSUME Typed, Told, [Next]_vars, pc' = "handler"
             PROVE  Told'
  BY DEF Told
<1>1. ASSUME UNCHANGED <<pc, application, contentLength, remaining, content>>
      PROVE  Told'
  BY <1>1 DEF Told, BodyWanted, ContentSize
<1>2. CASE CallReadLine \/ ReadLine \/ ContentLength
  BY <1>1, <1>2 DEF CallReadLine, ReadLine, ContentLength, handler
<1>3. CASE RequestLine
  <2>1. PICK r \in Requests : H!RequestLine(r)
    BY <1>3, ParsedLines DEF RequestLine
  <2> QED BY <2>1, RequestLineTypes DEF Typed
<1>4. CASE NoRequestLine
  BY <1>4 DEF NoRequestLine, H!ReadLineFails, H!Return
<1>5. CASE OtherHeader
  BY <1>1, <1>5 DEF OtherHeader, H!HeadersMalformed, H!Return, handler
<1>6. CASE HeadersEnd
  BY <1>6, HeadersReadTypes DEF HeadersEnd, Typed
<1>7. CASE HeadersFail
  BY <1>7 DEF HeadersFail, H!HeadersFail, H!Return
<1>8. CASE CallHandler
  <2>1. /\ remaining' = BodyWanted /\ Len(content') = 0
        /\ UNCHANGED <<application, contentLength>>
    BY <1>8, EmptySeq DEF CallHandler
  <2>2. BodyWanted' = BodyWanted
    BY <2>1 DEF BodyWanted, ContentSize
  <2>3. BodyWanted \in Nat
    BY WantedIsBound DEF Typed
  <2> QED BY <2>1, <2>2, <2>3 DEF Told
<1>9. CASE ReadBody
  BY <1>9, ReadBodyCounts
<1>10. CASE ReadBodyEOF
  BY <1>1, <1>10 DEF ReadBodyEOF, handler, own
<1>11. CASE ReadBodyThrows
  BY <1>11 DEF ReadBodyThrows, H!HandlerThrows
<1>12. CASE HandlerReturns
  BY <1>12 DEF HandlerReturns, H!HandlerReturns, H!Return
<1>13. CASE HandlerThrows \/ Elsewhere
  BY <1>13 DEF HandlerThrows, Elsewhere, Alone, H!HandlerThrows, H!Handle,
               H!SendErrorBody, H!CloseIO, H!Return
<1>14. CASE UNCHANGED vars
  BY <1>1, <1>14 DEF vars, handler, own
<1> QED BY <1>2, <1>3, <1>4, <1>5, <1>6, <1>7, <1>8, <1>9, <1>10,
           <1>11, <1>12, <1>13, <1>14 DEF Next, Works

LEMMA CutBodyStep ==
    ASSUME Typed, Told, [Next]_vars, BodyMissing
    PROVE  BodyMissing' \/ pc' = "threw"
<1>1. /\ Class = "http" /\ application = "example" /\ pc = "handler" /\ op # "read_line"
      /\ Len(content) + Len(buffer) + Len(unread) < contentLength
  BY DEF BodyMissing, Typed, Calls
<1>2. remaining > 0
  <2>1. Len(content) + remaining = contentLength
    BY <1>1 DEF Told, BodyWanted, ContentSize
  <2>2. /\ Len(buffer) \in Nat /\ Len(unread) \in Nat /\ Len(content) \in Nat
        /\ contentLength \in Nat /\ remaining \in Nat
    BY StreamLengths, WantedIsBound DEF Typed, StreamHeld
  <2> QED BY <1>1, <2>1, <2>2
<1>3. CASE ReadBody
  BY <1>1, <1>3, ReadBodyCounts DEF BodyMissing
<1>4. CASE ReadBodyEOF
  <2>1. remaining \in Nat
    BY WantedIsBound DEF Typed
  <2>2. UNCHANGED <<buffer, unread>>
    BY <1>4, <2>1, ReadEndsHolds DEF ReadBodyEOF, Typed
  <2> QED BY <1>1, <1>4, <2>2 DEF ReadBodyEOF, BodyMissing, handler, own
<1>5. CASE ReadBodyThrows
  BY <1>5 DEF ReadBodyThrows, H!HandlerThrows
\* No other step is taken while the handler function runs.
<1>6. CASE CallReadLine \/ ReadLine
  BY <1>1, <1>6 DEF CallReadLine, ReadLine, S!ReadLineTurn, S!ReadLineStep, S!ReadLineEOF,
                    S!ReadLineThrows
<1>7. CASE \/ RequestLine \/ NoRequestLine \/ ContentLength \/ OtherHeader \/ HeadersFail
  BY <1>1, <1>7 DEF RequestLine, NoRequestLine, ContentLength, OtherHeader, HeadersFail,
                    H!HeadersFail
<1>8. CASE HeadersEnd \/ CallHandler
  BY <1>1, <1>8 DEF HeadersEnd, CallHandler, H!CallHandler
<1>9. CASE HandlerReturns \/ HandlerThrows
  BY <1>1, <1>2, <1>9 DEF HandlerReturns, HandlerThrows
<1>10. CASE Elsewhere
  BY <1>1, <1>10 DEF Elsewhere, Alone, H!Handle, H!SendErrorBody, H!CloseIO
<1>11. CASE UNCHANGED vars
  BY <1>1, <1>11 DEF vars, handler, stream, own, BodyMissing
<1> QED BY <1>3, <1>4, <1>5, <1>6, <1>7, <1>8, <1>9, <1>10, <1>11 DEF Next, Works

\* Once the peer has closed before the body is complete, the example's handler
\* function comes to no end of its own: it neither returns nor lets the next
\* request be read, and only a read that throws frees its thread.
THEOREM CutBodies == Spec => CutBodyIsNeverAnswered
<1>1. Init => Told
  BY InitBoth DEF Told, H!Init
<1>2. Typed /\ Told /\ [Next]_vars => (BodyMissing => BodyMissing' \/ pc' = "threw")
  BY CutBodyStep
<1>3. Typed /\ Told /\ [Next]_vars => [BodyMissing => BodyMissing' \/ pc' = "threw"]_vars
  BY <1>2
<1> QED BY <1>1, <1>3, InitTyped, StepTyped, StepTold, PTL DEF Spec, CutBodyIsNeverAnswered
=============================================================================
