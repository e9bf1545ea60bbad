------------------------------ MODULE SocketIO ------------------------------
(***************************************************************************)
(* SocketIO: the buffered, limited stream over one accepted connection.    *)
(*                                                                         *)
(* The peer's stream is known from the start (input); how it is cut up     *)
(* into the pieces ::read() returns is not.  Between the calls the caller  *)
(* is free, so every sequence of read_line, read, peek, set_limit and      *)
(* write is considered; a call that waits for the network may fail at any  *)
(* time (select() times out, the connection is reset).                     *)
(***************************************************************************)
EXTENDS Integers, Sequences

CONSTANTS
    Byte,     \* the bytes of the streams considered
    CR, LF,   \* the two that end a line
    Inputs,   \* what the peer may send
    BufSize,  \* net::DEFAULT_BUFFER_SIZE
    Counts,   \* the max_count and limit arguments of the callers
    SizeMod,  \* size_t arithmetic is modulo this number
    Sizes,    \* the count arguments of write()
    Room,     \* what the send buffer of the kernel holds
    MaxWrites \* bound: calls of write() a behaviour makes

ASSUME ByteAssumption == CR \in Byte /\ LF \in Byte /\ CR # LF
ASSUME InputAssumption == Inputs \subseteq Seq(Byte)
ASSUME SizeAssumption == BufSize \in Nat \ {0} /\ SizeMod \in Nat \ {0}
ASSUME CountAssumption == Counts \subseteq Nat
ASSUME WriteAssumption == Sizes \subseteq Nat /\ Room \in Nat \ {0} /\ MaxWrites \in Nat

VARIABLES
    input,     \* history: everything the peer sends
    unread,    \* the part of it ::read() has not returned yet
    buffer,    \* _buffer
    limit,     \* _limit
    out,       \* the string the call in progress fills
    op,        \* the call in progress
    ret,       \* how the last call ended
    delivered, \* history: the bytes that have left the buffer, in order
    mark,      \* history: how many had when the last call began
    promised,  \* history: was the last set_limit(n) made with n >= buffered()?
    credit,    \* history: bytes that may still be handed out under it
    size,      \* the count argument of the last write()
    count,     \* what it returned, or 0
    room,      \* free space in the send buffer
    sent,      \* history: the bytes the kernel took, by write() and place in it
    writes     \* how many calls of write() there have been

reader == <<input, unread, buffer, limit, delivered, promised, credit>>
writer == <<size, count, room, sent, writes>>
vars   == <<reader, writer, out, op, ret, mark>>

Least(a, b) == IF a <= b THEN a ELSE b

Init ==
    /\ input \in Inputs
    /\ unread = input
    /\ buffer = <<>> /\ out = <<>> /\ delivered = <<>>
    /\ limit = -1 /\ promised = FALSE /\ credit = 0
    /\ op = "none" /\ ret = "none" /\ mark = 0
    /\ size = 0 /\ count = 0 /\ room = Room /\ sent = <<>> /\ writes = 0

-----------------------------------------------------------------------------
(* read_bytes()                                                            *)

HasLimit == limit >= 0

\* How many bytes one read_bytes(max) asks the kernel for.
Wanted(max) == Least(BufSize, IF HasLimit THEN Least(limit, max) ELSE max)

\* ::read() returns len > 0: the next k bytes, as many as have arrived.
Taken(max) == 1 .. Least(Wanted(max), Len(unread))

\* Slip: _limit is charged although none is set.
Take_Unconditional(k) ==
    unread' = SubSeq(unread, k + 1, Len(unread)) /\ limit' = limit - k

Take(k) ==
    /\ unread' = SubSeq(unread, k + 1, Len(unread))
    /\ limit' = IF HasLimit THEN limit - k ELSE limit

\* EoF at the limit, SocketError on a timeout or a connection error.
ReadThrows == ret' = "threw" /\ UNCHANGED <<unread, limit>>

\* ::read() returns 0: the peer has closed and everything has been read.
PeerClosed(max) == Wanted(max) > 0 /\ unread = <<>>

-----------------------------------------------------------------------------
(* append_from_buffer_to(): the first n bytes of b leave for the caller.   *)

\* Slip: the buffer is cleared whatever is left in it.
Consume_Clears(b, n) ==
    /\ buffer' = <<>>
    /\ delivered' = delivered \o SubSeq(b, 1, n)
    /\ credit' = credit - n
    /\ UNCHANGED promised

Consume(b, n) ==
    /\ buffer' = SubSeq(b, n + 1, Len(b))
    /\ delivered' = delivered \o SubSeq(b, 1, n)
    /\ credit' = credit - n
    /\ UNCHANGED promised

Ends(how) == op' = "none" /\ ret' = how

Begin ==
    /\ op = "none"
    /\ mark' = Len(delivered)

-----------------------------------------------------------------------------
(* read_line()                                                             *)

\* Slip: a lone LF ends the line.
CRLFs_LF(b) == {i \in 0 .. Len(b) - 1 : b[i + 1] = LF}

CRLFs(b) == {i \in 1 .. Len(b) - 1 : b[i] = CR /\ b[i + 1] = LF}

CallReadLine ==
    /\ Begin
    /\ op' = "read_line" /\ out' = <<>> /\ ret' = "none"
    /\ UNCHANGED <<reader, writer>>

\* Slip: a turn without a line end overwrites the line instead of adding to it.
Scan_Overwrites(b) ==
    \/ CRLFs(b) = {} /\ out' = b /\ Consume(b, Len(b)) /\ UNCHANGED <<op, ret>>
    \/ \E p \in CRLFs(b) :
          /\ \A q \in CRLFs(b) : p <= q
          /\ out' = out \o SubSeq(b, 1, p + 1)
          /\ Consume(b, p + 1)
          /\ Ends("line")

\* Slip: append_from_buffer_to(line, -1) appends nothing.
Scan_AppendsNothing(b) ==
    \/ CRLFs(b) = {} /\ Consume(b, 0) /\ UNCHANGED <<out, op, ret>>
    \/ \E p \in CRLFs(b) :
          /\ \A q \in CRLFs(b) : p <= q
          /\ out' = out \o SubSeq(b, 1, p + 1)
          /\ Consume(b, p + 1)
          /\ Ends("line")

\* One turn of the loop on the buffered bytes b: up to the first CRLF in it,
\* or all of them and another turn.
Scan(b) ==
    \/ /\ CRLFs(b) = {}
       /\ out' = out \o b
       /\ Consume(b, Len(b))
       /\ UNCHANGED <<op, ret>>
    \/ \E p \in CRLFs(b) :
          /\ \A q \in CRLFs(b) : p <= q
          /\ out' = out \o SubSeq(b, 1, p + 1)
          /\ Consume(b, p + 1)
          /\ Ends("line")

ReadLineStep ==
    /\ op = "read_line"
    /\ \/ buffer # <<>> /\ Scan(buffer) /\ UNCHANGED <<unread, limit>>
       \/ /\ buffer = <<>>
          /\ \E k \in Taken(BufSize) : Take(k) /\ Scan(SubSeq(unread, 1, k))
    /\ UNCHANGED <<input, mark, writer>>

ReadLineEOF ==
    /\ op = "read_line" /\ buffer = <<>> /\ PeerClosed(BufSize)
    /\ Ends("eof")
    /\ UNCHANGED <<reader, writer, out, mark>>

ReadLineThrows ==
    /\ op = "read_line" /\ buffer = <<>>
    /\ op' = "none" /\ ReadThrows
    /\ UNCHANGED <<input, buffer, out, delivered, mark, promised, credit, writer>>

-----------------------------------------------------------------------------
(* read(), peek() and set_limit()                                          *)

Hand(b, n) == out' = SubSeq(b, 1, n) /\ Consume(b, n) /\ Ends("data")

\* read(max): from the buffer alone unless it is empty.
Read(max) ==
    /\ Begin
    /\ \/ /\ buffer # <<>>
          /\ Hand(buffer, Least(max, Len(buffer)))
          /\ UNCHANGED <<unread, limit>>
       \/ /\ buffer = <<>>
          /\ \E k \in Taken(max) : Take(k) /\ Hand(SubSeq(unread, 1, k), k)
    /\ UNCHANGED <<input, writer>>

\* max_count - buffered() > 0, evaluated in size_t.
PeekWantsMore(max) == (max - Len(buffer)) % SizeMod > 0

Show(b, max) == out' = SubSeq(b, 1, Least(max, Len(b))) /\ buffer' = b /\ Ends("peek")

Peek(max) ==
    /\ Begin
    /\ \/ ~PeekWantsMore(max) /\ Show(buffer, max) /\ UNCHANGED <<unread, limit>>
       \/ /\ PeekWantsMore(max)
          /\ \E k \in Taken(max) : Take(k) /\ Show(buffer \o SubSeq(unread, 1, k), max)
    /\ UNCHANGED <<input, delivered, promised, credit, writer>>

\* read_bytes() brings nothing: 0 and an empty string are returned at the
\* end of the stream, each time anew; everything else throws.
NothingRead(max) ==
    /\ out' = <<>> /\ op' = "none"
    /\ \/ PeerClosed(max) /\ ret' = "eof" /\ UNCHANGED <<unread, limit>>
       \/ ReadThrows
    /\ UNCHANGED <<input, buffer, delivered, promised, credit, writer>>

ReadEnds(max) == Begin /\ buffer = <<>> /\ NothingRead(max)

PeekEnds(max) == Begin /\ PeekWantsMore(max) /\ NothingRead(max)

\* Slip: the limit counts from the next read().
SetLimit_IgnoresBuffer(n) ==
    /\ Begin
    /\ limit' = n
    /\ promised' = ~(n < Len(buffer)) /\ credit' = n
    /\ out' = <<>> /\ Ends("set")
    /\ UNCHANGED <<input, unread, buffer, delivered, writer>>

\* What is buffered already counts against the limit.
SetLimit(n) ==
    /\ Begin
    /\ limit' = n - Len(buffer)
    /\ promised' = ~(n < Len(buffer)) /\ credit' = n
    /\ out' = <<>> /\ Ends("set")
    /\ UNCHANGED <<input, unread, buffer, delivered, writer>>

-----------------------------------------------------------------------------
(* write()                                                                 *)

CallWrite(n) ==
    /\ Begin
    /\ op' = "write" /\ out' = <<>> /\ ret' = "none"
    /\ size' = n /\ count' = 0
    /\ writes < MaxWrites /\ writes' = writes + 1
    /\ UNCHANGED <<reader, room, sent>>

\* A byte on the wire: which call wrote it, and its place in the data.
Place == [call : Nat, byte : Nat]

\* The first k bytes of the data of this call.
Piece(k) == [i \in 1 .. k |-> [call |-> writes, byte |-> i]]

\* ::send() takes what it has room for, at least one byte.
Accepted == IF size = 0 THEN {0} ELSE 1 .. Least(size, room)

\* Slip: a short send() is followed by another one of the same data.
Send_Resends ==
    /\ op = "write"
    /\ \E k \in Accepted :
          /\ sent' = sent \o Piece(k)
          /\ room' = room - k /\ count' = k
          /\ IF k < size THEN UNCHANGED <<op, ret>> ELSE Ends("sent")
    /\ UNCHANGED <<reader, size, writes, out, mark>>

\* Slip: the loop goes on until the data fits as a whole.
Send_Whole ==
    /\ op = "write" /\ size <= room
    /\ sent' = sent \o Piece(size)
    /\ room' = room - size /\ count' = size
    /\ Ends("sent")
    /\ UNCHANGED <<reader, size, writes, out, mark>>

\* What ::send() took is returned, all of the data or not.
Send ==
    /\ op = "write"
    /\ \E k \in Accepted :
          /\ sent' = sent \o Piece(k)
          /\ room' = room - k /\ count' = k
    /\ Ends("sent")
    /\ UNCHANGED <<reader, size, writes, out, mark>>

\* EAGAIN and ETIMEDOUT: the loop spins, and nothing changes.
SendAgain == op = "write" /\ Accepted = {} /\ UNCHANGED vars

\* ECONNRESET, ENOTCONN and the other errors: SocketError.
SendThrows ==
    /\ op = "write" /\ op' = "none" /\ ret' = "threw"
    /\ UNCHANGED <<reader, writer, out, mark>>

\* The peer has received some of it.
Drain ==
    /\ room < Room /\ room' \in room + 1 .. Room
    /\ UNCHANGED <<reader, size, count, sent, writes, out, op, ret, mark>>

-----------------------------------------------------------------------------
ReadLineTurn == ReadLineStep \/ ReadLineEOF \/ ReadLineThrows

Next ==
    \/ CallReadLine \/ ReadLineTurn
    \/ \E n \in Counts :
          Read(n) \/ ReadEnds(n) \/ Peek(n) \/ PeekEnds(n) \/ SetLimit(n)
    \/ \E n \in Sizes : CallWrite(n)
    \/ Send \/ SendAgain \/ SendThrows \/ Drain

Spec == Init /\ [][Next]_vars

\* read_bytes() waits for select() with a timeout, so a turn always ends; the
\* thread that spins in write() calls ::send() again.
FairSpec == Spec /\ WF_vars(ReadLineTurn) /\ WF_vars(Send)

-----------------------------------------------------------------------------
(* Properties.                                                             *)

\* The variables hold what their declarations in the source can hold.
TypeOK ==
    /\ input \in Inputs
    /\ unread \in Seq(Byte) /\ buffer \in Seq(Byte)
    /\ out \in Seq(Byte) /\ delivered \in Seq(Byte)
    /\ limit \in Int /\ (limit = -1 \/ limit >= -Len(input))
    /\ credit \in Int /\ promised \in BOOLEAN
    /\ op \in {"none", "read_line", "write"}
    /\ ret \in {"none", "line", "data", "peek", "eof", "threw", "set", "sent"}
    /\ mark \in 0 .. Len(delivered)
    /\ size \in Nat /\ count \in 0 .. size /\ room \in 0 .. Room
    /\ sent \in Seq(Place) /\ writes \in Nat

\* Whatever calls are mixed and however the network cuts the stream, what
\* the calls have handed out is the beginning of what the peer sent, in
\* order, with nothing lost, repeated or left behind in the buffer; a call
\* that fails half-way does not disturb it.
StreamIntegrity == delivered \o buffer \o unread = input

\* A call returns exactly the bytes it took off the stream, over however many
\* reads, and what peek() showed is what the next call will begin with.
ReturnsTheStream ==
    IF ret = "peek"
    THEN buffer = out \o SubSeq(buffer, Len(out) + 1, Len(buffer))
    ELSE delivered = SubSeq(delivered, 1, mark) \o out

\* After set_limit(n) with at most n bytes buffered, no sequence of calls
\* hands out more than n bytes until the limit is set again.
LimitHonoured == promised => credit >= 0

\* read_line() that returns at a line end has stopped right behind a CRLF.
LineTerminated ==
    ret = "line" =>
       Len(out) >= 2 /\ out[Len(out) - 1] = CR /\ out[Len(out)] = LF

\* read_line() never hangs and never spins on bytes without a line end.
ReadLineReturns == op = "read_line" ~> op = "none"

\* However often send() has no room or takes a part, the wire carries for
\* each write() the beginning of its data, once and in order, none of it
\* between the bytes of another; the number returned is the place where a
\* caller would have to go on.
WireFollowsWrites ==
    /\ \A i \in 1 .. Len(sent) :
          /\ sent[i].call <= writes
          /\ sent[i].byte = IF i > 1 /\ sent[i - 1].call = sent[i].call
                            THEN sent[i - 1].byte + 1 ELSE 1
          /\ i > 1 => sent[i - 1].call <= sent[i].call
    /\ ret = "sent" /\ size > 0 =>
          sent # <<>> /\ sent[Len(sent)] = [call |-> writes, byte |-> count]

\* write() does not spin for ever while the peer goes on receiving.
WriteReturns == ([]<>(room > 0)) => (op = "write" ~> op = "none")

\* read_line() hands out one line: the request line is stored alone, and the
\* handler parses only what the peer wrote as its request line.
OneLine == ret = "line" => CRLFs(out) = {Len(out) - 1}
=============================================================================
