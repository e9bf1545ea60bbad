--------------------------- MODULE SocketIOProofs ---------------------------
(***************************************************************************)
(* The safety of SocketIO for every stream, buffer size and sequence of    *)
(* calls.  A turn of a call reads some bytes from the network (lemma       *)
(* OneRead, FirstRead) and hands what it has found to the caller (HandOver *)
(* says what that does to the stream); ScanKeeps, HandKeeps and ShowKeeps  *)
(* are the reading steps of the inductive invariant IInv, SendKeeps the    *)
(* writing one.                                                            *)
(***************************************************************************)
EXTENDS SocketIO, SequenceTheorems, TLAPS

\* While a limit is promised, what may still be handed out is what is
\* buffered and what may still be read.
Promise == promised => limit >= 0 /\ credit = Len(buffer) + limit

\* A call in progress has no result yet.
InProgress == op # "none" => ret = "none"

\* A write() in progress has put nothing on the wire yet.
Fresh == op = "write" => \A i \in 1 .. Len(sent) : sent[i].call < writes

IInv == /\ TypeOK /\ StreamIntegrity /\ ReturnsTheStream
        /\ Promise /\ LineTerminated /\ InProgress
        /\ WireFollowsWrites /\ Fresh

-----------------------------------------------------------------------------
(* Facts about sequences.                                                  *)

LEMMA Cut ==
    ASSUME NEW S, NEW s \in Seq(S), NEW n \in 0 .. Len(s)
    PROVE  /\ SubSeq(s, 1, n) \in Seq(S) /\ Len(SubSeq(s, 1, n)) = n
           /\ SubSeq(s, n + 1, Len(s)) \in Seq(S)
           /\ Len(SubSeq(s, n + 1, Len(s))) = Len(s) - n
           /\ s = SubSeq(s, 1, n) \o SubSeq(s, n + 1, Len(s))
<1> DEFINE a == SubSeq(s, 1, n)
           z == SubSeq(s, n + 1, Len(s))
<1>1. Len(s) \in Nat /\ \A i \in 1 .. Len(s) : s[i] \in S
  BY ElementOfSeq, LenProperties
<1>2. a \in Seq(S) /\ Len(a) = n /\ \A i \in 1 .. n : a[i] = s[i]
  BY <1>1, SubSeqProperties
<1>3. /\ z \in Seq(S) /\ Len(z) = Len(s) - n
      /\ \A i \in 1 .. Len(s) - n : z[i] = s[n + i]
  BY <1>1, SubSeqProperties
<1>4. /\ a \o z \in Seq(S) /\ Len(a \o z) = Len(s)
      /\ \A i \in 1 .. Len(s) :
            (a \o z)[i] = IF i <= n THEN a[i] ELSE z[i - n]
  <2> HIDE DEF a, z
  <2> QED BY <1>1, <1>2, <1>3, ConcatProperties
<1>5. ASSUME NEW i \in 1 .. Len(s) PROVE (a \o z)[i] = s[i]
  <2> HIDE DEF a, z
  <2>1. CASE i <= n  BY <2>1, <1>1, <1>2, <1>4
  <2>2. CASE ~(i <= n)
    <3>1. i - n \in 1 .. Len(s) - n /\ n + (i - n) = i  BY <2>2, <1>1
    <3> QED BY <2>2, <3>1, <1>1, <1>3, <1>4
  <2> QED BY <2>1, <2>2
<1>6. s = a \o z
  <2> HIDE DEF a, z
  <2> QED BY <1>4, <1>5, SeqEqual
<1> QED BY <1>2, <1>3, <1>6

LEMMA Regroup == \A s, t, u \in Seq(Byte) : (s \o t) \o u = s \o (t \o u)
  BY ConcatAssociative

\* The first part of a concatenation.
LEMMA Prefix ==
    ASSUME NEW S, NEW p \in Seq(S), NEW o \in Seq(S)
    PROVE  SubSeq(p \o o, 1, Len(p)) = p
<1>1. /\ p \o o \in Seq(S) /\ Len(p \o o) = Len(p) + Len(o)
      /\ Len(p) \in Nat /\ Len(o) \in Nat
      /\ \A i \in 1 .. Len(p) + Len(o) :
            (p \o o)[i] = IF i <= Len(p) THEN p[i] ELSE o[i - Len(p)]
  BY ConcatProperties, LenProperties
<1> DEFINE d == p \o o
           a == SubSeq(d, 1, Len(p))
<1>2. \A i \in 1 .. Len(d) : d[i] \in S
  BY <1>1, ElementOfSeq
<1>3. a \in Seq(S) /\ Len(a) = Len(p) /\ \A i \in 1 .. Len(p) : a[i] = d[i]
  BY <1>1, <1>2, SubSeqProperties
<1>5. \A i \in 1 .. Len(p) : a[i] = p[i]
  BY <1>1, <1>3
<1>7. a = p
  <2> HIDE DEF a
  <2> QED BY <1>3, <1>5, SeqEqual
<1> QED BY <1>7

-----------------------------------------------------------------------------
(* What reading and handing out do to the stream.                          *)

\* ::read() moves the first k unread bytes behind the buffered ones.
LEMMA Fetch ==
    ASSUME TypeOK, NEW max \in Nat, NEW k \in Taken(max), Take(k)
    PROVE  /\ SubSeq(unread, 1, k) \in Seq(Byte) /\ Len(SubSeq(unread, 1, k)) = k
           /\ k \in Nat \ {0}
           /\ unread' \in Seq(Byte)
           /\ unread = SubSeq(unread, 1, k) \o unread'
           /\ limit' = IF HasLimit THEN limit - k ELSE limit
           /\ limit' \in Int /\ (HasLimit => limit' >= 0)
<1>1. Len(unread) \in Nat
  BY LenProperties DEF TypeOK
<1>2. Wanted(max) \in Nat
  BY SizeAssumption DEF Wanted, Least, HasLimit, TypeOK
<1>3. k \in 1 .. Len(unread)
  <2> HIDE DEF Wanted
  <2> QED BY <1>1, <1>2 DEF Taken, Least
<1>4. HasLimit => k <= limit
  BY <1>1, <1>3, SizeAssumption DEF Taken, Wanted, Least, HasLimit, TypeOK
<1>5. /\ limit' = IF HasLimit THEN limit - k ELSE limit
      /\ limit' \in Int /\ (HasLimit => limit' >= 0)
  BY <1>3, <1>4 DEF Take, TypeOK, HasLimit
<1> QED BY <1>1, <1>3, <1>5, Cut DEF TypeOK, Take

\* The bytes b are at hand, after a read or without one: the stream is what
\* has been delivered, then b, then what is unread, and b has been charged
\* to the limit.
AtHand(b) ==
    /\ b \in Seq(Byte) /\ unread' \in Seq(Byte)
    /\ (delivered \o b) \o unread' = input
    /\ limit' \in Int /\ (limit' = -1 \/ limit' >= -Len(input))
    /\ promised => limit' >= 0 /\ credit = Len(b) + limit'

LEMMA NoRead ==
    ASSUME IInv, UNCHANGED <<unread, limit>>
    PROVE  AtHand(buffer)
  BY DEF IInv, TypeOK, StreamIntegrity, Promise, AtHand

LEMMA OneRead ==
    ASSUME IInv, NEW max \in Nat, NEW k \in Taken(max), Take(k)
    PROVE  AtHand(buffer \o SubSeq(unread, 1, k))
<1> DEFINE chunk == SubSeq(unread, 1, k)
<1>1. /\ chunk \in Seq(Byte) /\ Len(chunk) = k /\ k \in Nat \ {0}
      /\ unread' \in Seq(Byte) /\ unread = chunk \o unread'
      /\ limit' = IF HasLimit THEN limit - k ELSE limit
      /\ limit' \in Int /\ (HasLimit => limit' >= 0)
  BY Fetch DEF IInv
<1> HIDE DEF chunk
<1>2. /\ buffer \in Seq(Byte) /\ delivered \in Seq(Byte) /\ limit \in Int
      /\ limit = -1 \/ limit >= -Len(input)
      /\ (delivered \o buffer) \o unread = input
      /\ promised => limit >= 0 /\ credit = Len(buffer) + limit
      /\ credit \in Int
  BY DEF IInv, TypeOK, StreamIntegrity, Promise
<1>3. /\ delivered \o buffer \in Seq(Byte) /\ buffer \o chunk \in Seq(Byte)
      /\ Len(buffer \o chunk) = Len(buffer) + k /\ Len(buffer) \in Nat
  BY <1>1, <1>2, ConcatProperties, LenProperties
<1>4. (delivered \o (buffer \o chunk)) \o unread' = input
  <2>1. /\ delivered \in Seq(Byte) /\ buffer \in Seq(Byte) /\ chunk \in Seq(Byte)
        /\ unread' \in Seq(Byte) /\ delivered \o buffer \in Seq(Byte)
    BY <1>1, <1>2, <1>3
  <2>2. (delivered \o buffer) \o chunk = delivered \o (buffer \o chunk)
    BY <2>1, Regroup, ZenonT(30)
  <2>3. ((delivered \o buffer) \o chunk) \o unread'
           = (delivered \o buffer) \o (chunk \o unread')
    BY <2>1, Regroup, ZenonT(30)
  <2>4. unread = chunk \o unread' /\ (delivered \o buffer) \o unread = input
    BY <1>1, <1>2
  <2> QED BY <2>2, <2>3, <2>4
<1>5. input \in Seq(Byte) /\ Len(input) \in Nat
  BY InputAssumption, LenProperties DEF IInv, TypeOK
<1>6. limit' = -1 \/ limit' >= -Len(input)
  BY <1>1, <1>2, <1>5 DEF HasLimit
<1>7. promised => limit' >= 0 /\ credit = Len(buffer \o chunk) + limit'
  BY <1>1, <1>2, <1>3 DEF HasLimit
<1>8. AtHand(buffer \o chunk)
  BY <1>1, <1>3, <1>4, <1>6, <1>7 DEF AtHand
<1> QED BY <1>8 DEF chunk

\* A read into the empty buffer.
LEMMA FirstRead ==
    ASSUME IInv, buffer = <<>>, NEW max \in Nat, NEW k \in Taken(max), Take(k)
    PROVE  AtHand(SubSeq(unread, 1, k)) /\ Len(SubSeq(unread, 1, k)) = k /\ k \in Nat
<1>1. AtHand(buffer \o SubSeq(unread, 1, k))
  BY OneRead
<1>2. SubSeq(unread, 1, k) \in Seq(Byte) /\ Len(SubSeq(unread, 1, k)) = k /\ k \in Nat
  BY Fetch DEF IInv
<1>3. buffer \o SubSeq(unread, 1, k) = SubSeq(unread, 1, k)
  BY <1>2, ConcatEmptySeq
<1> QED BY <1>1, <1>2, <1>3

\* Handing out the first n bytes of b keeps the stream and the promise.
LEMMA HandOver ==
    ASSUME IInv, NEW b, AtHand(b), NEW n \in 0 .. Len(b), Consume(b, n),
           input' = input
    PROVE  /\ buffer' \in Seq(Byte) /\ delivered' \in Seq(Byte)
           /\ unread' \in Seq(Byte) /\ input' \in Inputs
           /\ limit' \in Int /\ (limit' = -1 \/ limit' >= -Len(input'))
           /\ credit' \in Int /\ promised' \in BOOLEAN
           /\ SubSeq(b, 1, n) \in Seq(Byte)
           /\ delivered' = delivered \o SubSeq(b, 1, n)
           /\ Len(delivered) \in Nat /\ Len(delivered') \in Nat
           /\ Len(delivered) <= Len(delivered')
           /\ StreamIntegrity' /\ Promise'
<1>1. /\ b \in Seq(Byte) /\ unread' \in Seq(Byte)
      /\ (delivered \o b) \o unread' = input
      /\ limit' \in Int /\ (limit' = -1 \/ limit' >= -Len(input))
      /\ promised => limit' >= 0 /\ credit = Len(b) + limit'
  BY DEF AtHand
<1>2. /\ delivered \in Seq(Byte) /\ credit \in Int /\ promised \in BOOLEAN
      /\ input \in Inputs
  BY DEF IInv, TypeOK
<1>3. /\ buffer' = SubSeq(b, n + 1, Len(b))
      /\ delivered' = delivered \o SubSeq(b, 1, n)
      /\ credit' = credit - n /\ promised' = promised
  BY DEF Consume
<1>4. /\ SubSeq(b, 1, n) \in Seq(Byte) /\ buffer' \in Seq(Byte)
      /\ Len(buffer') = Len(b) - n
      /\ b = SubSeq(b, 1, n) \o buffer'
      /\ Len(b) \in Nat
  BY <1>1, <1>3, Cut, LenProperties
<1>5. /\ delivered' \in Seq(Byte) /\ Len(delivered) \in Nat /\ Len(delivered') \in Nat
      /\ Len(delivered) <= Len(delivered')
  <2>1. Len(delivered') = Len(delivered) + Len(SubSeq(b, 1, n))
    BY <1>2, <1>3, <1>4, ConcatProperties
  <2>2. Len(SubSeq(b, 1, n)) \in Nat /\ Len(delivered) \in Nat
    BY <1>2, <1>4, LenProperties
  <2>3. delivered' \in Seq(Byte)
    BY <1>2, <1>3, <1>4, ConcatProperties
  <2> QED BY <2>1, <2>2, <2>3
<1>6. delivered' \o buffer' = delivered \o b
  <2>1. delivered' \o buffer' = delivered \o (SubSeq(b, 1, n) \o buffer')
    BY <1>2, <1>3, <1>4, Regroup
  <2> QED BY <2>1, <1>4
<1>7. StreamIntegrity'
  BY <1>1, <1>6 DEF StreamIntegrity
<1>8. Promise'
  BY <1>1, <1>2, <1>3, <1>4 DEF Promise
<1>9. input' \in Inputs /\ (limit' = -1 \/ limit' >= -Len(input'))
  BY <1>1, <1>2
<1>10. credit' \in Int /\ promised' \in BOOLEAN
  BY <1>2, <1>3, <1>4
<1> QED BY <1>1, <1>3, <1>4, <1>5, <1>7, <1>8, <1>9, <1>10

-----------------------------------------------------------------------------
(* Reading leaves the wire alone.                                          *)

LEMMA WireKept ==
    ASSUME IInv, UNCHANGED writer, op' # "write", ret' # "sent" \/ ret' = ret
    PROVE  WireFollowsWrites' /\ Fresh'
  BY DEF IInv, writer, WireFollowsWrites, Fresh

LEMMA WriterTypes ==
    ASSUME IInv, UNCHANGED writer
    PROVE  /\ size' \in Nat /\ count' \in 0 .. size' /\ room' \in 0 .. Room
           /\ sent' \in Seq(Place) /\ writes' \in Nat
  BY DEF IInv, writer, TypeOK

-----------------------------------------------------------------------------
(* One lemma for each way a call uses the bytes at hand.                   *)

\* A turn of read_line() on b.
LEMMA ScanKeeps ==
    ASSUME IInv, op = "read_line", NEW b, AtHand(b), Scan(b),
           UNCHANGED <<input, mark, writer>>
    PROVE  IInv'
<1>1. /\ b \in Seq(Byte) /\ Len(b) \in Nat
      /\ out \in Seq(Byte) /\ delivered \in Seq(Byte) /\ UNCHANGED writer
      /\ delivered = SubSeq(delivered, 1, mark) \o out
      /\ ret = "none"
  BY LenProperties DEF IInv, TypeOK, AtHand, ReturnsTheStream, InProgress
<1>2. /\ SubSeq(delivered, 1, mark) \in Seq(Byte)
      /\ Len(SubSeq(delivered, 1, mark)) = mark
  <2>1. mark \in 0 .. Len(delivered)
    BY DEF IInv, TypeOK
  <2> QED BY <1>1, <2>1, Cut
<1>3. PICK n \in 0 .. Len(b) :
         /\ Consume(b, n) /\ out' = out \o SubSeq(b, 1, n)
         /\ \/ UNCHANGED <<op, ret>>
            \/ op' = "none" /\ ret' = "line" /\ n - 1 \in CRLFs(b)
  <2>1. CASE CRLFs(b) = {}
    <3>1. SubSeq(b, 1, Len(b)) = b  BY <1>1, SubSeqFull
    <3>2. Consume(b, Len(b)) /\ out' = out \o b /\ UNCHANGED <<op, ret>>
      BY <2>1 DEF Scan
    <3>3. Len(b) \in 0 .. Len(b)  BY <1>1
    <3> QED BY <3>1, <3>2, <3>3
  <2>2. CASE CRLFs(b) # {}
    <3>1. PICK p \in CRLFs(b) :
             /\ out' = out \o SubSeq(b, 1, p + 1)
             /\ Consume(b, p + 1) /\ Ends("line")
      BY <2>2 DEF Scan
    <3>2. p + 1 \in 0 .. Len(b) /\ (p + 1) - 1 = p  BY <1>1, <3>1 DEF CRLFs
    <3> QED BY <3>1, <3>2 DEF Ends
  <2> QED BY <2>1, <2>2
<1> DEFINE a == SubSeq(b, 1, n)
           p == SubSeq(delivered, 1, mark)
<1>4. /\ buffer' \in Seq(Byte) /\ delivered' \in Seq(Byte)
      /\ unread' \in Seq(Byte) /\ input' \in Inputs
      /\ limit' \in Int /\ (limit' = -1 \/ limit' >= -Len(input'))
      /\ credit' \in Int /\ promised' \in BOOLEAN
      /\ a \in Seq(Byte) /\ delivered' = delivered \o a
      /\ mark \in 0 .. Len(delivered')
      /\ StreamIntegrity' /\ Promise'
  <2>1. mark \in 0 .. Len(delivered) /\ input' = input
    BY DEF IInv, TypeOK
  <2> QED BY <1>3, <2>1, HandOver
<1>5. Len(a) = n /\ \A i \in 1 .. n : a[i] = b[i]
  BY <1>1, <1>3, ElementOfSeq, SubSeqProperties
<1>6. p \in Seq(Byte) /\ Len(p) = mark /\ mark' = mark /\ delivered = p \o out
  BY <1>1, <1>2
<1> HIDE DEF a, p
<1>7. out' = out \o a /\ out' \in Seq(Byte)
  BY <1>1, <1>3, <1>4, ConcatProperties DEF a
<1>8. TypeOK'
  BY <1>1, <1>3, <1>4, <1>7, WriterTypes DEF TypeOK, IInv
<1>9. ReturnsTheStream'
  <2>1. delivered' = p \o out'
    <3>1. (p \o out) \o a = p \o (out \o a)
      <4>1. p \in Seq(Byte) /\ out \in Seq(Byte) /\ a \in Seq(Byte)
        BY <1>1, <1>4, <1>6
      <4> QED BY ONLY <4>1, Regroup
    <3> QED BY <3>1, <1>4, <1>6, <1>7
  <2>2. SubSeq(delivered', 1, Len(p)) = p
    BY <2>1, <1>6, <1>7, Prefix
  <2>3. ret' # "peek"
    BY <1>1, <1>3
  <2> QED BY <2>1, <2>2, <2>3, <1>6 DEF ReturnsTheStream
<1>10. LineTerminated'
  <2> SUFFICES ASSUME ret' = "line"
               PROVE  /\ Len(out') >= 2
                      /\ out'[Len(out') - 1] = CR /\ out'[Len(out')] = LF
    BY DEF LineTerminated
  <2>1. n - 1 \in 1 .. Len(b) - 1 /\ b[n - 1] = CR /\ b[n] = LF
    BY <1>1, <1>3 DEF CRLFs
  <2>2. /\ Len(out') = Len(out) + n /\ Len(out) \in Nat /\ n \in Nat
        /\ \A i \in 1 .. Len(out) + n :
              out'[i] = IF i <= Len(out) THEN out[i] ELSE a[i - Len(out)]
    BY <1>1, <1>4, <1>5, <1>7, ConcatProperties, LenProperties
  <2>3. a[n - 1] = CR /\ a[n] = LF
    BY <2>1, <1>1, <1>5
  <2>4. /\ out'[Len(out) + (n - 1)] = a[n - 1]
        /\ out'[Len(out) + n] = a[n]
    <3>1. /\ Len(out) + (n - 1) \in 1 .. Len(out) + n
          /\ ~(Len(out) + (n - 1) <= Len(out))
          /\ (Len(out) + (n - 1)) - Len(out) = n - 1
          /\ Len(out) + n \in 1 .. Len(out) + n
          /\ ~(Len(out) + n <= Len(out)) /\ (Len(out) + n) - Len(out) = n
      BY <1>1, <2>1, <2>2
    <3> QED BY <2>2, <3>1
  <2>5. Len(out') - 1 = Len(out) + (n - 1) /\ Len(out') >= 2
    BY <1>1, <2>1, <2>2
  <2> QED BY <2>2, <2>3, <2>4, <2>5
<1>11. InProgress'
  BY <1>1, <1>3 DEF InProgress
<1>12. WireFollowsWrites' /\ Fresh'
  BY <1>1, <1>3, WireKept
<1> QED BY <1>4, <1>8, <1>9, <1>10, <1>11, <1>12 DEF IInv

\* read() that has b at hand.
LEMMA HandKeeps ==
    ASSUME IInv, NEW b, AtHand(b), NEW n \in 0 .. Len(b), Hand(b, n),
           input' = input, mark' = Len(delivered), UNCHANGED writer
    PROVE  IInv'
<1>1. out' = SubSeq(b, 1, n) /\ Consume(b, n) /\ op' = "none" /\ ret' = "data"
  BY DEF Hand, Ends
<1>2. /\ buffer' \in Seq(Byte) /\ delivered' \in Seq(Byte)
      /\ unread' \in Seq(Byte) /\ input' \in Inputs
      /\ limit' \in Int /\ (limit' = -1 \/ limit' >= -Len(input'))
      /\ credit' \in Int /\ promised' \in BOOLEAN
      /\ out' \in Seq(Byte) /\ delivered' = delivered \o out'
      /\ mark' \in 0 .. Len(delivered')
      /\ StreamIntegrity' /\ Promise'
  BY <1>1, HandOver
<1>3. delivered \in Seq(Byte)
  BY DEF IInv, TypeOK
<1>4. delivered' = SubSeq(delivered', 1, mark') \o out'
  BY <1>2, <1>3, Prefix
<1>5. TypeOK'
  BY <1>1, <1>2, WriterTypes DEF TypeOK
<1>6. WireFollowsWrites' /\ Fresh'
  BY <1>1, WireKept
<1> QED BY <1>1, <1>2, <1>4, <1>5, <1>6
       DEF IInv, TypeOK, ReturnsTheStream, LineTerminated, InProgress

\* peek() that has b at hand.
LEMMA ShowKeeps ==
    ASSUME IInv, NEW b, AtHand(b), NEW max \in Nat, Show(b, max),
           UNCHANGED <<input, delivered, promised, credit>>,
           mark' = Len(delivered), UNCHANGED writer
    PROVE  IInv'
<1>1. PICK n \in 0 .. Len(b) : out' = SubSeq(b, 1, n)
  <2>1. Len(b) \in Nat  BY LenProperties DEF AtHand
  <2>2. Least(max, Len(b)) \in 0 .. Len(b)  BY <2>1 DEF Least
  <2> QED BY <2>2 DEF Show
<1>2. buffer' = b /\ op' = "none" /\ ret' = "peek"
  BY DEF Show, Ends
<1>3. /\ out' \in Seq(Byte) /\ Len(out') = n
      /\ b = out' \o SubSeq(b, n + 1, Len(b))
  BY <1>1, Cut DEF AtHand
<1>4. TypeOK'
  BY <1>2, <1>3, WriterTypes DEF TypeOK, IInv, AtHand
<1>5. ReturnsTheStream'
  BY <1>2, <1>3 DEF ReturnsTheStream
<1>6. StreamIntegrity' /\ Promise'
  BY <1>2 DEF StreamIntegrity, Promise, AtHand
<1>7. WireFollowsWrites' /\ Fresh'
  BY <1>2, WireKept
<1> QED BY <1>2, <1>4, <1>5, <1>6, <1>7 DEF IInv, LineTerminated, InProgress

\* send() takes the first k bytes of a write() that has put none on the wire.
LEMMA SendKeeps ==
    ASSUME IInv, Send
    PROVE  IInv'
<1>1. /\ op = "write" /\ op' = "none" /\ ret' = "sent"
      /\ UNCHANGED <<reader, size, writes, out, mark>>
  BY DEF Send, Ends
<1>2. PICK k \in Accepted :
         sent' = sent \o Piece(k) /\ room' = room - k /\ count' = k
  BY DEF Send
<1>3. /\ size \in Nat /\ writes \in Nat /\ room \in 0 .. Room
      /\ sent \in Seq(Place) /\ Len(sent) \in Nat
  BY LenProperties DEF IInv, TypeOK
<1>4. k \in Nat /\ k <= size /\ k <= room /\ (size > 0 => k > 0)
  BY <1>2, <1>3, WriteAssumption DEF Accepted, Least
<1>5. /\ Piece(k) \in Seq(Place) /\ Len(Piece(k)) = k
      /\ \A i \in 1 .. k : Piece(k)[i] = [call |-> writes, byte |-> i]
  <2>1. \A i \in 1 .. k : [call |-> writes, byte |-> i] \in Place
    BY <1>3, <1>4 DEF Place
  <2>2. Piece(k) \in [1 .. k -> Place]
    BY <2>1 DEF Piece
  <2>3. Piece(k) \in Seq(Place) /\ DOMAIN Piece(k) = 1 .. k
    BY <1>4, <2>2, SeqDef
  <2>4. Len(Piece(k)) = k
    BY <1>4, <2>3, LenProperties
  <2>5. \A i \in 1 .. k : Piece(k)[i] = [call |-> writes, byte |-> i]
    BY DEF Piece
  <2> QED BY <2>3, <2>4, <2>5
<1>6. /\ sent' \in Seq(Place) /\ Len(sent') = Len(sent) + k
      /\ \A i \in 1 .. Len(sent) + k :
            sent'[i] = IF i <= Len(sent) THEN sent[i] ELSE Piece(k)[i - Len(sent)]
  BY <1>2, <1>3, <1>5, ConcatProperties
<1>7. ASSUME NEW i \in 1 .. Len(sent)
      PROVE  sent'[i] = sent[i] /\ sent[i].call < writes
  BY <1>1, <1>3, <1>4, <1>6 DEF IInv, Fresh
<1>8. ASSUME NEW i \in Len(sent) + 1 .. Len(sent) + k
      PROVE  sent'[i].call = writes /\ sent'[i].byte = i - Len(sent)
  <2>1. i - Len(sent) \in 1 .. k /\ ~(i <= Len(sent)) /\ i \in 1 .. Len(sent) + k
    BY <1>3, <1>4
  <2>2. sent'[i] = [call |-> writes, byte |-> i - Len(sent)]
    BY <2>1, <1>5, <1>6
  <2> QED BY <2>2
<1>9. ASSUME NEW i \in 1 .. Len(sent')
      PROVE  /\ sent'[i].call <= writes
             /\ sent'[i].byte = IF i > 1 /\ sent'[i - 1].call = sent'[i].call
                               THEN sent'[i - 1].byte + 1 ELSE 1
             /\ i > 1 => sent'[i - 1].call <= sent'[i].call
  <2>1. CASE i <= Len(sent)
    <3>1. i \in 1 .. Len(sent) /\ (i > 1 => i - 1 \in 1 .. Len(sent))
      BY <2>1, <1>3
    <3>2. sent[i] \in Place
      BY <3>1, <1>3, ElementOfSeq
    <3> QED BY <3>1, <3>2, <1>3, <1>7 DEF IInv, WireFollowsWrites, Place
  <2>2. CASE i = Len(sent) + 1
    <3>1. sent'[i].call = writes /\ sent'[i].byte = 1
      BY <2>2, <1>3, <1>4, <1>6, <1>8
    <3>2. i > 1 => sent'[i - 1].call < writes /\ sent'[i - 1].call \in Nat
      <4> SUFFICES ASSUME i > 1
                   PROVE  sent'[i - 1].call < writes /\ sent'[i - 1].call \in Nat
        OBVIOUS
      <4>1. i - 1 \in 1 .. Len(sent)
        BY <2>2, <1>3
      <4>2. sent[i - 1] \in Place
        BY <4>1, <1>3, ElementOfSeq
      <4> QED BY <4>1, <4>2, <1>7 DEF Place
    <3> QED BY <3>1, <3>2, <1>3
  <2>3. CASE i > Len(sent) + 1
    <3>1. /\ i \in Len(sent) + 1 .. Len(sent) + k
          /\ i - 1 \in Len(sent) + 1 .. Len(sent) + k
          /\ i > 1
      BY <2>3, <1>3, <1>4, <1>6
    <3>2. /\ sent'[i].call = writes /\ sent'[i].byte = i - Len(sent)
          /\ sent'[i - 1].call = writes
          /\ sent'[i - 1].byte = (i - 1) - Len(sent)
      BY <3>1, <1>8
    <3> QED BY <3>1, <3>2, <1>3
  <2> QED BY <2>1, <2>2, <2>3, <1>3, <1>4, <1>6
<1>10. size' > 0 => sent' # <<>> /\ sent'[Len(sent')] = [call |-> writes', byte |-> count']
  <2> SUFFICES ASSUME size > 0
               PROVE  /\ sent' # <<>>
                      /\ sent'[Len(sent')] = [call |-> writes, byte |-> k]
    BY <1>1, <1>2
  <2>1. /\ Len(sent') \in 1 .. Len(sent) + k /\ ~(Len(sent') <= Len(sent))
        /\ Len(sent') - Len(sent) = k /\ k \in 1 .. k /\ Len(sent') # 0
    BY <1>3, <1>4, <1>6
  <2>2. sent' # <<>>
    BY <2>1, EmptySeq
  <2> QED BY <2>1, <2>2, <1>5, <1>6
<1>11. WireFollowsWrites'
  BY <1>1, <1>9, <1>10 DEF WireFollowsWrites
<1>12. TypeOK'
  <2>1. /\ size' \in Nat /\ count' \in 0 .. size' /\ room' \in 0 .. Room
        /\ sent' \in Seq(Place) /\ writes' \in Nat
    <3>1. size' = size /\ writes' = writes /\ count' = k /\ room' = room - k
      BY <1>1, <1>2
    <3> QED BY <3>1, <1>3, <1>4, <1>6, WriteAssumption
  <2>2. /\ UNCHANGED <<input, unread, buffer, limit, delivered, promised, credit>>
        /\ UNCHANGED <<out, mark>>
    BY <1>1 DEF reader
  <2>3. /\ op' \in {"none", "read_line", "write"}
        /\ ret' \in {"none", "line", "data", "peek", "eof", "threw", "set", "sent"}
    BY <1>1
  <2> QED BY <2>1, <2>2, <2>3 DEF IInv, TypeOK
<1>13. Fresh'
  BY <1>1 DEF Fresh
<1> QED BY <1>1, <1>11, <1>12, <1>13
       DEF IInv, reader, StreamIntegrity, ReturnsTheStream, Promise,
           LineTerminated, InProgress

-----------------------------------------------------------------------------
(* The invariant.                                                          *)

LEMMA InitInv == Init => IInv
<1> SUFFICES ASSUME Init PROVE IInv
  OBVIOUS
<1>1. input \in Seq(Byte) /\ <<>> \in Seq(Byte) /\ Len(<<>>) = 0
  BY InputAssumption, EmptySeq DEF Init
<1>2. <<>> \o <<>> = <<>> /\ <<>> \o input = input
  BY <1>1, ConcatEmptySeq
<1>3. SubSeq(<<>>, 1, 0) = <<>>
  BY SubSeqEmpty
<1>4. TypeOK
  <2>1. /\ unread = input /\ input \in Inputs /\ limit = -1 /\ credit = 0
        /\ buffer = <<>> /\ out = <<>> /\ delivered = <<>>
        /\ promised = FALSE /\ op = "none" /\ ret = "none" /\ mark = 0
        /\ size = 0 /\ count = 0 /\ room = Room /\ sent = <<>> /\ writes = 0
    BY DEF Init
  <2>2. unread \in Seq(Byte) /\ buffer \in Seq(Byte) /\ out \in Seq(Byte)
        /\ delivered \in Seq(Byte) /\ mark \in 0 .. Len(delivered)
    BY <1>1, <2>1
  <2>3. promised \in BOOLEAN
    BY <2>1
  <2>4. /\ size \in Nat /\ count \in 0 .. size /\ room \in 0 .. Room
        /\ sent \in Seq(Place) /\ writes \in Nat
    BY <2>1, EmptySeq, WriteAssumption
  <2> QED BY <2>1, <2>2, <2>3, <2>4 DEF TypeOK
<1>6. StreamIntegrity
  BY <1>2 DEF Init, StreamIntegrity
<1>5. ReturnsTheStream
  BY <1>1, <1>2, <1>3 DEF Init, ReturnsTheStream
<1>7. WireFollowsWrites
  <2>1. sent = <<>> /\ Len(<<>>) = 0 /\ ret = "none"
    BY <1>1 DEF Init
  <2> QED BY <2>1 DEF WireFollowsWrites
<1> QED BY <1>4, <1>5, <1>6, <1>7
       DEF Init, IInv, Promise, LineTerminated, InProgress, Fresh

\* A call that ends with nothing new, or begins, moves no bytes.
LEMMA StepInv == IInv /\ [Next]_vars => IInv'
<1> SUFFICES ASSUME IInv, [Next]_vars PROVE IInv'
  OBVIOUS
<1>1. /\ BufSize \in Nat
      /\ delivered \in Seq(Byte) /\ Len(delivered) \in Nat
      /\ mark \in 0 .. Len(delivered) /\ Len(delivered) \in 0 .. Len(delivered)
      /\ <<>> \in Seq(Byte) /\ Len(<<>>) = 0
  BY SizeAssumption, EmptySeq, LenProperties DEF IInv, TypeOK
<1>2. delivered = SubSeq(delivered, 1, Len(delivered)) \o <<>>
  <2>1. SubSeq(delivered, 1, Len(delivered)) = delivered
    BY <1>1, SubSeqFull
  <2> QED BY <1>1, <2>1, ConcatEmptySeq
<1>3. CASE CallReadLine
  <2>1. /\ UNCHANGED <<input, unread, buffer, limit, delivered, promised, credit>>
        /\ mark' = Len(delivered) /\ UNCHANGED writer
        /\ op' = "read_line" /\ out' = <<>> /\ ret' = "none"
    BY <1>3 DEF CallReadLine, Begin, reader
  <2>2. TypeOK'
    BY <1>1, <2>1, WriterTypes DEF IInv, TypeOK
  <2>3. ReturnsTheStream'
    BY <1>2, <2>1 DEF ReturnsTheStream
  <2>4. WireFollowsWrites' /\ Fresh'
    BY <2>1, WireKept
  <2> QED BY <2>1, <2>2, <2>3, <2>4
         DEF IInv, StreamIntegrity, Promise, LineTerminated, InProgress
<1>4. CASE ReadLineStep
  <2>1. op = "read_line" /\ UNCHANGED <<input, mark, writer>>
    BY <1>4 DEF ReadLineStep
  <2>2. CASE Scan(buffer) /\ UNCHANGED <<unread, limit>>
    BY <2>1, <2>2, NoRead, ScanKeeps
  <2>3. CASE /\ buffer = <<>>
             /\ \E k \in Taken(BufSize) : Take(k) /\ Scan(SubSeq(unread, 1, k))
    <3>1. PICK k \in Taken(BufSize) : Take(k) /\ Scan(SubSeq(unread, 1, k))
      BY <2>3
    <3>2. AtHand(SubSeq(unread, 1, k))
      BY <1>1, <2>3, <3>1, FirstRead
    <3> QED BY <2>1, <3>1, <3>2, ScanKeeps
  <2> QED BY <1>4, <2>2, <2>3 DEF ReadLineStep
<1>5. CASE ReadLineEOF
  BY <1>5, WireKept DEF ReadLineEOF, Ends, reader, writer, IInv, TypeOK,
     StreamIntegrity, ReturnsTheStream, Promise, LineTerminated, InProgress
<1>6. CASE ReadLineThrows
  BY <1>6, WireKept DEF ReadLineThrows, ReadThrows, writer, IInv, TypeOK,
     StreamIntegrity, ReturnsTheStream, Promise, LineTerminated, InProgress
<1>7. ASSUME NEW m \in Counts, Read(m) PROVE IInv'
  <2>1. m \in Nat /\ input' = input /\ UNCHANGED writer /\ mark' = Len(delivered)
    BY <1>1, <1>7, CountAssumption DEF Read, Begin
  <2>2. CASE Hand(buffer, Least(m, Len(buffer))) /\ UNCHANGED <<unread, limit>>
    <3>1. AtHand(buffer) /\ Len(buffer) \in Nat
      BY <2>2, NoRead, LenProperties DEF AtHand
    <3>2. Least(m, Len(buffer)) \in 0 .. Len(buffer)
      BY <2>1, <3>1 DEF Least
    <3> QED BY <2>1, <2>2, <3>1, <3>2, HandKeeps
  <2>3. CASE /\ buffer = <<>>
             /\ \E k \in Taken(m) : Take(k) /\ Hand(SubSeq(unread, 1, k), k)
    <3>1. PICK k \in Taken(m) : Take(k) /\ Hand(SubSeq(unread, 1, k), k)
      BY <2>3
    <3>2. /\ AtHand(SubSeq(unread, 1, k))
          /\ Len(SubSeq(unread, 1, k)) = k /\ k \in Nat
      BY <2>1, <2>3, <3>1, FirstRead
    <3>3. k \in 0 .. Len(SubSeq(unread, 1, k))
      BY <3>2
    <3> QED BY <2>1, <3>1, <3>2, <3>3, HandKeeps
  <2> QED BY <1>7, <2>2, <2>3 DEF Read
<1>8. ASSUME NEW m \in Counts, Peek(m) PROVE IInv'
  <2>1. /\ m \in Nat /\ UNCHANGED writer /\ mark' = Len(delivered)
        /\ UNCHANGED <<input, delivered, promised, credit>>
    BY <1>1, <1>8, CountAssumption DEF Peek, Begin
  <2>2. CASE Show(buffer, m) /\ UNCHANGED <<unread, limit>>
    BY <2>1, <2>2, NoRead, ShowKeeps
  <2>3. CASE \E k \in Taken(m) : Take(k) /\ Show(buffer \o SubSeq(unread, 1, k), m)
    <3>1. PICK k \in Taken(m) : Take(k) /\ Show(buffer \o SubSeq(unread, 1, k), m)
      BY <2>3
    <3>2. AtHand(buffer \o SubSeq(unread, 1, k))
      BY <2>1, <3>1, OneRead
    <3> QED BY <2>1, <3>1, <3>2, ShowKeeps
  <2> QED BY <1>8, <2>2, <2>3 DEF Peek
<1>9. ASSUME NEW m \in Counts, ReadEnds(m) \/ PeekEnds(m) PROVE IInv'
  <2>1. /\ UNCHANGED <<input, buffer, delivered, promised, credit, unread, limit>>
        /\ mark' = Len(delivered)
        /\ out' = <<>> /\ op' = "none" /\ ret' \in {"eof", "threw"}
        /\ UNCHANGED writer
    BY <1>1, <1>9 DEF ReadEnds, PeekEnds, NothingRead, Begin, ReadThrows
  <2>2. WireFollowsWrites' /\ Fresh'
    BY <2>1, WireKept
  <2> QED BY <1>1, <1>2, <2>1, <2>2, WriterTypes
         DEF IInv, TypeOK, StreamIntegrity, ReturnsTheStream, Promise,
             LineTerminated, InProgress
<1>10. ASSUME NEW m \in Counts, SetLimit(m) PROVE IInv'
  <2>1. /\ m \in Nat /\ UNCHANGED writer
        /\ UNCHANGED <<input, unread, buffer, delivered>>
        /\ out' = <<>> /\ op' = "none" /\ ret' = "set" /\ mark' = Len(delivered)
        /\ limit' = m - Len(buffer) /\ credit' = m
        /\ promised' \in BOOLEAN /\ (promised' => ~(m < Len(buffer)))
    <3>1. promised' = ~(m < Len(buffer))
      BY <1>10 DEF SetLimit
    <3>2. promised' \in BOOLEAN /\ (promised' => ~(m < Len(buffer)))
      BY <3>1, Zenon
    <3>3. /\ m \in Nat /\ UNCHANGED writer
          /\ UNCHANGED <<input, unread, buffer, delivered>>
        /\ out' = <<>> /\ op' = "none" /\ ret' = "set" /\ mark' = Len(delivered)
          /\ limit' = m - Len(buffer) /\ credit' = m
      BY <1>1, <1>10, CountAssumption DEF SetLimit, Begin, Ends
    <3> QED BY <3>2, <3>3
  <2>2. Len(buffer) \in Nat /\ Len(buffer) <= Len(input) /\ Len(input) \in Nat
    <3>1. /\ delivered \o buffer \in Seq(Byte) /\ unread \in Seq(Byte)
          /\ buffer \in Seq(Byte) /\ input = (delivered \o buffer) \o unread
      BY <1>1, ConcatProperties DEF IInv, TypeOK, StreamIntegrity
    <3>2. /\ Len(input) = Len(delivered \o buffer) + Len(unread)
          /\ Len(delivered \o buffer) = Len(delivered) + Len(buffer)
          /\ Len(buffer) \in Nat /\ Len(unread) \in Nat
      BY <1>1, <3>1, ConcatProperties, LenProperties
    <3> QED BY <1>1, <3>2
  <2>3. TypeOK'
    BY <1>1, <2>1, <2>2, WriterTypes DEF IInv, TypeOK
  <2>4. Promise'
    BY <2>1, <2>2 DEF Promise
  <2>5. WireFollowsWrites' /\ Fresh'
    BY <2>1, WireKept
  <2> QED BY <1>2, <2>1, <2>3, <2>4, <2>5
         DEF IInv, StreamIntegrity, ReturnsTheStream, LineTerminated, InProgress
<1>11. ASSUME NEW n \in Sizes, CallWrite(n) PROVE IInv'
  <2>1. /\ UNCHANGED <<input, unread, buffer, limit, delivered, promised, credit>>
        /\ mark' = Len(delivered) /\ n \in Nat /\ writes \in Nat
        /\ op' = "write" /\ out' = <<>> /\ ret' = "none"
        /\ size' = n /\ count' = 0 /\ writes' = writes + 1
        /\ UNCHANGED <<room, sent>>
    BY <1>11, WriteAssumption DEF CallWrite, Begin, reader, IInv, TypeOK
  <2>2. TypeOK'
    BY <1>1, <2>1 DEF IInv, TypeOK
  <2>3. ReturnsTheStream'
    BY <1>2, <2>1 DEF ReturnsTheStream
  <2>4. sent \in Seq(Place) /\ Len(sent) \in Nat
    BY LenProperties DEF IInv, TypeOK
  <2>5. \A i \in 1 .. Len(sent) :
           /\ sent[i].call \in Nat /\ sent[i].call <= writes
           /\ sent[i].call < writes' /\ sent[i].call <= writes'
    <3> SUFFICES ASSUME NEW i \in 1 .. Len(sent)
                 PROVE  /\ sent[i].call \in Nat /\ sent[i].call <= writes
                        /\ sent[i].call < writes' /\ sent[i].call <= writes'
      OBVIOUS
    <3>1. sent[i] \in Place
      BY <2>4, ElementOfSeq
    <3>2. sent[i].call \in Nat /\ sent[i].call <= writes
      BY <3>1 DEF Place, IInv, WireFollowsWrites
    <3> QED BY <2>1, <3>2
  <2>6. WireFollowsWrites' /\ Fresh'
    BY <2>1, <2>5 DEF IInv, WireFollowsWrites, Fresh
  <2> QED BY <2>1, <2>2, <2>3, <2>6
         DEF IInv, StreamIntegrity, Promise, LineTerminated, InProgress
<1>12. CASE Send
  BY <1>12, SendKeeps
<1>13. CASE SendThrows
  BY <1>13, WireKept DEF SendThrows, reader, writer, IInv, TypeOK,
     StreamIntegrity, ReturnsTheStream, Promise, LineTerminated, InProgress
<1>14. CASE Drain
  <2>1. room' \in 0 .. Room
    BY <1>14, WriteAssumption DEF Drain, IInv, TypeOK
  <2> QED BY <1>14, <2>1 DEF Drain, reader, IInv, TypeOK, StreamIntegrity,
        ReturnsTheStream, Promise, LineTerminated, InProgress,
        WireFollowsWrites, Fresh
<1>15. CASE UNCHANGED vars
  BY <1>15 DEF vars, reader, writer, IInv, TypeOK, StreamIntegrity,
     ReturnsTheStream, Promise, LineTerminated, InProgress,
     WireFollowsWrites, Fresh
<1> QED BY <1>3, <1>4, <1>5, <1>6, <1>7, <1>8, <1>9, <1>10, <1>11, <1>12,
           <1>13, <1>14, <1>15
       DEF Next, ReadLineTurn, SendAgain

LEMMA Invariance == Spec => []IInv
  BY InitInv, StepInv, PTL DEF Spec

-----------------------------------------------------------------------------
(* The theorems.                                                           *)

\* For every stream, buffer size and sequence of calls the variables keep
\* their types; in particular the limit never underflows.
THEOREM TypeCorrect == Spec => []TypeOK
<1>1. IInv => TypeOK  BY DEF IInv
<1> QED BY <1>1, Invariance, PTL

\* The calls hand out the peer's stream in order, without loss, repetition
\* or reordering, however it is cut into reads and whichever calls fail.
THEOREM StreamIsKept == Spec => []StreamIntegrity
<1>1. IInv => StreamIntegrity  BY DEF IInv
<1> QED BY <1>1, Invariance, PTL

\* Each call returns exactly what it took off the stream, and peek() what the
\* next call will take.
THEOREM CallsReturnTheStream == Spec => []ReturnsTheStream
<1>1. IInv => ReturnsTheStream  BY DEF IInv
<1> QED BY <1>1, Invariance, PTL

\* set_limit(n) made with at most n bytes buffered bounds what all the calls
\* up to the next set_limit() hand out by n.
THEOREM LimitIsHonoured == Spec => []LimitHonoured
<1>1. IInv => LimitHonoured
  <2> SUFFICES ASSUME IInv, promised PROVE credit >= 0
    BY DEF LimitHonoured
  <2>1. Len(buffer) \in Nat /\ limit \in Int /\ credit = Len(buffer) + limit /\ limit >= 0
    BY LenProperties DEF IInv, TypeOK, Promise
  <2> QED BY <2>1
<1> QED BY <1>1, Invariance, PTL

\* A line that read_line() returns ends with a CRLF, also when it was put
\* together from several reads.
THEOREM LinesAreTerminated == Spec => []LineTerminated
<1>1. IInv => LineTerminated  BY DEF IInv
<1> QED BY <1>1, Invariance, PTL

\* For all sizes of the data and of the send buffer the wire carries the
\* beginning of each write(), in order and once, and the number write()
\* returned says how much of the last one.
THEOREM WireIsKept == Spec => []WireFollowsWrites
<1>1. IInv => WireFollowsWrites  BY DEF IInv
<1> QED BY <1>1, Invariance, PTL
=============================================================================
