---------------------- MODULE HTTPRequestHandlerProofs ----------------------
(***************************************************************************)
(* The safety of HTTPRequestHandler for every set of requests, either      *)
(* class and any number of requests on the connection, and that it         *)
(* implements RequestExchange.                                             *)
(***************************************************************************)
EXTENDS HTTPRequestHandler, RequestVersionProofs, TLAPS

\* The token that a write puts on the wire for the request being handled.
Item(kind, code) == [kind |-> kind, code |-> code, request |-> requests]

Begun == pc = "begin" => wire = <<>> /\ requests = 0 /\ error = 0 /\ headers_buffer = <<>>

\* What waits in the buffer is what the next flush is for.
Buffered ==
    /\ pc = "continue" => headers_buffer = <<100>>
    /\ pc = "error_head" => headers_buffer = <<error>>

Refusing ==
    /\ pc \in {"error_head", "error_body"} => error # 0 /\ close_connection
    /\ \A i \in 1 .. Len(wire) : wire[i].kind = "body" => wire[i].code \in Errors

Counted ==
    /\ pc \in {"headers", "continue", "examine", "handler"} => requests > 0
    /\ \A i \in 1 .. Len(wire) : wire[i].request <= requests

\* What is on the wire for the request being handled.
Answered ==
    /\ pc \in {"headers", "continue"} =>
          \A i \in 1 .. Len(wire) : wire[i].request # requests
    /\ pc \in {"examine", "handler", "error_head"} =>
          \A i \in 1 .. Len(wire) : wire[i].request = requests => wire[i].code = 100
    /\ pc = "error_body" =>
          /\ \A i \in 1 .. Len(wire) : wire[i].request = requests =>
                wire[i].code = 100 \/ (i = Len(wire) /\ wire[i] = Item("head", error))
          /\ request_version = HTTP09 \/ (wire # <<>> /\ wire[Len(wire)] = Item("head", error))
    /\ pc = "examine" /\ headers.expect = "100-continue" /\ TextIsAtLeast11(request_version) =>
          wire # <<>> /\ wire[Len(wire)] = Item("head", 100)

\* Why the connection is not to be closed.
Kept ==
    /\ pc = "headers" /\ ~close_connection =>
          req.parts = 3 /\ NumberIsAtLeast(req.version, 1, 1)
    /\ pc \in {"continue", "examine", "handler"} /\ ~close_connection =>
          /\ fields.connection # "close" /\ headers.connection # "close"
          /\ \/ fields.connection = "keep-alive"
             \/ req.parts = 3 /\ NumberIsAtLeast(req.version, 1, 1)
             \/ fields.connection = "absent" /\ headers.connection = "keep-alive"

IInv ==
    /\ TypeOK /\ NoHeadLeftBehind /\ ErrorEndsConnection /\ ResponsesWellFormed
    /\ ContinueComesFirst /\ KeptOnlyIfAllowed
    /\ Begun /\ Buffered /\ Refusing /\ Counted /\ Answered /\ Kept
-----------------------------------------------------------------------------
(* Lemmas about the operators.                                             *)

LEMMA MergedFields ==
    ASSUME NEW old \in Fields, NEW new \in Fields
    PROVE  Merged(old, new) \in Fields
BY DEF Merged, Fields

LEMMA Element ==
    ASSUME NEW S, NEW s \in Seq(S), NEW i \in 1 .. Len(s)
    PROVE  s[i] \in S
OBVIOUS

LEMMA AtMostOne ==
    ASSUME NEW S, NEW e \in S
    PROVE  /\ <<>> \in Seq(S) /\ Len(<<>>) <= 1
           /\ <<e>> \in Seq(S) /\ Len(<<e>>) <= 1
OBVIOUS

LEMMA TextIsAString ==
    ASSUME NEW version \in Seq(Seq(Int)), Len(version) = 2
    PROVE  Text(version) \in Seq(Int)
<1>1. 1 \in 1 .. Len(version) /\ 2 \in 1 .. Len(version)
  OBVIOUS
<1>2. version[1] \in Seq(Int) /\ version[2] \in Seq(Int)
  BY <1>1, Element
<1>3. <<Dot>> \in Seq(Int)
  BY DEF Dot
<1>. QED  BY <1>2, <1>3 DEF Text

LEMMA HTTP09IsAString == HTTP09 \in Seq(Int)
BY DEF HTTP09, Dot

LEMMA OneMore ==
    ASSUME NEW w \in Seq(Token), NEW t \in Token
    PROVE  /\ Append(w, t) \in Seq(Token) /\ Append(w, t) # <<>>
           /\ Len(Append(w, t)) = Len(w) + 1 /\ Append(w, t)[Len(w) + 1] = t
           /\ \A i \in 1 .. Len(w) : Append(w, t)[i] = w[i]
OBVIOUS

LEMMA OneHead ==
    ASSUME NEW c, headers_buffer = <<c>>, wire \in Seq(Token), Item("head", c) \in Token
    PROVE  wire \o Heads = Append(wire, Item("head", c))
<1>1. Heads = <<Item("head", c)>>
  BY DEF Heads, Item
<1>. QED  BY <1>1

LEMMA RequestFacts ==
    ASSUME NEW r \in Requests
    PROVE  r \in Request /\ r.version \in Seq(Seq(Int))
BY RequestAssumption DEF Request

\* One more token for the request being handled, behind those it may follow.
LEMMA Answer ==
    ASSUME TypeOK, ResponsesWellFormed, Counted, Refusing,
           NEW t \in Token, t.request = requests, wire' = Append(wire, t),
           requests' = requests, request_version' = request_version,
           \A i \in 1 .. Len(wire) : wire[i].request = requests =>
              \/ wire[i].code = 100 /\ t.code # 100
              \/ wire[i].kind = "head" /\ t.kind = "body" /\ wire[i].code = t.code,
           t.kind = "body" =>
              /\ t.code \in Errors
              /\ request_version = HTTP09
                    \/ (wire # <<>> /\ wire[Len(wire)] = [t EXCEPT !.kind = "head"])
    PROVE  /\ ResponsesWellFormed'
           /\ \A i \in 1 .. Len(wire') : wire'[i].request <= requests'
           /\ \A i \in 1 .. Len(wire') : wire'[i].kind = "body" => wire'[i].code \in Errors
           /\ wire' \in Seq(Token)
<1> DEFINE n == Len(wire)
<1>1. /\ wire \in Seq(Token) /\ requests \in Nat /\ n \in Nat /\ wire' \in Seq(Token)
      /\ Len(wire') = n + 1 /\ wire'[n + 1] = t
      /\ \A i \in 1 .. n : wire'[i] = wire[i]
  BY OneMore DEF TypeOK
<1>2. \A i \in 1 .. n + 1 : i \in 1 .. n \/ i = n + 1
  BY <1>1
<1>3. \A i \in 1 .. n : wire[i].request <= requests /\ wire[i].request \in Nat
  <2>1. \A i \in 1 .. n : wire[i] \in Token
    BY <1>1
  <2>. QED  BY <2>1, <1>1 DEF Counted, Token
<1>4. ResponsesWellFormed'
  <2>1. ASSUME NEW i \in 1 .. n + 1, NEW j \in 1 .. n + 1, i < j
        PROVE  /\ wire'[i].request <= wire'[j].request
               /\ wire'[i].request = wire'[j].request =>
                     \/ wire'[i].code = 100 /\ wire'[j].code # 100
                     \/ /\ wire'[i].kind = "head" /\ wire'[j].kind = "body"
                        /\ wire'[i].code = wire'[j].code
    <3>1. i \in 1 .. n /\ (j \in 1 .. n \/ j = n + 1)
      BY <2>1, <1>1
    <3>2. CASE j \in 1 .. n
      BY <3>1, <3>2, <2>1, <1>1 DEF ResponsesWellFormed
    <3>3. CASE j = n + 1
      <4>1. wire'[i] = wire[i] /\ wire'[j] = t
        BY <3>1, <3>3, <1>1
      <4>. QED  BY <4>1, <3>1, <1>3
    <3>. QED  BY <3>1, <3>2, <3>3
  <2>2. ASSUME NEW j \in 1 .. n + 1, wire'[j].kind = "body"
        PROVE  \/ request_version' = HTTP09
               \/ j > 1 /\ wire'[j - 1] = [wire'[j] EXCEPT !.kind = "head"]
    <3>1. CASE j \in 1 .. n
      <4>1. \/ request_version = HTTP09
            \/ j > 1 /\ wire[j - 1] = [wire[j] EXCEPT !.kind = "head"]
        BY <3>1, <2>2, <1>1 DEF ResponsesWellFormed
      <4>2. j > 1 => j - 1 \in 1 .. n
        BY <3>1, <1>1
      <4>. QED  BY <4>1, <4>2, <3>1, <1>1
    <3>2. CASE j = n + 1
      <4>1. wire # <<>> => n > 0 /\ n + 1 > 1 /\ n \in 1 .. n
        BY <1>1
      <4>2. wire'[j] = t /\ j - 1 = n
        BY <3>2, <1>1
      <4>3. \/ request_version = HTTP09
            \/ wire # <<>> /\ wire[n] = [t EXCEPT !.kind = "head"]
        BY <4>2, <2>2
      <4>4. wire # <<>> => wire'[n] = wire[n]
        BY <4>1, <1>1
      <4>. QED  BY <4>1, <4>2, <4>3, <4>4, <3>2
    <3>. QED  BY <3>1, <3>2, <1>2
  <2>3. Len(wire') = n + 1
    BY <1>1
  <2>. HIDE DEF n
  <2>. QED  BY <2>1, <2>2, <2>3 DEF ResponsesWellFormed
<1>5. \A i \in 1 .. Len(wire') : wire'[i].request <= requests'
  BY <1>1, <1>2, <1>3
<1>6. \A i \in 1 .. Len(wire') : wire'[i].kind = "body" => wire'[i].code \in Errors
  BY <1>1, <1>2 DEF Refusing
<1>. QED  BY <1>1, <1>4, <1>5, <1>6

-----------------------------------------------------------------------------
(* The inductive invariant.                                                *)

LEMMA InitInv == Init => IInv
<1> SUFFICES ASSUME Init PROVE IInv
  OBVIOUS
<1>1. TypeOK
  <2>1. NoFields \in Fields
    BY DEF NoFields, Fields
  <2>2. <<>> \in Seq(Int) /\ <<>> \in Seq(Errors \cup {100}) /\ <<>> \in Seq(Token) /\ Len(<<>>) <= 1
    OBVIOUS
  <2>3. "begin" \in PCs
    BY DEF PCs
  <2>. QED  BY <2>1, <2>2, <2>3 DEF Init, TypeOK
<1>2. NoHeadLeftBehind /\ ErrorEndsConnection /\ ResponsesWellFormed
  BY DEF Init, NoHeadLeftBehind, ErrorEndsConnection, ResponsesWellFormed
<1>3. ContinueComesFirst /\ KeptOnlyIfAllowed
  BY DEF Init, ContinueComesFirst, KeptOnlyIfAllowed
<1>4. Begun /\ Buffered /\ Refusing /\ Counted /\ Answered /\ Kept
  BY DEF Init, Begun, Buffered, Refusing, Counted, Answered, Kept
<1>. QED  BY <1>1, <1>2, <1>3, <1>4 DEF IInv

\* While a request line is awaited no error response has been begun.
LEMMA Clean ==
    ASSUME IInv, pc = "read_line"
    PROVE  /\ error = 0 /\ headers_buffer = <<>>
           /\ \A i \in 1 .. Len(wire) : wire[i].code \notin Errors /\ wire[i].kind # "body"
           /\ \A i \in 1 .. Len(wire) : wire[i].request < requests + 1
<1>1. error = 0 /\ headers_buffer = <<>>
  BY DEF IInv, ErrorEndsConnection, NoHeadLeftBehind
<1>2. \A i \in 1 .. Len(wire) : wire[i].code \notin Errors /\ wire[i].kind # "body"
  BY DEF IInv, ErrorEndsConnection, Refusing
<1>3. \A i \in 1 .. Len(wire) : wire[i].request < requests + 1
  <2>1. ASSUME NEW i \in 1 .. Len(wire) PROVE wire[i].request < requests + 1
    <3>1. wire[i] \in Token /\ requests \in Nat
      BY Element DEF IInv, TypeOK
    <3>. QED  BY <3>1 DEF IInv, Counted, Token
  <2>. QED  BY <2>1
<1>. QED  BY <1>1, <1>2, <1>3

\* The handling ends here, with what is on the wire.
LEMMA Ends ==
    ASSUME IInv, pc' \in {"close_io", "closed", "threw"},
           req' \in Requests \cup {NoRequest}, malformed' \in BOOLEAN, fields' \in Fields,
           headers' = headers, close_connection' \in BOOLEAN,
           request_version' \in Seq(Int), headers_buffer' = headers_buffer,
           pc' # "threw" => headers_buffer = <<>>,
           error' \in Errors \cup {0}, wire' = wire,
           requests' \in Nat, requests <= requests', ResponsesWellFormed'
    PROVE  IInv'
<1>1. TypeOK'
  BY DEF IInv, TypeOK, PCs
<1>2. NoHeadLeftBehind' /\ ErrorEndsConnection'
  BY DEF NoHeadLeftBehind, ErrorEndsConnection
<1>3. ContinueComesFirst' /\ KeptOnlyIfAllowed'
  BY DEF ContinueComesFirst, KeptOnlyIfAllowed
<1>4. Counted'
  <2>1. ASSUME NEW i \in 1 .. Len(wire) PROVE wire[i].request <= requests'
    <3>1. wire[i] \in Token /\ requests \in Nat /\ wire[i].request <= requests
      BY Element DEF IInv, TypeOK, Counted
    <3>. QED  BY <3>1 DEF Token
  <2>. QED  BY <2>1 DEF Counted
<1>5. Begun' /\ Buffered' /\ Answered' /\ Kept'
  BY DEF Begun, Buffered, Answered, Kept
<1>6. Refusing'
  BY DEF IInv, Refusing
<1>. QED  BY <1>1, <1>2, <1>3, <1>4, <1>5, <1>6 DEF IInv

\* send_error() begins a response; at most a 100 was sent for the request.
LEMMA Refuses ==
    ASSUME IInv, headers_buffer = <<>>,
           NEW code \in Errors, SendError(code, request_version'),
           req' \in Requests \cup {NoRequest}, malformed' \in BOOLEAN, fields' \in Fields,
           headers' = headers,
           request_version' \in Seq(Int), wire' = wire, requests' \in Nat, ResponsesWellFormed',
           \A i \in 1 .. Len(wire) :
              /\ wire[i].request <= requests'
              /\ wire[i].request = requests' => wire[i].code = 100
    PROVE  IInv'
<1>1. /\ error' = code /\ close_connection' = TRUE
      /\ \/ pc' = "error_body" /\ headers_buffer' = <<>> /\ request_version' = HTTP09
         \/ pc' = "error_head" /\ headers_buffer' = <<code>>
  BY DEF SendError
<1>2. TypeOK'
  <2>1. headers_buffer' \in Seq(Errors \cup {100}) /\ Len(headers_buffer') <= 1
    BY <1>1, AtMostOne
  <2>2. pc' \in PCs
    BY <1>1 DEF PCs
  <2>. QED  BY <1>1, <2>1, <2>2 DEF IInv, TypeOK
<1>3. NoHeadLeftBehind' /\ ErrorEndsConnection'
  BY <1>1 DEF NoHeadLeftBehind, ErrorEndsConnection
<1>4. ContinueComesFirst' /\ KeptOnlyIfAllowed' /\ Begun' /\ Buffered' /\ Kept'
  BY <1>1 DEF ContinueComesFirst, KeptOnlyIfAllowed, Begun, Buffered, Kept
<1>5. Refusing'
  BY <1>1 DEF IInv, Refusing, Errors
<1>6. Counted' /\ Answered'
  BY <1>1 DEF Counted, Answered
<1>. QED  BY <1>2, <1>3, <1>4, <1>5, <1>6 DEF IInv

\* A new request: no response to it, and no error response, is on the wire.
LEMMA Received ==
    ASSUME IInv, NEW r \in Requests, Receive(r)
    PROVE  /\ ResponsesWellFormed' /\ requests' \in Nat /\ requests <= requests'
           /\ requests' > 0 /\ headers_buffer = <<>> /\ wire' = wire
           /\ headers' = headers /\ req' = r /\ malformed' = FALSE /\ fields' = NoFields
           /\ \A i \in 1 .. Len(wire) : wire[i].request <= requests' /\ wire[i].request # requests'
<1>1. /\ pc = "read_line" /\ wire' = wire /\ requests' = requests + 1 /\ requests \in Nat
      /\ headers' = headers /\ req' = r /\ malformed' = FALSE /\ fields' = NoFields
  BY DEF Receive, IInv, TypeOK
<1>2. ResponsesWellFormed'
  BY <1>1, Clean DEF IInv, ResponsesWellFormed
<1>3. ASSUME NEW i \in 1 .. Len(wire)
      PROVE  wire[i].request <= requests' /\ wire[i].request # requests'
  <2>1. wire[i] \in Token
    BY Element DEF IInv, TypeOK
  <2>. QED  BY <2>1, <1>1, Clean DEF Token
<1>. QED  BY <1>1, <1>2, <1>3, Clean

LEMMA RequestLineKeeps ==
    ASSUME IInv, NEW r \in Requests, RequestLine(r)
    PROVE  IInv'
<1>1. Receive(r)
  BY DEF RequestLine, LineTooLong, EncodingThrows, BadRequestLine,
                    BlankRequestLine, VersionThrows,
         VersionNotSupported, GoodRequestLine, Parse
<1>2. /\ ResponsesWellFormed' /\ requests' \in Nat /\ requests <= requests' /\ requests' > 0
      /\ headers_buffer = <<>> /\ wire' = wire /\ headers' = headers /\ req' = r
      /\ malformed' = FALSE /\ fields' = NoFields /\ NoFields \in Fields
      /\ \A i \in 1 .. Len(wire) : wire[i].request <= requests' /\ wire[i].request # requests'
  BY <1>1, Received DEF NoFields, Fields
<1>3. HTTP09 \in Seq(Int) /\ request_version \in Seq(Int) /\ {400, 414, 505} \subseteq Errors
  BY HTTP09IsAString DEF IInv, TypeOK, Errors
<1>4. CASE LineTooLong(r)
  BY <1>2, <1>3, <1>4, Refuses DEF LineTooLong
<1>5. CASE BadRequestLine(r)
  BY <1>2, <1>3, <1>5, Refuses DEF BadRequestLine
<1>6. CASE VersionNotSupported(r)
  BY <1>2, <1>3, <1>6, Refuses DEF VersionNotSupported
<1>7. CASE BlankRequestLine(r)
  BY <1>2, <1>3, <1>7, Ends DEF BlankRequestLine, Return
<1>8. CASE VersionThrows(r)
  BY <1>2, <1>3, <1>8, Ends DEF VersionThrows
<1>10. CASE EncodingThrows(r)
  BY <1>2, <1>3, <1>10, Ends DEF EncodingThrows
<1>9. CASE GoodRequestLine(r)
  <2>1. /\ pc' = "headers" /\ error' = 0 /\ headers_buffer' = <<>>
        /\ close_connection' \in BOOLEAN /\ request_version' \in Seq(Int)
        /\ ~close_connection' => r.parts = 3 /\ NumberIsAtLeast(r.version, 1, 1)
    <3>1. CASE r.parts = 2 /\ request_version' = HTTP09 /\ close_connection' = TRUE
      BY <1>2, <1>3, <1>9, <3>1 DEF GoodRequestLine
    <3>2. CASE /\ TwoNumbers(r) /\ request_version' = Text(r.version)
               /\ close_connection' = ~NumberIsAtLeast(r.version, 1, 1)
      <4>1. Text(r.version) \in Seq(Int)
        BY <3>2, RequestFacts, TextIsAString DEF TwoNumbers
      <4>2. NumberIsAtLeast(r.version, 1, 1) \in BOOLEAN
        BY DEF NumberIsAtLeast
      <4>. QED  BY <1>2, <1>9, <3>2, <4>1, <4>2 DEF GoodRequestLine, TwoNumbers
    <3>. QED  BY <1>9, <3>1, <3>2 DEF GoodRequestLine
  <2>2. TypeOK'
    BY <1>2, <2>1, AtMostOne DEF IInv, TypeOK, PCs
  <2>3. NoHeadLeftBehind' /\ ErrorEndsConnection'
    BY <1>1, <1>2, <2>1, Clean DEF NoHeadLeftBehind, ErrorEndsConnection, Receive
  <2>4. ContinueComesFirst' /\ KeptOnlyIfAllowed' /\ Begun' /\ Buffered' /\ Kept'
    BY <1>2, <2>1 DEF ContinueComesFirst, KeptOnlyIfAllowed, Begun, Buffered, Kept
  <2>5. Refusing' /\ Counted' /\ Answered'
    BY <1>2, <2>1 DEF IInv, Refusing, Counted, Answered
  <2>. QED  BY <1>2, <2>2, <2>3, <2>4, <2>5 DEF IInv
<1>. QED  BY <1>4, <1>5, <1>6, <1>7, <1>8, <1>9, <1>10 DEF RequestLine

\* A head is written: it is the next token for the request being handled.
LEMMA FlushKeeps ==
    ASSUME IInv, FlushContinue \/ FlushError
    PROVE  IInv'
<1> DEFINE code == headers_buffer[1]
           t == Item("head", code)
<1>1. /\ headers_buffer = <<code>> /\ code # 0 /\ t \in Token
      /\ t = [kind |-> "head", code |-> code, request |-> requests]
      /\ t.kind = "head" /\ t.code = code /\ t.request = requests
      /\ \/ pc = "continue" /\ pc' = "examine" /\ code = 100
         \/ pc = "error_head" /\ pc' = "error_body" /\ code = error /\ code \in Errors
  <2>1. requests \in Nat /\ error \in Errors \cup {0}
    BY DEF IInv, TypeOK
  <2>2. CASE FlushContinue
    <3>1. headers_buffer = <<100>> /\ code = 100
      BY <2>2 DEF IInv, Buffered, FlushContinue, Flush
    <3>. QED  BY <2>1, <2>2, <3>1 DEF FlushContinue, Flush, Item, Token
  <2>3. CASE FlushError
    <3>1. headers_buffer = <<error>> /\ code = error /\ error # 0
      BY <2>3 DEF IInv, Buffered, Refusing, FlushError, Flush
    <3>. QED  BY <2>1, <2>3, <3>1 DEF FlushError, Flush, Item, Token
  <2>. QED  BY <2>2, <2>3
<1>2. /\ wire' = Append(wire, t) /\ headers_buffer' = <<>>
      /\ req' = req /\ malformed' = malformed /\ fields' = fields /\ headers' = headers
      /\ close_connection' = close_connection
      /\ request_version' = request_version /\ error' = error /\ requests' = requests
  <2>1. wire' = wire \o Heads
    BY DEF FlushContinue, FlushError, Flush
  <2>2. wire \o Heads = Append(wire, t)
    BY <1>1, OneHead DEF IInv, TypeOK
  <2>. QED  BY <2>1, <2>2 DEF FlushContinue, FlushError, Flush
<1>3. \A i \in 1 .. Len(wire) : wire[i].request = requests => wire[i].code = 100 /\ code # 100
  BY <1>1 DEF IInv, Answered, Errors
<1>. HIDE DEF code, t
<1>4. /\ ResponsesWellFormed' /\ wire' \in Seq(Token)
      /\ \A i \in 1 .. Len(wire') : wire'[i].request <= requests'
      /\ \A i \in 1 .. Len(wire') : wire'[i].kind = "body" => wire'[i].code \in Errors
  BY <1>1, <1>2, <1>3, Answer DEF IInv
<1>5. /\ wire' # <<>> /\ Len(wire') = Len(wire) + 1 /\ wire'[Len(wire')] = t
      /\ \A i \in 1 .. Len(wire') : i = Len(wire') \/ (i \in 1 .. Len(wire) /\ wire'[i] = wire[i])
  <2>1. Len(wire) \in Nat
    BY DEF IInv, TypeOK
  <2>. QED  BY <1>1, <1>2, <2>1, OneMore DEF IInv, TypeOK
<1>6. TypeOK'
  BY <1>1, <1>2, <1>4, AtMostOne DEF IInv, TypeOK, PCs
<1>7. NoHeadLeftBehind' /\ Begun' /\ Buffered' /\ KeptOnlyIfAllowed' /\ Kept'
  BY <1>1, <1>2 DEF IInv, NoHeadLeftBehind, Begun, Buffered, KeptOnlyIfAllowed, Kept
<1>8. ErrorEndsConnection'
  BY <1>1, <1>2, <1>5 DEF IInv, ErrorEndsConnection, Errors
<1>9. Refusing' /\ Counted'
  BY <1>1, <1>2, <1>4 DEF IInv, Refusing, Counted
<1>10. Answered' /\ ContinueComesFirst'
  <2>1. CASE pc = "continue" /\ pc' = "examine" /\ code = 100
    <3>1. \A i \in 1 .. Len(wire') : wire'[i].request = requests' => wire'[i].code = 100
      BY <1>1, <1>2, <1>5, <2>1 DEF IInv, Answered
    <3>2. wire'[Len(wire')] = Item("head", 100)'
      BY <1>1, <1>2, <1>5, <2>1 DEF Item
    <3>. QED  BY <1>5, <2>1, <3>1, <3>2 DEF Answered, ContinueComesFirst
  <2>2. CASE pc = "error_head" /\ pc' = "error_body" /\ code = error
    <3>1. wire'[Len(wire')] = Item("head", error)'
      BY <1>1, <1>2, <1>5, <2>2 DEF Item
    <3>2. \A i \in 1 .. Len(wire) : wire[i].request = requests => wire[i].code = 100
      BY <2>2 DEF IInv, Answered
    <3>. QED  BY <1>2, <1>5, <2>2, <3>1, <3>2 DEF Answered, ContinueComesFirst
  <2>. QED  BY <1>1, <2>1, <2>2
<1>. QED  BY <1>4, <1>6, <1>7, <1>8, <1>9, <1>10 DEF IInv

\* The body of an error response, written or not, is the last that is done.
LEMMA SendErrorBodyKeeps ==
    ASSUME IInv, SendErrorBody
    PROVE  IInv'
<1> DEFINE t == Item("body", error)
<1>1. /\ pc = "error_body" /\ close_connection = TRUE /\ pc' = "close_io" /\ close_connection' = TRUE
      /\ error \in Errors /\ requests \in Nat /\ headers_buffer = <<>>
      /\ req' = req /\ malformed' = malformed /\ fields' = fields /\ headers' = headers
      /\ request_version' = request_version
      /\ headers_buffer' = headers_buffer /\ error' = error /\ requests' = requests
  BY DEF IInv, TypeOK, Refusing, NoHeadLeftBehind, SendErrorBody, Return
<1>2. CASE wire' = wire
  <2>1. ResponsesWellFormed'
    BY <1>1, <1>2 DEF IInv, ResponsesWellFormed
  <2>. QED  BY <1>1, <1>2, <2>1, Ends DEF IInv, TypeOK
<1>3. CASE wire' = Append(wire, t)
  <2>1. /\ t \in Token /\ t.kind = "body" /\ t.code = error /\ t.request = requests
        /\ [t EXCEPT !.kind = "head"] = Item("head", error) /\ error # 100
        /\ Item("head", error).kind = "head" /\ Item("head", error).code = error
    BY <1>1 DEF Item, Token, Errors
  <2>2. /\ \A i \in 1 .. Len(wire) : wire[i].request = requests =>
              wire[i].code = 100 \/ (i = Len(wire) /\ wire[i] = Item("head", error))
        /\ request_version = HTTP09 \/ (wire # <<>> /\ wire[Len(wire)] = Item("head", error))
    BY <1>1 DEF IInv, Answered
  <2>. HIDE DEF t
  <2>3. /\ ResponsesWellFormed' /\ wire' \in Seq(Token)
        /\ \A i \in 1 .. Len(wire') : wire'[i].request <= requests'
        /\ \A i \in 1 .. Len(wire') : wire'[i].kind = "body" => wire'[i].code \in Errors
    BY <1>1, <1>3, <2>1, <2>2, Answer DEF IInv
  <2>4. TypeOK'
    BY <1>1, <2>3 DEF IInv, TypeOK, PCs
  <2>5. NoHeadLeftBehind' /\ ErrorEndsConnection'
    BY <1>1 DEF NoHeadLeftBehind, ErrorEndsConnection
  <2>6. ContinueComesFirst' /\ KeptOnlyIfAllowed' /\ Begun' /\ Buffered' /\ Answered' /\ Kept'
    BY <1>1 DEF ContinueComesFirst, KeptOnlyIfAllowed, Begun, Buffered, Answered, Kept
  <2>7. Refusing' /\ Counted'
    BY <1>1, <2>3 DEF Refusing, Counted
  <2>. QED  BY <2>3, <2>4, <2>5, <2>6, <2>7 DEF IInv
<1>. QED  BY <1>2, <1>3 DEF SendErrorBody, Item

LEMMA HandlerReturnsKeeps ==
    ASSUME IInv, HandlerReturns
    PROVE  IInv'
<1> DEFINE t == Item("handler", 0)
<1>1. /\ pc = "handler" /\ close_connection' = close_connection
      /\ pc' = "close_io" \/ (pc' = "read_line" /\ ~close_connection)
      /\ error = 0 /\ requests \in Nat /\ requests > 0 /\ headers_buffer = <<>>
      /\ \A i \in 1 .. Len(wire) : wire[i].code \notin Errors
      /\ \A i \in 1 .. Len(wire) : wire[i].request = requests => wire[i].code = 100
      /\ req' = req /\ malformed' = malformed /\ fields' = fields /\ headers' = headers
      /\ request_version' = request_version
      /\ headers_buffer' = headers_buffer /\ error' = error /\ requests' = requests
  BY DEF IInv, TypeOK, ErrorEndsConnection, NoHeadLeftBehind, Counted, Answered, HandlerReturns, Return
<1>2. t \in Token /\ t.kind = "handler" /\ t.code = 0 /\ t.request = requests
  BY <1>1 DEF Item, Token
<1>3. wire' = wire \/ wire' = Append(wire, t)
  BY DEF HandlerReturns, Item
<1>. HIDE DEF t
<1>4. /\ ResponsesWellFormed' /\ wire' \in Seq(Token)
      /\ \A i \in 1 .. Len(wire') : wire'[i].request <= requests'
      /\ \A i \in 1 .. Len(wire') : wire'[i].kind = "body" => wire'[i].code \in Errors
  <2>1. CASE wire' = wire
    BY <1>1, <2>1 DEF IInv, TypeOK, ResponsesWellFormed, Counted, Refusing
  <2>2. CASE wire' = Append(wire, t)
    <3>1. \A i \in 1 .. Len(wire) : wire[i].request = requests => wire[i].code = 100 /\ t.code # 100
      BY <1>1, <1>2
    <3>2. t.kind # "body" /\ request_version' = request_version /\ requests' = requests
      BY <1>1, <1>2
    <3>3. TypeOK /\ ResponsesWellFormed /\ Counted /\ Refusing
      BY DEF IInv
    <3>. QED  BY <1>2, <2>2, <3>1, <3>2, <3>3, Answer
  <2>. QED  BY <1>3, <2>1, <2>2
<1>5. \A i \in 1 .. Len(wire') : wire'[i].code \notin Errors
  <2>1. CASE wire' = wire
    BY <1>1, <2>1
  <2>2. CASE wire' = Append(wire, t)
    <3>1. Len(wire) \in Nat /\ Len(wire') = Len(wire) + 1 /\ wire'[Len(wire) + 1] = t
      BY <1>2, <2>2, OneMore DEF IInv, TypeOK
    <3>2. \A i \in 1 .. Len(wire) : wire'[i] = wire[i]
      BY <1>2, <2>2, OneMore DEF IInv, TypeOK
    <3>. QED  BY <1>1, <1>2, <3>1, <3>2 DEF Errors
  <2>. QED  BY <1>3, <2>1, <2>2
<1>6. TypeOK'
  BY <1>1, <1>4 DEF IInv, TypeOK, PCs
<1>7. NoHeadLeftBehind' /\ ErrorEndsConnection'
  BY <1>1, <1>5 DEF NoHeadLeftBehind, ErrorEndsConnection
<1>8. ContinueComesFirst' /\ Begun' /\ Buffered' /\ Answered' /\ Kept'
  BY <1>1 DEF ContinueComesFirst, Begun, Buffered, Answered, Kept
<1>9. KeptOnlyIfAllowed'
  BY <1>1 DEF IInv, Kept, KeptOnlyIfAllowed
<1>10. Refusing' /\ Counted'
  BY <1>1, <1>4 DEF Refusing, Counted
<1>. QED  BY <1>4, <1>6, <1>7, <1>8, <1>9, <1>10 DEF IInv

LEMMA HeadersReadKeeps ==
    ASSUME IInv, NEW f \in FieldSets, HeadersRead(f)
    PROVE  IInv'
<1> DEFINE expects == headers'.expect = "100-continue" /\ TextIsAtLeast11(request_version)
<1>1. /\ pc = "headers" /\ error = 0 /\ headers_buffer = <<>> /\ requests > 0
      /\ req' = req /\ malformed' = malformed /\ fields' = f
      /\ request_version' = request_version /\ error' = error
      /\ wire' = wire /\ requests' = requests
      /\ \/ expects /\ pc' = "continue" /\ headers_buffer' = <<100>>
         \/ ~expects /\ pc' = "examine" /\ headers_buffer' = <<>>
  BY DEF IInv, NoHeadLeftBehind, ErrorEndsConnection, Counted, HeadersRead
<1>2. headers' \in Fields
  <2>1. f \in Fields
    BY FieldsAssumption
  <2>2. NoFields \in Fields /\ headers \in Fields
    BY DEF IInv, TypeOK, NoFields, Fields
  <2>. QED  BY <2>1, <2>2, MergedFields DEF HeadersRead
<1>3. /\ close_connection' \in BOOLEAN /\ f \in Fields
      /\ ~close_connection' => /\ headers'.connection # "close"
                               /\ \/ headers'.connection = "keep-alive"
                                  \/ ~close_connection
      /\ f.connection \in {"absent", headers'.connection}
  <2>1. f \in Fields
    BY FieldsAssumption
  <2>2. f.connection \in {"absent", headers'.connection}
    BY <2>1 DEF HeadersRead, Merged, Fields
  <2>3. /\ close_connection' \in BOOLEAN
        /\ ~close_connection' => /\ headers'.connection # "close"
                                 /\ \/ headers'.connection = "keep-alive"
                                    \/ ~close_connection
    BY DEF HeadersRead, IInv, TypeOK
  <2>. QED  BY <2>1, <2>2, <2>3
<1>4. /\ ResponsesWellFormed'
      /\ \A i \in 1 .. Len(wire) : wire[i].code \notin Errors
      /\ \A i \in 1 .. Len(wire) : wire[i].request # requests
  BY <1>1 DEF IInv, ResponsesWellFormed, ErrorEndsConnection, Answered
<1>. HIDE DEF expects
<1>5. TypeOK'
  BY <1>1, <1>2, <1>3, AtMostOne DEF IInv, TypeOK, PCs
<1>6. NoHeadLeftBehind' /\ ErrorEndsConnection'
  BY <1>1, <1>4 DEF NoHeadLeftBehind, ErrorEndsConnection
<1>7. ContinueComesFirst' /\ KeptOnlyIfAllowed' /\ Begun' /\ Buffered' /\ Answered'
  BY <1>1, <1>4 DEF expects, ContinueComesFirst, KeptOnlyIfAllowed, Begun, Buffered, Answered
<1>8. Refusing' /\ Counted' /\ Kept'
  BY <1>1, <1>3 DEF IInv, Refusing, Counted, Kept
<1>. QED  BY <1>4, <1>5, <1>6, <1>7, <1>8 DEF IInv

LEMMA CallHandlerKeeps ==
    ASSUME IInv, CallHandler
    PROVE  IInv'
<1>1. /\ pc = "examine" /\ pc' = "handler" /\ error = 0 /\ headers_buffer = <<>> /\ requests > 0
      /\ req' = req /\ malformed' = malformed /\ fields' = fields
      /\ request_version' = request_version /\ error' = error
      /\ wire' = wire /\ requests' = requests /\ headers_buffer' = headers_buffer
  BY DEF IInv, NoHeadLeftBehind, ErrorEndsConnection, Counted, CallHandler
<1>2. /\ headers' \in Fields /\ headers'.expect = headers.expect /\ close_connection' \in BOOLEAN
      /\ ~close_connection' => ~close_connection /\ headers' = headers
  BY DEF CallHandler, CleanupHeaders, IInv, TypeOK, Fields
<1>3. /\ ResponsesWellFormed' /\ ErrorEndsConnection'
      /\ Answered' /\ ContinueComesFirst'
  BY <1>1, <1>2 DEF IInv, ResponsesWellFormed, ErrorEndsConnection, Answered,
                    ContinueComesFirst, Item
<1>4. TypeOK'
  BY <1>1, <1>2 DEF IInv, TypeOK, PCs
<1>5. NoHeadLeftBehind' /\ KeptOnlyIfAllowed' /\ Begun' /\ Buffered'
  BY <1>1 DEF NoHeadLeftBehind, KeptOnlyIfAllowed, Begun, Buffered
<1>6. Refusing' /\ Counted' /\ Kept'
  BY <1>1, <1>2 DEF IInv, Refusing, Counted, Kept
<1>. QED  BY <1>3, <1>4, <1>5, <1>6 DEF IInv

LEMMA StepInv == IInv /\ [Next]_vars => IInv'
<1> SUFFICES ASSUME IInv, [Next]_vars PROVE IInv'
  OBVIOUS
<1>1. ASSUME request_version' = request_version, wire' = wire, requests' = requests
      PROVE  ResponsesWellFormed'
  BY <1>1 DEF IInv, ResponsesWellFormed
<1>2. /\ TypeOK /\ NoHeadLeftBehind /\ requests <= requests
      /\ \A i \in 1 .. Len(wire) : wire[i].request <= requests
  BY DEF IInv, TypeOK, Counted
<1>3. CASE Handle
  BY <1>1, <1>3, AtMostOne
     DEF Handle, IInv, TypeOK, PCs, NoHeadLeftBehind, ErrorEndsConnection, ContinueComesFirst,
         KeptOnlyIfAllowed, Begun, Buffered, Refusing, Counted, Answered, Kept
<1>4. CASE ReadLineFails
  BY <1>1, <1>2, <1>4, Ends DEF ReadLineFails, Return, TypeOK, NoHeadLeftBehind
<1>5. CASE \E r \in Requests : RequestLine(r)
  BY <1>5, RequestLineKeeps
<1>6. CASE \E f \in FieldSets : HeadersRead(f)
  BY <1>6, HeadersReadKeeps
<1>7. CASE HeadersTooLarge
  <2>1. 431 \in Errors /\ headers_buffer = <<>>
    BY <1>7 DEF Errors, IInv, NoHeadLeftBehind, HeadersTooLarge
  <2>2. \A i \in 1 .. Len(wire) : wire[i].request # requests
    BY <1>7 DEF IInv, Answered, HeadersTooLarge
  <2>3. ResponsesWellFormed'
    BY <1>1, <1>7 DEF HeadersTooLarge
  <2>. QED  BY <1>2, <1>7, <2>1, <2>2, <2>3, Refuses DEF HeadersTooLarge, TypeOK
<1>8. CASE HeadersFail
  BY <1>1, <1>2, <1>8, Ends DEF HeadersFail, Return, TypeOK, NoHeadLeftBehind
<1>9. CASE HeadersMalformed
  BY <1>1, <1>2, <1>9, Ends DEF HeadersMalformed, Return, TypeOK, NoHeadLeftBehind
<1>10. CASE FlushContinue \/ FlushError
  BY <1>10, FlushKeeps
<1>11. CASE FlushThrows
  BY <1>1, <1>2, <1>11, Ends DEF FlushThrows, TypeOK
<1>12. CASE SendErrorBody
  BY <1>12, SendErrorBodyKeeps
<1>13. CASE LengthThrows
  BY <1>1, <1>2, <1>13, Ends DEF LengthThrows, TypeOK
<1>14. CASE ChunkedRefused
  <2>1. 400 \in Errors /\ headers_buffer = <<>>
    BY <1>14 DEF Errors, IInv, NoHeadLeftBehind, ChunkedRefused
  <2>2. \A i \in 1 .. Len(wire) : wire[i].request = requests => wire[i].code = 100
    BY <1>14 DEF IInv, Answered, ChunkedRefused
  <2>3. ResponsesWellFormed'
    BY <1>1, <1>14 DEF ChunkedRefused
  <2>. QED  BY <1>2, <1>14, <2>1, <2>2, <2>3, Refuses DEF ChunkedRefused, TypeOK
<1>15. CASE CallHandler
  BY <1>15, CallHandlerKeeps
<1>16. CASE HandlerReturns
  BY <1>16, HandlerReturnsKeeps
<1>17. CASE HandlerThrows
  BY <1>1, <1>2, <1>17, Ends DEF HandlerThrows, TypeOK
<1>18. CASE CloseIO
  BY <1>1, <1>2, <1>18, Ends DEF CloseIO, TypeOK, NoHeadLeftBehind
<1>19. CASE UNCHANGED vars
  BY <1>1, <1>19
     DEF vars, IInv, TypeOK, NoHeadLeftBehind, ErrorEndsConnection, ContinueComesFirst,
         KeptOnlyIfAllowed, Begun, Buffered, Refusing, Counted, Answered, Kept, Item
<1>. QED
  BY <1>3, <1>4, <1>5, <1>6, <1>7, <1>8, <1>9, <1>10, <1>11, <1>12, <1>13, <1>14, <1>15,
     <1>16, <1>17, <1>18, <1>19 DEF Next

LEMMA Invariance == Spec => []IInv
<1>. QED  BY InitInv, StepInv, PTL DEF Spec

-----------------------------------------------------------------------------
(* The theorems.                                                           *)

\* Every variable keeps the type its declaration gives it, and the headers
\* buffer never holds the heads of two responses.
THEOREM TypeCorrect == Spec => []TypeOK
<1>. QED  BY Invariance, PTL DEF IInv

\* No head that was begun is left in the headers buffer when the application
\* is called, the next request is read or the connection is shut down.
THEOREM HeadsAreFlushed == Spec => []NoHeadLeftBehind
<1>. QED  BY Invariance, PTL DEF IInv

\* The responses follow the order of the requests, and each is well formed:
\* what send_error() writes never mixes with what the application writes.
THEOREM ResponsesAreWellFormed == Spec => []ResponsesWellFormed
<1>. QED  BY Invariance, PTL DEF IInv

\* send_error() is the last thing that happens on a connection.
THEOREM ErrorsEndConnections == Spec => []ErrorEndsConnection
<1>. QED  BY Invariance, PTL DEF IInv

\* A client that expects a 100 has it before the application is called.
THEOREM ContinuePrecedesTheBody == Spec => []ContinueComesFirst
<1>. QED  BY Invariance, PTL DEF IInv

\* The loop of handle() goes round only for a client that allows it.
THEOREM ConnectionsAreKeptByRight == Spec => []KeptOnlyIfAllowed
<1>. QED  BY Invariance, PTL DEF IInv

-----------------------------------------------------------------------------
(* The version of the request being handled.                               *)

\* parse_request() keeps the text of the very version it has examined.
Versioned ==
    pc \in {"headers", "continue", "examine", "handler"} /\ req.parts = 3 =>
       /\ req.version \in Seq(Seq(Int)) /\ Len(req.version) = 2 /\ NumbersConvert(req)
       /\ ~NumberIsAtLeast(req.version, 2, 0)
       /\ request_version = Text(req.version)

LEMMA StepVersioned == Versioned /\ [Next]_vars => Versioned'
<1> SUFFICES ASSUME Versioned, [Next]_vars PROVE Versioned'
  OBVIOUS
<1>1. ASSUME UNCHANGED <<req, request_version>>,
             pc' \in {"headers", "continue", "examine", "handler"} =>
                pc \in {"headers", "continue", "examine", "handler"}
      PROVE  Versioned'
  BY <1>1 DEF Versioned
<1>2. ASSUME NEW r \in Requests, RequestLine(r) PROVE Versioned'
  <2>1. CASE GoodRequestLine(r)
    <3>1. req' = r /\ r.version \in Seq(Seq(Int))
      BY <2>1, RequestFacts DEF GoodRequestLine, Parse, Receive
    <3> QED BY <2>1, <3>1 DEF GoodRequestLine, TwoNumbers, Versioned
  <2>2. CASE ~GoodRequestLine(r)
    <3>1. pc' \notin {"headers", "continue", "examine", "handler"}
      BY <1>2, <2>2 DEF RequestLine, LineTooLong, EncodingThrows, BadRequestLine, BlankRequestLine,
                        VersionThrows, VersionNotSupported, SendError, Return
    <3> QED BY <3>1 DEF Versioned
  <2> QED BY <2>1, <2>2
<1>3. CASE \/ Handle \/ ReadLineFails \/ HeadersTooLarge \/ HeadersFail \/ HeadersMalformed
           \/ SendErrorBody \/ HandlerReturns \/ ChunkedRefused
  <2>1. pc' \notin {"headers", "continue", "examine", "handler"}
    BY <1>3 DEF Handle, ReadLineFails, HeadersTooLarge, HeadersFail, HeadersMalformed,
                SendErrorBody, HandlerReturns, ChunkedRefused, SendError, Return
  <2> QED BY <2>1 DEF Versioned
<1>4. CASE \E f \in FieldSets : HeadersRead(f)
  BY <1>1, <1>4 DEF HeadersRead
<1>5. CASE FlushContinue \/ FlushError \/ FlushThrows
  BY <1>1, <1>5 DEF FlushContinue, FlushError, Flush, FlushThrows
<1>6. CASE LengthThrows \/ CallHandler \/ HandlerThrows \/ CloseIO
  BY <1>1, <1>6 DEF LengthThrows, CallHandler, HandlerThrows, CloseIO
<1>7. CASE UNCHANGED vars
  BY <1>1, <1>7 DEF vars
<1> QED BY <1>2, <1>3, <1>4, <1>5, <1>6, <1>7 DEF Next

\* For a version of two numbers below 2.0 without leading zeros, however long
\* they are, keeping the connection and sending a 100 follow one reading.
THEOREM ReadingsOfVersionAgree == Spec => []VersionReadingsAgree
<1>1. Init => Versioned
  BY DEF Init, Versioned
<1>2. Versioned => VersionReadingsAgree
  <2> SUFFICES ASSUME Versioned, pc \in {"headers", "continue", "examine", "handler"},
                      req.parts = 3, Canonical(req.version)
               PROVE  TextIsAtLeast11(request_version) <=> NumberIsAtLeast(req.version, 1, 1)
    BY DEF VersionReadingsAgree
  <2>1. /\ req.version \in Seq(Seq(Int)) /\ Len(req.version) = 2
        /\ ~NumberIsAtLeast(req.version, 2, 0) /\ request_version = Text(req.version)
        /\ \A i \in 1 .. 2 : Converts(req.version[i])
    BY DEF Versioned, NumbersConvert
  <2>2. \A i \in 1 .. 2 : /\ Digits(req.version[i]) = req.version[i]
                          /\ req.version[i][1] = 0 => Len(req.version[i]) = 1
                          /\ Integer(req.version[i]) < Width
    BY <2>1 DEF Canonical
  <2> QED BY <2>1, <2>2, ReadingsAgree
<1> QED BY <1>1, <1>2, StepVersioned, PTL DEF Spec

-----------------------------------------------------------------------------
(* The refinement.                                                         *)

LEMMA InitExchange == Init => Exchange!Init
BY DEF Init, Exchange!Init, Phase

\* Every step is a step of the exchange or leaves its phase as it is.
LEMMA StepExchange == IInv /\ [Next]_vars => [Exchange!Next]_Phase
<1> SUFFICES ASSUME IInv, [Next]_vars PROVE [Exchange!Next]_Phase
  OBVIOUS
<1> USE DEF Phase, Exchange!Next, Exchange!Receive, Exchange!Serve, Exchange!Served,
        Exchange!Refuse, Exchange!Stop, Exchange!End, Exchange!Step
<1>1. requests \in Nat
  BY DEF IInv, TypeOK
<1>2. CASE Handle
  BY <1>2 DEF Handle, IInv, Begun
<1>3. CASE ReadLineFails
  BY <1>3 DEF ReadLineFails, Return
<1>4. ASSUME NEW r \in Requests, RequestLine(r)
      PROVE  [Exchange!Next]_Phase
  <2>1. Phase \in {"idle", "served"} /\ Receive(r)
    BY <1>4 DEF RequestLine, LineTooLong, EncodingThrows, BadRequestLine,
                    BlankRequestLine, VersionThrows,
                VersionNotSupported, GoodRequestLine, Parse, Receive
  <2>2. pc' \in {"error_head", "error_body", "close_io", "threw", "headers"}
    BY <1>4 DEF RequestLine, LineTooLong, EncodingThrows, BadRequestLine,
                    BlankRequestLine, VersionThrows,
                VersionNotSupported, GoodRequestLine, SendError, Return
  <2>. QED  BY <2>1, <2>2
<1>5. CASE \E f \in FieldSets : HeadersRead(f)
  BY <1>5 DEF HeadersRead
<1>6. CASE HeadersTooLarge
  BY <1>6 DEF HeadersTooLarge, SendError
<1>7. CASE HeadersFail
  BY <1>7 DEF HeadersFail, Return
<1>8. CASE HeadersMalformed
  BY <1>8 DEF HeadersMalformed, Return
<1>9. CASE FlushContinue
  BY <1>9 DEF FlushContinue, Flush
<1>10. CASE FlushError
  BY <1>10 DEF FlushError, Flush
<1>11. CASE FlushThrows
  BY <1>11 DEF FlushThrows
<1>12. CASE SendErrorBody
  BY <1>12 DEF SendErrorBody, Return, IInv, Refusing
<1>13. CASE LengthThrows
  BY <1>13 DEF LengthThrows
<1>14. CASE ChunkedRefused
  BY <1>14 DEF ChunkedRefused, SendError
<1>15. CASE CallHandler
  BY <1>15 DEF CallHandler
<1>16. CASE HandlerReturns
  BY <1>1, <1>16 DEF HandlerReturns, Return, IInv, Counted
<1>17. CASE HandlerThrows
  BY <1>17 DEF HandlerThrows
<1>18. CASE CloseIO
  BY <1>18 DEF CloseIO
<1>19. CASE UNCHANGED vars
  BY <1>19 DEF vars
<1>. QED
  BY <1>2, <1>3, <1>4, <1>5, <1>6, <1>7, <1>8, <1>9, <1>10, <1>11, <1>12, <1>13, <1>14,
     <1>15, <1>16, <1>17, <1>18, <1>19 DEF Next

\* The handler implements RequestExchange: requests one after the other, the
\* application called once for each at most, and nothing after a refusal.
THEOREM ExchangeImplemented == Spec => ImplementsExchange
<1>. QED  BY InitExchange, StepExchange, Invariance, PTL DEF Spec, ImplementsExchange, Exchange!Spec

=============================================================================
