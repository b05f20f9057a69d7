---------------------------- MODULE HttpServer ----------------------------
(***************************************************************************)
(* What HttpServer does with the bytes of one connection: readFd() into    *)
(* the connection's Buffer in pieces cut anywhere, HttpContext's parser,   *)
(* which keeps its place between two calls, and the replies.  It all runs  *)
(* in the connection's IO thread; a step is one readv(2), one turn of the  *)
(* loop in parseRequest(), or the end of onMessage().                      *)
(*                                                                         *)
(* The text between two CRLFs is one character here, which tells what the  *)
(* parser makes of it; "\r" and "\n" are themselves and may be cut apart.  *)
(* What becomes of a reply after send() is modelled in TcpConnection.      *)
(***************************************************************************)
EXTENDS Buffer

CONSTANT Streams   \* what the peer may send in the connection's life

Good  == "GET / HTTP/1.1"
Late  == "GET / HTTP/1.0"         \* a method the parser takes, then a fault
Close == "Connection: close"
Keep  == "Connection: Keep-Alive"
Plain == "word"                   \* neither a space nor a colon
Character == {Good, Late, Close, Keep, Plain, "\r", "\n"}

(* The text between two CRLFs is one character. *)
IsWholeText(s, i) ==
  /\ i = 1 \/ (i > 2 /\ s[i - 2] = "\r" /\ s[i - 1] = "\n")
  /\ i + 1 <= Len(s) => s[i + 1] = "\r"
  /\ i + 2 <= Len(s) => s[i + 2] = "\n"

ASSUME StreamsAssumption ==
  \A s \in Streams :
    /\ s \in Seq(Character)
    /\ \A i \in DOMAIN s : s[i] \notin {"\r", "\n"} => IsWholeText(s, i)

VARIABLES
  stream,     \* chosen at the start
  received,   \* how much of it readv(2) has delivered
  buffer,     \* inputBuffer_ of the connection
  state_,     \* HttpContext::state_
  request_,   \* HttpContext::request_: its method and Connection header
  isOk,       \* of parseRequest()
  connected,  \* TcpConnection::state_ is kConnected
  replies,    \* given to send() in that state: of what kind, their lines,
              \* and how much of the stream had been consumed
  phase       \* where the IO thread is

vars == <<stream, received, buffer, state_, request_, isOk, connected,
          replies, phase>>

NewRequest == [method_ |-> "kInvalid", connection |-> ""]

Consumed == received - ReadableBytes(buffer)

Line == SubSeq(Contents(buffer), 1, FindCRLF(buffer) - 1)

HasSpace(line)  == line \in {<<Good>>, <<Late>>, <<Close>>, <<Keep>>}
HasMethod(line) == line \in {<<Good>>, <<Late>>}
HasColon(line)  == line \in {<<Close>>, <<Keep>>}

Init ==
  /\ stream \in Streams
  /\ received = 0
  /\ buffer = NewBuffer
  /\ state_ = "kExpectRequestLine"
  /\ request_ = NewRequest
  /\ isOk = TRUE
  /\ connected = TRUE
  /\ replies = <<>>
  /\ phase = "poll"

---------------------------------------------------------------------------
(* TcpConnection::handleRead() *)

(***************************************************************************)
(* readv(2) takes n bytes of what has arrived, any number that there is    *)
(* room for.  Only the first call is known to find something.  Bytes may   *)
(* still come after shutdown(), which closes the reading side only for     *)
(* those who wait.                                                         *)
(***************************************************************************)
HandleRead(n) ==
  LET data == SubSeq(stream, received + 1, received + n)
  IN  /\ \/ phase = "poll" /\ n > 0
         \/ phase = "read"
      /\ n <= Len(stream) - received
      /\ n <= WritableBytes(buffer) + ExtraSize
      /\ buffer' = ReadFd(buffer, data)
      /\ received' = received + n
      /\ phase' = IF ReadsAgain(buffer, data) THEN "read" ELSE "parse"
      /\ isOk' = TRUE
      /\ UNCHANGED <<stream, state_, request_, connected, replies>>

(* readv(2) returns 0: the peer has closed, or shutdown() was called and   *)
(* nothing is left.                                                        *)
HandleClose ==
  /\ phase = "poll"
  /\ phase' = "closed"
  /\ UNCHANGED <<stream, received, buffer, state_, request_, isOk, connected,
                 replies>>

---------------------------------------------------------------------------
(* HttpContext::parseRequest(), one turn of its loop *)

ExpectRequestLine == phase = "parse" /\ state_ = "kExpectRequestLine"
ExpectHeader      == phase = "parse" /\ state_ = "kExpectHeader"

(* Mutant: retrieveUntil(crlf + 1): the line feed stays.                   *)
TakeLineShort == buffer' = Retrieve(buffer, FindCRLF(buffer))

TakeLine == buffer' = Retrieve(buffer, FindCRLF(buffer) + 1)

(* assert(method_ == kInvalid) of setMethod() *)
SetMethodAsserts ==
  /\ ExpectRequestLine
  /\ FindCRLF(buffer) > 0
  /\ HasSpace(Line)
  /\ request_.method_ # "kInvalid"
  /\ phase' = "aborted"
  /\ UNCHANGED <<stream, received, buffer, state_, request_, isOk, connected,
                 replies>>

ProcessRequestLine ==
  /\ ExpectRequestLine
  /\ FindCRLF(buffer) > 0
  /\ HasSpace(Line) => request_.method_ = "kInvalid"
  /\ request_' = IF HasMethod(Line)
                 THEN [request_ EXCEPT !.method_ = "kGet"]
                 ELSE request_
  /\ isOk' = (Line = <<Good>>)
  /\ \/ /\ isOk'
        /\ TakeLine
        /\ state_' = "kExpectHeader"
        /\ phase' = phase
     \/ /\ ~isOk'
        /\ phase' = "parsed"
        /\ UNCHANGED <<buffer, state_>>
  /\ UNCHANGED <<stream, received, connected, replies>>

AddHeader ==
  /\ ExpectHeader
  /\ FindCRLF(buffer) > 0
  /\ HasColon(Line)
  /\ request_' = [request_ EXCEPT !.connection =
                    IF Line = <<Close>> THEN "close" ELSE "Keep-Alive"]
  /\ TakeLine
  /\ UNCHANGED <<stream, received, state_, isOk, connected, replies, phase>>

(* Any line without a colon ends the headers, not only an empty one. *)
HeadersEnd ==
  /\ ExpectHeader
  /\ FindCRLF(buffer) > 0
  /\ ~HasColon(Line)
  /\ state_' = "kGotAll"
  /\ TakeLine
  /\ phase' = "parsed"
  /\ UNCHANGED <<stream, received, request_, isOk, connected, replies>>

LineIsIncomplete ==
  /\ ExpectRequestLine \/ ExpectHeader
  /\ FindCRLF(buffer) = 0
  /\ phase' = "parsed"
  /\ UNCHANGED <<stream, received, buffer, state_, request_, isOk, connected,
                 replies>>

---------------------------------------------------------------------------
(* HttpResponse, one element of a sequence per line. *)

BadRequestText == <<"400 Bad Request", "">>

(* httpCallback() of the program fills the response it is given. *)
HttpCallback(response) ==
  [closeConnection_ |-> response.closeConnection_,
   statusCode_      |-> "200 OK",
   headers_         |-> <<"User-Agent", "server">>,
   body_            |-> "Hello World!"]

NewResponse(close) ==
  [closeConnection_ |-> close, statusCode_ |-> "kUnknown", headers_ |-> <<>>, body_ |-> ""]

(* Without a length the body ends where the connection does. *)
AppendToBuffer(response) ==
  <<response.statusCode_>>
    \o (IF response.closeConnection_ THEN <<Close>> ELSE <<"Content-Length", Keep>>)
    \o response.headers_ \o <<"", response.body_>>

Texts ==
  {BadRequestText}
    \cup {AppendToBuffer(HttpCallback(NewResponse(close))) : close \in BOOLEAN}

---------------------------------------------------------------------------
(* HttpServer::onMessage() after parseRequest() *)

(* send() does nothing unless the connection is in state kConnected. *)
Send(reply) == replies' = IF connected THEN Append(replies, reply) ELSE replies

BadRequest ==
  /\ phase = "parsed"
  /\ ~isOk
  /\ Send([kind |-> "400", text |-> BadRequestText, end |-> Consumed])
  /\ connected' = FALSE
  /\ phase' = "poll"
  /\ UNCHANGED <<stream, received, buffer, state_, request_, isOk>>

Respond ==
  LET response == HttpCallback(NewResponse(request_.connection = "close"))
  IN  /\ Send([kind |-> request_.connection, text |-> AppendToBuffer(response),
               end |-> Consumed])
      /\ connected' = (connected /\ ~response.closeConnection_)

(* Mutant: the context is not reset(). *)
OnRequestKeepsContext ==
  /\ phase = "parsed"
  /\ isOk /\ state_ = "kGotAll"
  /\ Respond
  /\ state_' = "kExpectRequestLine"
  /\ phase' = "poll"
  /\ UNCHANGED <<stream, received, buffer, request_, isOk>>

OnRequest ==
  /\ phase = "parsed"
  /\ isOk /\ state_ = "kGotAll"
  /\ Respond
  /\ state_' = "kExpectRequestLine"
  /\ request_' = NewRequest
  /\ phase' = "poll"
  /\ UNCHANGED <<stream, received, buffer, isOk>>

NeedsMore ==
  /\ phase = "parsed"
  /\ isOk /\ state_ # "kGotAll"
  /\ phase' = "poll"
  /\ UNCHANGED <<stream, received, buffer, state_, request_, isOk, connected,
                 replies>>

---------------------------------------------------------------------------
Next ==
  \/ \E n \in 0 .. Len(stream) : HandleRead(n)
  \/ HandleClose
  \/ SetMethodAsserts
  \/ ProcessRequestLine
  \/ AddHeader
  \/ HeadersEnd
  \/ LineIsIncomplete
  \/ BadRequest
  \/ OnRequest
  \/ NeedsMore

Spec == Init /\ [][Next]_vars

---------------------------------------------------------------------------
(***************************************************************************)
(* The variables have their types, and the indices of the buffer stay in   *)
(* order (Buffer.h:281-283): the readable region never ends behind the     *)
(* vector.                                                                 *)
(***************************************************************************)
TypeOK ==
  /\ stream \in Seq(Character)
  /\ received \in 0 .. Len(stream)
  /\ IsBuffer(buffer, Character \cup {Zero})
  /\ state_ \in {"kExpectRequestLine", "kExpectHeader", "kGotAll"}
  /\ request_ \in [method_    : {"kInvalid", "kGet"},
                   connection : {"", "close", "Keep-Alive"}]
  /\ isOk \in BOOLEAN
  /\ connected \in BOOLEAN
  /\ replies \in Seq([kind : {"400", "", "close", "Keep-Alive"}, text : Texts, end : Nat])
  /\ phase \in {"poll", "read", "parse", "parsed", "closed", "aborted"}

(***************************************************************************)
(* However readv(2) cuts the stream, and however the buffer grew, was      *)
(* moved to the front or went round through extrabuf: what can be read     *)
(* from it is what was received and not yet consumed.                      *)
(***************************************************************************)
ReadableIsTheRest ==
  Contents(buffer) = SubSeq(stream, Consumed + 1, received)

---------------------------------------------------------------------------
(***************************************************************************)
(* What a request is, said of a piece of the stream and not of a parser:   *)
(* it ends with a line, its first line is a request line, and of the       *)
(* others the last is the only one without a colon.                        *)
(***************************************************************************)
LineEnds(s) == {k \in 2 .. Len(s) : s[k - 1] = kCRLF[1] /\ s[k] = kCRLF[2]}

LineEndingAt(s, e) ==
  SubSeq(s, Max({0} \cup {k \in LineEnds(s) : k < e}) + 1, e - 2)

IsRequest(s) ==
  LET ends == LineEnds(s)
  IN  /\ Len(s) \in ends /\ Len(s) # Min(ends)
      /\ LineEndingAt(s, Min(ends)) = <<Good>>
      /\ \A e \in ends \ {Min(ends)} :
            HasColon(LineEndingAt(s, e)) <=> e # Len(s)

(* The last Connection header counts. *)
AsksFor(s) ==
  LET headers == {i \in 1 .. Len(s) : s[i] \in {Close, Keep}}
  IN  IF headers = {} THEN ""
      ELSE IF s[Max(headers)] = Close THEN "close" ELSE "Keep-Alive"

(* How much of the stream the replies so far are about. *)
Answered == IF replies = <<>> THEN 0 ELSE replies[Len(replies)].end

(***************************************************************************)
(* The replies are those to the requests of the stream, in order and       *)
(* without gaps, each as its own headers ask; a 400 is given to a complete *)
(* line that is no request line.  A client can tell where each ends: by    *)
(* its length, or because nothing comes after it but the connection's end  *)
(* (HttpServer.cpp:46-87, HttpResponse.cpp:43-71).                         *)
(***************************************************************************)
RepliesAreTheStreams ==
  \A i \in 1 .. Len(replies) :
    LET from == IF i = 1 THEN 0 ELSE replies[i - 1].end
        s    == SubSeq(stream, from + 1, replies[i].end)
        rest == SubSeq(stream, from + 1, received)
        kind == replies[i].kind
    IN  /\ kind = "400" =>
             /\ s = <<>>
             /\ LineEnds(rest) # {}
             /\ LineEndingAt(rest, Min(LineEnds(rest))) # <<Good>>
        /\ kind # "400" => IsRequest(s) /\ kind = AsksFor(s)
        /\ (\E k \in DOMAIN replies[i].text : replies[i].text[k] = "Content-Length")
             \/ (i = Len(replies) /\ ~connected)

(***************************************************************************)
(* onMessage() on a connection in use returns, and has answered a request  *)
(* exactly if a whole one had arrived, wherever the pieces were cut: it    *)
(* neither waits for more than it needs, nor trips over what an earlier    *)
(* request left in the context.  (A second request that came with the      *)
(* first waits for the next onMessage(): HttpServer.cpp:54.)               *)
(***************************************************************************)
WholeRequestIsAnswered ==
  [][connected /\ phase \in {"parse", "parsed"}
     /\ phase' \notin {"parse", "parsed"} =>
       /\ phase' = "poll"
       /\ (Len(replies') > Len(replies) /\ isOk) <=>
            \E e \in Answered + 1 .. received :
              IsRequest(SubSeq(stream, Answered + 1, e))]_vars

===========================================================================
