------------------------------ MODULE HttpConn ------------------------------
(***************************************************************************)
(* web-5.11-pressure/http_conn.cpp: one connection of the first server,    *)
(* from the bytes read() takes to those writev(2) gives back.  Module      *)
(* Proactor has the threads around it and shows that at most one of them   *)
(* is in here; this module has what they do with the bytes.                *)
(*                                                                         *)
(* A byte is a tuple of words: "\r" and "\n" are themselves, and any other *)
(* one stands for the text between two of them.  The client waits for a    *)
(* response before it sends the next request, as the server requires: what *)
(* comes early is wiped by init().                                         *)
(***************************************************************************)
EXTENDS Naturals, SequencesExt, FiniteSetsExt

CONSTANTS
  Requests,          (* what the client may send, as sequences of bytes    *)
  File,              (* per url: what stat() tells of the file under it    *)
  READ_BUFFER_SIZE,
  MaxRequests        (* bound: requests on the connection                  *)

ASSUME HttpConnAssumption ==
  /\ READ_BUFFER_SIZE \in Nat /\ MaxRequests \in Nat
  /\ \A url \in DOMAIN File : File[url] \in {"none", "private", "directory", "file"}

CR == <<"\r">>
LF == <<"\n">>

(* What is between two ends of a line is one byte, and a request ends with   *)
(* its first empty line: a body is read by nobody.                           *)
ASSUME RequestsAssumption ==
  \A r \in Requests :
    /\ r \in Seq(Seq(STRING))
    /\ \A i \in 1..Len(r) : r[i] # <<>>
    /\ \A i \in 1..Len(r) - 1 : r[i] \in {CR, LF} \/ r[i + 1] \in {CR, LF}
    /\ \A i \in 1..Len(r) - 3 :
         r[i] = CR /\ r[i + 1] = LF /\ r[i + 2] = CR /\ r[i + 3] = LF => i + 3 = Len(r)

VARIABLES
  asked,             (* history: the requests so far                       *)
  unsent,            (* what the client has still to send of the last one  *)
  inbound,           (* sent and not read                                  *)
  arrived,           (* history: what the client was sent                  *)
  at,                (* poll, process_read, process_write, write or closed *)
  ended,             (* history: why it was closed                         *)
  interest,          (* IN or OUT, as told to epoll by modfd()             *)
  m_read_buf,        (* up to m_read_idx                                   *)
  m_checked_idx, m_start_line, m_check_state, m_url, m_linger,
  read_ret,          (* what process_read() returned                       *)
  m_iv,              (* header and file as writev(2) is given them         *)
  bytes_have_send,   (* of write()                                         *)
  shortened          (* history: a writev(2) has taken a part only         *)

clientVars == <<asked, unsent, inbound>>
parserVars == <<m_read_buf, m_checked_idx, m_start_line, m_check_state, m_url, m_linger>>
writerVars == <<m_iv, bytes_have_send, arrived, shortened>>
connVars == <<clientVars, at, ended, interest, parserVars, read_ret, writerVars>>

m_read_idx == Len(m_read_buf)

HttpConnInit ==
  /\ asked = <<>> /\ unsent = <<>> /\ inbound = <<>> /\ arrived = <<>>
  /\ at = "poll" /\ ended = "no" /\ interest = "IN"
  /\ m_read_buf = <<>> /\ m_checked_idx = 0 /\ m_start_line = 0
  /\ m_check_state = "REQUESTLINE" /\ m_url = "" /\ m_linger = FALSE
  /\ read_ret = "NO_REQUEST" /\ m_iv = <<>> /\ bytes_have_send = 0
  /\ shortened = FALSE

(* Mutant: m_linger stays. *)
ResetConnLingers ==
  /\ m_read_buf' = <<>> /\ m_checked_idx' = 0 /\ m_start_line' = 0
  /\ m_check_state' = "REQUESTLINE" /\ m_url' = ""
  /\ UNCHANGED m_linger

(* init() *)
ResetConn ==
  /\ m_read_buf' = <<>> /\ m_checked_idx' = 0 /\ m_start_line' = 0
  /\ m_check_state' = "REQUESTLINE" /\ m_url' = "" /\ m_linger' = FALSE

Ends(why) == at' = "closed" /\ ended' = why

----------------------------------------------------------------------------
(* The response to a request, in units of which writev(2) takes some: two   *)
(* of the header, which holds the text of an error, and one of the file.    *)

Header(code, url, linger) == [i \in 1..2 |-> <<code, url, linger, "header", i>>]

Response(code, url, linger) ==
  Header(code, url, linger)
    \o (IF code = "FILE_REQUEST" THEN <<<<code, url, linger, "file">>>> ELSE <<>>)

(* do_request(): stat(), its permissions, its kind. *)
DoRequest(url) ==
  CASE File[url] = "none"      -> "NO_RESOURCE"
    [] File[url] = "private"   -> "FORBIDDEN_REQUEST"
    [] File[url] = "directory" -> "BAD_REQUEST"
    [] File[url] = "file"      -> "FILE_REQUEST"

(* parse_request_line() of a text with a blank in it: method, url, version. *)
IsRequestLine(words) ==
  /\ Len(words) = 3
  /\ words[1] = "GET" /\ words[3] = "HTTP/1.1"
  /\ words[2] \in DOMAIN File

----------------------------------------------------------------------------
(* The client. *)

(* Of a request that is no HTTP or asks for a directory, the words alone. *)
Expected(r) ==
  LET head == FlattenSeq(SubSeq(r, 1, 1))
      headers == {r[i] : i \in 2..Len(r)}
  IN  IF ~IsRequestLine(head) THEN Response("BAD_REQUEST", "", FALSE)
      ELSE Response(DoRequest(head[2]), head[2], <<"Connection:", "keep-alive">> \in headers)

(* What is owed for the first n requests. *)
Owed(n) == FlattenSeq([i \in 1..Min({n, Len(asked)}) |-> Expected(asked[i])])

AskNext(r) ==
  /\ unsent = <<>> /\ at # "closed"
  /\ Len(asked) < MaxRequests
  /\ arrived = Owed(Len(asked))
  /\ asked' = Append(asked, r)
  /\ unsent' = r
  /\ UNCHANGED <<inbound, at, ended, interest, parserVars, read_ret, writerVars>>

(* The next n bytes of it come to the socket together. *)
ClientSends(n) ==
  /\ at # "closed"
  /\ inbound' = inbound \o SubSeq(unsent, 1, n)
  /\ unsent' = SubSeq(unsent, n + 1, Len(unsent))
  /\ UNCHANGED <<asked, at, ended, interest, parserVars, read_ret, writerVars>>

(* EPOLLRDHUP, which main() looks for first. *)
ClientCloses ==
  /\ at = "poll"
  /\ Ends("client")
  /\ UNCHANGED <<clientVars, interest, parserVars, read_ret, writerVars>>

----------------------------------------------------------------------------
(* The main thread reads. *)

(* EPOLLIN and read(): all there is is taken, and the workers get it.  With *)
(* the buffer full, recv(2) of no bytes returns 0 as if the peer had closed.*)
ReadAll ==
  /\ at = "poll" /\ interest = "IN" /\ inbound # <<>>
  /\ inbound' = <<>>
  /\ IF m_read_idx + Len(inbound) >= READ_BUFFER_SIZE
     THEN Ends("full") /\ UNCHANGED m_read_buf
     ELSE at' = "process_read" /\ m_read_buf' = m_read_buf \o inbound /\ UNCHANGED ended
  /\ UNCHANGED <<asked, unsent, interest, m_checked_idx, m_start_line, m_check_state, m_url,
                 m_linger, read_ret, writerVars>>

----------------------------------------------------------------------------
(* A worker: process(). *)

(* parse_line(): its LINE_STATUS, where it ends the text, and m_checked_idx. *)
ParseLine ==
  LET found == {i \in m_checked_idx + 1..m_read_idx : m_read_buf[i] \in {CR, LF}}
      i == Min(found)
      open == [status |-> "OPEN", end |-> 0, checked |-> 0]
  IN  IF found = {} THEN [open EXCEPT !.checked = m_read_idx]
      ELSE IF m_read_buf[i] = CR /\ i = m_read_idx THEN [open EXCEPT !.checked = i - 1]
      ELSE IF m_read_buf[i] = CR /\ m_read_buf[i + 1] = LF
      THEN [status |-> "OK", end |-> i - 1, checked |-> i + 1]
      ELSE IF m_read_buf[i] = LF /\ i > 2 /\ m_read_buf[i - 1] = CR
      THEN [status |-> "OK", end |-> i - 2, checked |-> i]
      ELSE [status |-> "BAD", end |-> 0, checked |-> i - 1]

(* The words of the line from get_line() to the end parse_line() gave it. *)
Text == FlattenSeq(SubSeq(m_read_buf, m_start_line + 1, ParseLine.end))

(* process_read() has a result. *)
Returns(ret) == at' = "process_write" /\ read_ret' = ret

CheckRequestLine ==
  /\ m_check_state = "REQUESTLINE"
  /\ IF IsRequestLine(Text)
     THEN /\ m_check_state' = "HEADER" /\ m_url' = Text[2]
          /\ UNCHANGED <<at, read_ret>>
     ELSE Returns("BAD_REQUEST") /\ UNCHANGED <<m_check_state, m_url>>
  /\ UNCHANGED m_linger

(* parse_headers(); of Content-Length the colon is compared too, with the    *)
(* end of the string, so that m_content_length stays 0 and nothing is read   *)
(* in CHECK_STATE_CONTENT.                                                   *)
CheckHeader ==
  /\ m_check_state = "HEADER"
  /\ IF Text = <<>> THEN Returns(DoRequest(m_url)) ELSE UNCHANGED <<at, read_ret>>
  /\ m_linger' = (m_linger \/ Text = <<"Connection:", "keep-alive">>)
  /\ UNCHANGED <<m_check_state, m_url>>

(* Mutant: m_start_line is not kept for the next call. *)
ParseOneLineFromStart ==
  /\ at = "process_read"
  /\ ParseLine.status = "OK"
  /\ m_checked_idx' = ParseLine.checked
  /\ CheckRequestLine \/ CheckHeader
  /\ UNCHANGED <<clientVars, ended, interest, m_start_line, m_read_buf, writerVars>>

(* One turn of the loop in process_read(). *)
ParseOneLine ==
  /\ at = "process_read"
  /\ ParseLine.status = "OK"
  /\ m_checked_idx' = ParseLine.checked
  /\ m_start_line' = ParseLine.checked
  /\ CheckRequestLine \/ CheckHeader
  /\ UNCHANGED <<clientVars, ended, interest, m_read_buf, writerVars>>

(* NO_REQUEST, for a line that is bad as for one that is not complete. *)
LineIsNotThere ==
  /\ at = "process_read"
  /\ ParseLine.status # "OK"
  /\ m_checked_idx' = ParseLine.checked
  /\ at' = "poll" /\ interest' = "IN"
  /\ UNCHANGED <<clientVars, ended, m_read_buf, m_start_line, m_check_state, m_url, m_linger,
                 read_ret, writerVars>>

(* process_write(): m_iv is the header, and the file that do_request() has   *)
(* mapped.                                                                   *)
FillResponse ==
  /\ at = "process_write"
  /\ m_iv' = Response(read_ret, m_url, m_linger)
  /\ at' = "poll" /\ interest' = "OUT"
  /\ UNCHANGED <<clientVars, ended, parserVars, read_ret, bytes_have_send, arrived, shortened>>

----------------------------------------------------------------------------
(* The main thread writes. *)

(* EPOLLOUT: write() counts from nothing each time it is called. *)
StartWrite ==
  /\ at = "poll" /\ interest = "OUT"
  /\ at' = "write" /\ bytes_have_send' = 0
  /\ UNCHANGED <<clientVars, ended, interest, parserVars, read_ret, m_iv, arrived, shortened>>

(* write() is done with the bytes of m_write_buf: init(), or the end of the  *)
(* connection.                                                               *)
WriteIsDone ==
  IF m_linger THEN ResetConn /\ at' = "poll" /\ interest' = "IN" /\ UNCHANGED ended
  ELSE Ends("done") /\ UNCHANGED <<interest, parserVars>>

(* writev(2) takes n units of m_iv, which stays as it is: after a part it is *)
(* given from its start again, and done when the header's length is reached. *)
Writev(n) ==
  /\ at = "write"
  /\ arrived' = arrived \o SubSeq(m_iv, 1, n)
  /\ bytes_have_send' = bytes_have_send + n
  /\ shortened' = (shortened \/ n < Len(m_iv))
  /\ IF bytes_have_send' >= Len(Header("", "", FALSE)) THEN WriteIsDone
     ELSE UNCHANGED <<at, ended, interest, parserVars>>
  /\ UNCHANGED <<clientVars, read_ret, m_iv>>

(* EAGAIN *)
WritevHasNoRoom ==
  /\ at = "write"
  /\ at' = "poll" /\ interest' = "OUT"
  /\ UNCHANGED <<clientVars, ended, parserVars, read_ret, writerVars>>

WritevFails ==
  /\ at = "write"
  /\ Ends("error")
  /\ UNCHANGED <<clientVars, interest, parserVars, read_ret, writerVars>>

----------------------------------------------------------------------------
ServerStep == ReadAll \/ ParseOneLine \/ LineIsNotThere \/ FillResponse \/ StartWrite

(* One writev(2) at most takes less than all. *)
HttpConnNext ==
  \/ \E r \in Requests : AskNext(r)
  \/ \E n \in 1..Len(unsent) : ClientSends(n)
  \/ ClientCloses
  \/ ServerStep
  \/ \E n \in 1..Len(m_iv) : (n = Len(m_iv) \/ ~shortened) /\ Writev(n)
  \/ WritevHasNoRoom
  \/ WritevFails

(* Both threads run, and a client that reads makes room for a whole response.*)
HttpConnFairness ==
  WF_connVars(ServerStep) /\ SF_connVars(m_iv # <<>> /\ Writev(Len(m_iv)))

----------------------------------------------------------------------------
(* read(), parse_line(), process_read(), init(): however the requests are    *)
(* cut, also between CR and LF, and whatever an earlier one left behind, the *)
(* client gets the responses to its requests, each as its own lines ask,     *)
(* unless a writev(2) took a part of one (http_conn.cpp:356-358); and the    *)
(* indices never leave what has been read.                                   *)
ResponsesAreTheRequests ==
  /\ ~shortened => IsPrefix(arrived, Owed(Len(asked)))
  /\ m_start_line <= m_checked_idx /\ m_checked_idx <= m_read_idx

IsWhole(r) ==
  /\ Len(r) < READ_BUFFER_SIZE
  /\ \A i \in DOMAIN r : r[i] = CR <=> i < Len(r) /\ r[i + 1] = LF

(* A request whose lines all end as they should and that leaves a byte of    *)
(* the buffer free is answered, unless the client or an error ends the       *)
(* connection; one that fills it ends the connection (http_conn.cpp:101-118).*)
FittingRequestIsAnswered ==
  \A n \in 1..MaxRequests :
    Len(asked) = n /\ unsent = <<>> /\ IsWhole(asked[n]) ~>
      \/ ended \in {"client", "error"} \/ shortened
      \/ Len(arrived) >= Len(Owed(n))
=============================================================================
