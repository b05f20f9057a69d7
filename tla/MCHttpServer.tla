--------------------------- MODULE MCHttpServer ---------------------------
(* The two programs that take HTTP requests, one or the other: multiThread *)
(* with streams of up to four lines of every kind in every order, and      *)
(* web-5.11 with a client that sends requests of every outcome, one that   *)
(* fills the buffer and one with a "\r" too many, in pieces cut anywhere.  *)
EXTENDS HttpServer, HttpConn

CONSTANT MaxLines

CRLFLines == {text \o kCRLF : text \in {<<>>} \cup
                {<<c>> : c \in {Good, Late, Close, Keep, Plain}}}

MCStreams ==
  {FoldSeq(LAMBDA line, rest : line \o rest, <<>>, lines) :
     lines \in UNION {[1 .. k -> CRLFLines] : k \in 1 .. MaxLines}}

MCFile == [url \in {"/", "/private", "/dir", "/none"} |->
             CASE url = "/" -> "file" [] url = "/private" -> "private"
               [] url = "/dir" -> "directory" [] OTHER -> "none"]

Get(url)  == <<"GET", url, "HTTP/1.1">>
KeepAlive == <<"Connection:", "keep-alive">>
Host      == <<"Host:", "h">>
Request(lines) == FlattenSeq([i \in DOMAIN lines |-> <<lines[i], CR, LF>>]) \o <<CR, LF>>

MCRequests ==
  {Request(<<Get("/"), KeepAlive>>), Request(<<Get("/private"), KeepAlive>>),
   Request(<<Get("/dir"), KeepAlive>>), Request(<<Get("/none"), Host>>),
   Request(<<<<"POST", "/", "HTTP/1.1">>>>), Request(<<Get("/"), Host, KeepAlive>>),
   <<Get("/"), CR>> \o Request(<<Get("/")>>)}

(* An integer of 8 bits that is added, or put in front of what was added,  *)
(* is the next to be read, and leaves what was behind it.                  *)
ASSUME Int8ComesBack ==
  \A x, y \in {-128, -127, -1, 0, 1, 127} :
    LET b == PrependInt8(AppendInt8(NewBuffer, x), y)
    IN  PeekInt8(b) = y /\ PeekInt8(ReadInt8(b)[2]) = x

(* What findCRLF() and findEOL() find is found again from any start up to  *)
(* it, and taken with all that stands before it.                           *)
ASSUME FindsFromWhereItStarts ==
  \A s \in Streams : Len(s) <= 6 =>
    LET b    == AppendData(NewBuffer, s)
        crlf == FindCRLF(b)
    IN  /\ \A start \in 0 .. crlf - 1 : FindCRLFFrom(b, start) = crlf
        /\ FindEOL(b) = (IF crlf = 0 THEN 0 ELSE crlf + 1)
        /\ crlf # 0 => RetrieveAsString(b, crlf + 1)[1] = SubSeq(s, 1, crlf + 1)

VARIABLE program

MCInit ==
  /\ Init /\ HttpConnInit
  /\ program \in {"multiThread", "web-5.11"}
  /\ program = "web-5.11" => stream = CHOOSE s \in Streams : TRUE

MCNext ==
  \/ program = "multiThread" /\ Next /\ UNCHANGED <<connVars, program>>
  \/ program = "web-5.11" /\ HttpConnNext /\ UNCHANGED <<vars, program>>

MCSpec ==
  MCInit /\ [][MCNext]_<<vars, connVars, program>> /\ (program = "web-5.11" => HttpConnFairness)
===========================================================================
