---------------------------- MODULE Conversation -----------------------------
(***************************************************************************)
(* One connection, byte by byte: a client and handle_client of             *)
(* stock_server.c, each with the Rio buffer of csapp.c, over a socket that *)
(* holds a bounded number of bytes in each direction.  The client is       *)
(* stockclient.c, multiclient.c, or another one that sends what it likes.  *)
(* What a request does and what is answered is the subject of StockTrading.*)
(***************************************************************************)
EXTENDS Naturals, Sequences

CONSTANTS
  NL,           \* the byte '\n'
  Bytes,        \* all bytes
  Requests,     \* what a client may write in one go
  Replies,      \* what the server may answer
  ExitLines,    \* the lines that say exit
  MaxLine,      \* MAXLINE
  BufSize,      \* RIO_BUFSIZE
  PipeSize,     \* the bytes a socket holds in one direction
  MaxRequests   \* bound on the requests of the client

ASSUME ConversationAssumption ==
  /\ NL \in Bytes
  /\ Requests \subseteq Seq(Bytes) \ {<<>>} /\ Replies \subseteq Seq(Bytes)
  /\ MaxLine \in Nat /\ MaxLine > 1
  /\ BufSize \in Nat \ {0} /\ PipeSize \in Nat \ {0} /\ MaxRequests \in Nat

VARIABLES
  kind,      \* which client this is
  pc,        \* what each side is doing
  out,       \* the bytes of each side's last Rio_writen,
  nleft,     \* and how many of them are still to be written
  wire,      \* the bytes on their way to each side
  rio_buf,   \* the unread bytes of each side's rio_t
  usrbuf,    \* the bytes each side's last Rio read has delivered
  reset,     \* the sides whose next read or write may fail
  requests,  \* the requests written so far
  uneven     \* an answer so far had not exactly one line

vars == <<kind, pc, out, nleft, wire, rio_buf, usrbuf, reset, requests, uneven>>

Sides == {"client", "server"}
Peer(s) == IF s = "client" THEN "server" ELSE "client"
Ended(s) == pc[s] \in {"closed", "exited"}

Less(a, b) == IF a < b THEN a ELSE b

NoNewline(b) == \A k \in DOMAIN b : b[k] # NL
OneLine(b) == b # <<>> /\ b[Len(b)] = NL /\ NoNewline(SubSeq(b, 1, Len(b) - 1))

\* What rio_readlineb, and likewise fgets, delivers as a whole.
LineDone(b) == b # <<>> /\ (b[Len(b)] = NL \/ Len(b) = MaxLine - 1)

\* Faulty variants: the limit of rio_readlineb is one byte off.
ReadDoneLate(s, b) == b[Len(b)] = NL \/ Len(b) = MaxLine
ReadDoneEarly(s, b) ==
  b[Len(b)] = NL \/ Len(b) = (IF s = "server" THEN MaxLine - 2 ELSE MaxLine - 1)

\* The Rio read of side s is done with b: multiclient calls Rio_readnb, the
\* others Rio_readlineb.
ReadDone(s, b) ==
  IF s = "client" /\ kind = "multiclient" THEN Len(b) = MaxLine ELSE LineDone(b)

\* What each client may write: stockclient what fgets delivers, an unfinished
\* line last; multiclient one line.
RequestsOf(k) ==
  CASE k = "stockclient" ->
         {q \in Requests : Len(q) < MaxLine /\ NoNewline(SubSeq(q, 1, Len(q) - 1))}
    [] k = "multiclient" -> {q \in Requests : Len(q) < MaxLine /\ OneLine(q)}
    [] OTHER -> Requests

\* The variables have their types; a line read leaves room for its NUL.
TypeOK ==
  /\ kind \in {"stockclient", "multiclient", "other"}
  /\ pc \in [Sides -> {"thinking", "writing", "reading", "closed", "exited"}]
  /\ out \in [Sides -> Seq(Bytes)]
  /\ nleft \in [Sides -> Nat] /\ \A s \in Sides : nleft[s] <= Len(out[s])
  /\ wire \in [Sides -> Seq(Bytes)] /\ \A s \in Sides : Len(wire[s]) <= PipeSize
  /\ rio_buf \in [Sides -> Seq(Bytes)] /\ \A s \in Sides : Len(rio_buf[s]) <= BufSize
  /\ usrbuf \in [Sides -> Seq(Bytes)]
  /\ Len(usrbuf["server"]) < MaxLine /\ Len(usrbuf["client"]) <= MaxLine
  /\ reset \subseteq Sides
  /\ requests \in 0 .. MaxRequests
  /\ uneven \in BOOLEAN
-----------------------------------------------------------------------------
\* The client is connected and handle_client has called Rio_readlineb.
Init ==
  /\ kind \in {"stockclient", "multiclient", "other"}
  /\ pc = [s \in Sides |-> IF s = "client" THEN "thinking" ELSE "reading"]
  /\ nleft = [s \in Sides |-> 0]
  /\ out = [s \in Sides |-> <<>>] /\ wire = [s \in Sides |-> <<>>]
  /\ rio_buf = [s \in Sides |-> <<>>] /\ usrbuf = [s \in Sides |-> <<>>]
  /\ reset = {} /\ requests = 0 /\ uneven = FALSE

\* A side ends, by Close or by exit: what it has not read is lost, and if the
\* kernel still held some of that, the other side's connection is reset.
EndAs(s, label) ==
  /\ pc' = [pc EXCEPT ![s] = label]
  /\ wire' = [wire EXCEPT ![s] = <<>>]
  /\ rio_buf' = [rio_buf EXCEPT ![s] = <<>>]
  /\ usrbuf' = [usrbuf EXCEPT ![s] = <<>>]
  /\ reset' = IF wire[s] = <<>> THEN reset ELSE reset \cup {Peer(s)}
  /\ UNCHANGED <<kind, out, nleft, requests, uneven>>

\* Rio_writen(fd, b, n) begins.
BeginWrite(s, b) ==
  /\ out' = [out EXCEPT ![s] = b]
  /\ nleft' = [nleft EXCEPT ![s] = Len(b)]
  /\ pc' = [pc EXCEPT ![s] = "writing"]

\* Faulty variant: a short write is taken for a whole one.
WriteOnce(s, n) ==
  LET p == Peer(s)
  IN /\ pc[s] = "writing" /\ ~Ended(p)
     /\ n \in 1 .. nleft[s] /\ Len(wire[p]) + n <= PipeSize
     /\ wire' = [wire EXCEPT ![p] = @ \o SubSeq(out[s], 1, n)]
     /\ nleft' = [nleft EXCEPT ![s] = 0]
     /\ UNCHANGED <<kind, pc, out, rio_buf, usrbuf, reset, requests, uneven>>

\* A write of rio_writen: as many bytes as there is room for, or fewer.
Write(s, n) ==
  LET p == Peer(s)
      done == Len(out[s]) - nleft[s]
  IN /\ pc[s] = "writing" /\ ~Ended(p)
     /\ n \in 1 .. nleft[s] /\ Len(wire[p]) + n <= PipeSize
     /\ wire' = [wire EXCEPT ![p] = @ \o SubSeq(out[s], done + 1, done + n)]
     /\ nleft' = [nleft EXCEPT ![s] = @ - n]
     /\ UNCHANGED <<kind, pc, out, rio_buf, usrbuf, reset, requests, uneven>>

\* A write to a side that has ended is answered by a reset.
WriteInVain(s) ==
  /\ pc[s] = "writing" /\ nleft[s] > 0 /\ Ended(Peer(s))
  /\ nleft' = [nleft EXCEPT ![s] = 0]
  /\ reset' = reset \cup {s}
  /\ UNCHANGED <<kind, pc, out, wire, rio_buf, usrbuf, requests, uneven>>

\* rio_writen has written all: the clients then read the answer, the server
\* the next request, unless it has answered an exit.
Written(s) ==
  /\ pc[s] = "writing" /\ nleft[s] = 0
  /\ IF s = "server" /\ usrbuf[s] \in ExitLines
       THEN EndAs(s, "closed")
       ELSE /\ pc' = [pc EXCEPT ![s] =
                        IF s = "client" /\ kind = "other" THEN "thinking" ELSE "reading"]
            /\ usrbuf' = [usrbuf EXCEPT ![s] = <<>>]
            /\ UNCHANGED <<kind, out, nleft, wire, rio_buf, reset, requests, uneven>>

\* Faulty variant: the size of the buffer is ignored.
RioRefillAll(s) ==
  /\ pc[s] = "reading" /\ rio_buf[s] = <<>> /\ wire[s] # <<>>
  /\ rio_buf' = [rio_buf EXCEPT ![s] = wire[s]]
  /\ wire' = [wire EXCEPT ![s] = <<>>]
  /\ UNCHANGED <<kind, pc, out, nleft, usrbuf, reset, requests, uneven>>

\* rio_read finds its buffer empty and refills it from the socket.
RioRefill(s) ==
  LET n == Less(Len(wire[s]), BufSize)
  IN /\ pc[s] = "reading" /\ rio_buf[s] = <<>> /\ wire[s] # <<>>
     /\ rio_buf' = [rio_buf EXCEPT ![s] = SubSeq(wire[s], 1, n)]
     /\ wire' = [wire EXCEPT ![s] = SubSeq(@, n + 1, Len(@))]
     /\ UNCHANGED <<kind, pc, out, nleft, usrbuf, reset, requests, uneven>>

\* rio_read delivers a byte; the read is done when it has got its line, or
\* fills its buffer.
RioCopy(s) ==
  LET b == Append(usrbuf[s], Head(rio_buf[s]))
  IN /\ pc[s] = "reading" /\ rio_buf[s] # <<>>
     /\ rio_buf' = [rio_buf EXCEPT ![s] = Tail(@)]
     /\ usrbuf' = [usrbuf EXCEPT ![s] = b]
     /\ pc' = IF ReadDone(s, b) THEN [pc EXCEPT ![s] = "thinking"] ELSE pc
     /\ UNCHANGED <<kind, out, nleft, wire, reset, requests, uneven>>

\* Faulty variant: what has been read by the end is dropped.
RioEOFDrops(s) ==
  /\ pc[s] = "reading" /\ rio_buf[s] = <<>> /\ wire[s] = <<>> /\ Ended(Peer(s))
  /\ IF s = "server"
       THEN EndAs(s, "closed")
       ELSE /\ pc' = [pc EXCEPT ![s] = "thinking"]
            /\ UNCHANGED <<kind, out, nleft, wire, rio_buf, usrbuf, reset,
                           requests, uneven>>

\* Faulty variant: in the middle of a line the end is taken for a signal.
RioEOFRetried(s) ==
  /\ pc[s] = "reading" /\ rio_buf[s] = <<>> /\ wire[s] = <<>> /\ Ended(Peer(s))
  /\ CASE usrbuf[s] # <<>> -> UNCHANGED vars
       [] s = "server" /\ usrbuf[s] = <<>> -> EndAs(s, "closed")
       [] OTHER -> /\ pc' = [pc EXCEPT ![s] = "thinking"]
                   /\ UNCHANGED <<kind, out, nleft, wire, rio_buf, usrbuf, reset,
                                  requests, uneven>>

\* read returns 0: what has been read by then is delivered like a line.  With
\* nothing to deliver handle_client closes its end; a client goes on.
RioEOF(s) ==
  /\ pc[s] = "reading" /\ rio_buf[s] = <<>> /\ wire[s] = <<>> /\ Ended(Peer(s))
  /\ IF s = "server" /\ usrbuf[s] = <<>>
       THEN EndAs(s, "closed")
       ELSE /\ pc' = [pc EXCEPT ![s] = "thinking"]
            /\ UNCHANGED <<kind, out, nleft, wire, rio_buf, usrbuf, reset,
                           requests, uneven>>

\* A read or write fails: unix_error ends the process.
RioError(s) ==
  /\ s \in reset
  /\ \/ pc[s] = "reading" /\ rio_buf[s] = <<>>
     \/ pc[s] = "writing" /\ nleft[s] > 0
  /\ EndAs(s, "exited")

\* The server has served the request and answers it.
Reply(r) ==
  /\ pc["server"] = "thinking"
  /\ BeginWrite("server", r)
  /\ uneven' = (uneven \/ ~OneLine(r) \/ Len(r) >= MaxLine)
  /\ UNCHANGED <<kind, wire, rio_buf, usrbuf, reset, requests>>

\* The client writes its next request; stockclient stops at a line that the
\* end of its input left unfinished.
Request(q) ==
  /\ pc["client"] = "thinking" /\ requests < MaxRequests
  /\ q \in RequestsOf(kind)
  /\ kind = "stockclient" => requests = 0 \/ LineDone(out["client"])
  /\ BeginWrite("client", q)
  /\ requests' = requests + 1
  /\ UNCHANGED <<kind, wire, rio_buf, usrbuf, reset, uneven>>

\* Another client reads what there is, when it likes.
Drain ==
  /\ kind = "other" /\ pc["client"] = "thinking" /\ wire["client"] # <<>>
  /\ wire' = [wire EXCEPT !["client"] = <<>>]
  /\ UNCHANGED <<kind, pc, out, nleft, rio_buf, usrbuf, reset, requests, uneven>>

\* The client closes its end when it has no more requests, or is killed.
ClientEnds ==
  /\ ~Ended("client")
  /\ EndAs("client", "closed")

\* Both sides have ended.
Over ==
  /\ \A s \in Sides : Ended(s)
  /\ UNCHANGED vars

RioStep(s) ==
  \/ \E n \in 1 .. PipeSize : Write(s, n)
  \/ WriteInVain(s) \/ Written(s)
  \/ RioRefill(s) \/ RioCopy(s) \/ RioEOF(s) \/ RioError(s)

Answer == \E r \in Replies : Reply(r)

Next ==
  \/ \E s \in Sides : RioStep(s)
  \/ Answer
  \/ \E q \in Requests : Request(q)
  \/ Drain \/ ClientEnds \/ Over

\* Each side goes on as long as its calls do not block; nothing is assumed of
\* when a client sends, or of another client's reading.
Fairness ==
  /\ \A s \in Sides : WF_vars(RioStep(s))
  /\ WF_vars(Answer)

Spec == Init /\ [][Next]_vars /\ Fairness
-----------------------------------------------------------------------------
Serving == pc["server"] \in {"thinking", "writing"}

\* The client's bytes not yet cut off as a request, and those that are one.
Uncut ==
  ((IF pc["server"] = "reading" THEN usrbuf["server"] ELSE <<>>)
     \o rio_buf["server"]) \o wire["server"]
Served == IF Serving THEN usrbuf["server"] ELSE <<>>

Cutter == INSTANCE LineStream WITH
  rest <- Uncut, eof <- Ended("client"), request <- Served,
  serving <- Serving,
  open <- ~Ended("server"),
  broken <- "server" \in reset

\* However a client's bytes are torn by writes, socket and Rio buffer, the
\* requests served are the ones that cutting its input at newlines, at
\* MAXLINE - 1 bytes and at its end gives, one at a time, none lost unless the
\* client left a broken connection; a live client is hung up on after exit only.
ImplementsLineStream == Cutter!Spec

\* A side waits in a read or write for the other.
Blocked(s) ==
  /\ ~Ended(Peer(s))
  /\ \/ pc[s] = "reading" /\ rio_buf[s] = <<>> /\ wire[s] = <<>>
     \/ pc[s] = "writing" /\ nleft[s] > 0 /\ Len(wire[Peer(s)]) = PipeSize

Stuck == \A s \in Sides : Blocked(s)

\* Client and server wait for each other only as follows: stockclient after an
\* unfinished line (the server waits for its rest) or an answer that was not
\* one line; multiclient in its Rio_readnb of MAXLINE bytes, each request
\* answered, or in its next request while it has not read all of a longer
\* answer; another client by not reading what it is answered.
WhyStuck ==
  Stuck =>
    \/ kind = "stockclient" /\ (uneven \/ ~LineDone(out["client"]))
    \/ /\ kind = "multiclient"
       /\ \/ usrbuf["server"] = <<>> /\ \A s \in Sides : pc[s] = "reading"
          \/ uneven /\ \A s \in Sides : pc[s] = "writing"
    \/ kind = "other" /\ \A s \in Sides : pc[s] = "writing"

\* As long as each answer is one line, stockclient, which reads one line per
\* request, reads the answer to its own: when it turns to the next request
\* nothing of the last one is under way, on either side.
InStep ==
  kind = "stockclient" /\ pc["client"] = "thinking" /\ ~uneven /\ ~Ended("server") =>
    /\ pc["server"] \in {"reading", "writing"} /\ nleft["server"] = 0
    /\ pc["server"] = "reading" => usrbuf["server"] = <<>>
    /\ \A s \in Sides : wire[s] = <<>> /\ rio_buf[s] = <<>>

\* A stockclient that has written a finished line gets its answer, or the end
\* of the connection, unless an answer was not one line.
StockClientAnswered ==
  kind = "stockclient" /\ pc["client"] = "reading" /\ LineDone(out["client"])
    ~> pc["client"] # "reading" \/ uneven

\* When a client has ended, at whatever point, handle_client ends too: the
\* worker it occupies does not stay with it.
ServerEndsWithClient == Ended("client") ~> Ended("server")
=============================================================================
