-------------------------- MODULE ConversationProofs -------------------------
(***************************************************************************)
(* For any bytes, requests, answers and sizes of the buffers: the Rio      *)
(* reader of csapp.c cuts a client's input into requests in one way only,  *)
(* and stays inside its buffers.                                           *)
(***************************************************************************)
EXTENDS Conversation, SequenceTheorems, TLAPS

\* What a read of each side may still deliver before it must return.
Limit(s) == IF s = "client" /\ kind = "multiclient" THEN MaxLine ELSE MaxLine - 1

\* A read goes on only with room left and, on the server, no line finished.
ReadOpen ==
  /\ \A s \in Sides : pc[s] = "reading" => Len(usrbuf[s]) < Limit(s)
  /\ pc["server"] = "reading" => NoNewline(usrbuf["server"])

\* Nothing reaches a server that has ended, and a client breaks the
\* connection by ending.
EndsClean ==
  /\ Ended("server") =>
       wire["server"] = <<>> /\ rio_buf["server"] = <<>> /\ usrbuf["server"] = <<>>
  /\ "server" \in reset => Ended("client")

IndInv == TypeOK /\ ReadOpen /\ EndsClean
-----------------------------------------------------------------------------
\* Cutting a sequence anywhere loses nothing.
LEMMA Halves ==
  ASSUME NEW S, NEW q \in Seq(S), NEW n \in 0 .. Len(q)
  PROVE  /\ SubSeq(q, 1, n) \in Seq(S) /\ SubSeq(q, n + 1, Len(q)) \in Seq(S)
         /\ Len(SubSeq(q, 1, n)) = n /\ Len(SubSeq(q, n + 1, Len(q))) = Len(q) - n
         /\ SubSeq(q, 1, n) \o SubSeq(q, n + 1, Len(q)) = q
<1>0. Len(q) \in Nat
  BY LenProperties
<1>1. n \in Nat /\ n <= Len(q) /\ \A i \in 1 .. Len(q) : q[i] \in S
  BY <1>0, ElementOfSeq
<1>2. /\ SubSeq(q, 1, n) \in Seq(S)
      /\ Len(SubSeq(q, 1, n)) = IF 1 <= n THEN n - 1 + 1 ELSE 0
  BY <1>0, <1>1, SubSeqProperties
<1>3. /\ SubSeq(q, n + 1, Len(q)) \in Seq(S)
      /\ Len(SubSeq(q, n + 1, Len(q))) =
           IF n + 1 <= Len(q) THEN Len(q) - (n + 1) + 1 ELSE 0
  BY <1>0, <1>1, SubSeqProperties
<1>4. SubSeq(q, 1, n) \o SubSeq(q, n + 1, Len(q)) = SubSeq(q, 1, Len(q))
  <2>1. /\ 1 \in 1 .. Len(q) + 1 /\ n \in 1 - 1 .. Len(q)
        /\ Len(q) \in n .. Len(q)
    BY <1>0, <1>1
  <2> QED BY <2>1, ConcatAdjacentSubSeq
<1>5. SubSeq(q, 1, Len(q)) = q
  BY SubSeqFull
<1>6. Len(SubSeq(q, 1, n)) = n /\ Len(SubSeq(q, n + 1, Len(q))) = Len(q) - n
  BY <1>0, <1>1, <1>2, <1>3
<1> QED BY <1>2, <1>3, <1>4, <1>5, <1>6

\* The two parts of a concatenation, cut off again.
LEMMA Parts ==
  ASSUME NEW S, NEW p \in Seq(S), NEW q \in Seq(S)
  PROVE  /\ p \o q \in Seq(S) /\ Len(p \o q) = Len(p) + Len(q)
         /\ SubSeq(p \o q, 1, Len(p)) = p
         /\ SubSeq(p \o q, Len(p) + 1, Len(p \o q)) = q
<1>1. /\ p \o q \in Seq(S) /\ Len(p \o q) = Len(p) + Len(q)
      /\ \A i \in 1 .. Len(p) + Len(q) :
           (p \o q)[i] = IF i <= Len(p) THEN p[i] ELSE q[i - Len(p)]
  BY ConcatProperties
<1>2. Len(p) \in Nat /\ Len(q) \in Nat
  BY LenProperties
<1>3. /\ SubSeq(p \o q, 1, Len(p)) \in Seq(S)
      /\ SubSeq(p \o q, Len(p) + 1, Len(p \o q)) \in Seq(S)
      /\ Len(SubSeq(p \o q, 1, Len(p))) = Len(p)
      /\ Len(SubSeq(p \o q, Len(p) + 1, Len(p \o q))) = Len(q)
  BY <1>1, <1>2, Halves
<1>4. \A i \in 1 .. Len(p \o q) : (p \o q)[i] \in S
  BY <1>1, ElementOfSeq
<1>5. \A i \in 1 .. Len(p) : SubSeq(p \o q, 1, Len(p))[i] = p[i]
  <2>1. \A i \in 1 .. Len(p) - 1 + 1 :
          SubSeq(p \o q, 1, Len(p))[i] = (p \o q)[1 + i - 1]
    BY <1>1, <1>2, <1>4, SubSeqProperties
  <2> QED BY <2>1, <1>1, <1>2
<1>6. \A i \in 1 .. Len(q) : SubSeq(p \o q, Len(p) + 1, Len(p \o q))[i] = q[i]
  <2>1. \A i \in 1 .. Len(p \o q) - (Len(p) + 1) + 1 :
          SubSeq(p \o q, Len(p) + 1, Len(p \o q))[i] = (p \o q)[Len(p) + 1 + i - 1]
    BY <1>1, <1>2, <1>4, SubSeqProperties
  <2> QED BY <2>1, <1>1, <1>2
<1>7. SubSeq(p \o q, 1, Len(p)) = p
  BY <1>3, <1>5, SeqEqual
<1>8. SubSeq(p \o q, Len(p) + 1, Len(p \o q)) = q
  BY <1>3, <1>6, SeqEqual
<1> QED BY <1>1, <1>7, <1>8

\* Appending the head of one sequence to another and dropping it there.
LEMMA Moved ==
  ASSUME NEW S, NEW u \in Seq(S), NEW b \in Seq(S), b # <<>>
  PROVE  /\ Append(u, Head(b)) \in Seq(S) /\ Tail(b) \in Seq(S)
         /\ Len(Append(u, Head(b))) = Len(u) + 1 /\ Len(Tail(b)) = Len(b) - 1
         /\ Append(u, Head(b)) \o Tail(b) = u \o b
<1>1. /\ Head(b) \in S /\ Tail(b) \in Seq(S) /\ Len(Tail(b)) = Len(b) - 1
      /\ \A i \in 1 .. Len(Tail(b)) : Tail(b)[i] = b[i + 1]
      /\ Head(b) = b[1]
  BY HeadTailProperties
<1> DEFINE a == Append(u, Head(b))
<1>2. /\ a \in Seq(S) /\ Len(a) = Len(u) + 1
      /\ \A i \in 1 .. Len(u) : a[i] = u[i]
      /\ a[Len(u) + 1] = Head(b)
  BY <1>1, AppendProperties
<1>3. Len(u) \in Nat /\ Len(b) \in Nat \ {0}
  BY LenProperties, EmptySeq
<1> HIDE DEF a
<1>4. /\ a \o Tail(b) \in Seq(S) /\ Len(a \o Tail(b)) = Len(a) + Len(Tail(b))
      /\ \A i \in 1 .. Len(a) + Len(Tail(b)) :
           (a \o Tail(b))[i] = IF i <= Len(a) THEN a[i] ELSE Tail(b)[i - Len(a)]
  BY <1>1, <1>2, ConcatProperties
<1>5. /\ u \o b \in Seq(S) /\ Len(u \o b) = Len(u) + Len(b)
      /\ \A i \in 1 .. Len(u) + Len(b) :
           (u \o b)[i] = IF i <= Len(u) THEN u[i] ELSE b[i - Len(u)]
  BY ConcatProperties
<1>6. \A i \in 1 .. Len(u \o b) : (a \o Tail(b))[i] = (u \o b)[i]
  BY <1>1, <1>2, <1>3, <1>4, <1>5
<1>7. a \o Tail(b) = u \o b
  <2>1. Len(a \o Tail(b)) = Len(u \o b)
    BY <1>1, <1>2, <1>3, <1>4, <1>5
  <2>2. a \o Tail(b) \in Seq(S) /\ u \o b \in Seq(S)
    BY <1>4, <1>5
  <2> HIDE DEF a
  <2> QED BY <1>6, <2>1, <2>2, SeqEqual
<1> QED BY <1>1, <1>2, <1>7 DEF a
-----------------------------------------------------------------------------
\* The typing of the bytes under way, side by side.
LEMMA Typed ==
  ASSUME TypeOK, NEW s \in Sides
  PROVE  /\ Peer(s) \in Sides /\ Peer(s) # s
         /\ out[s] \in Seq(Bytes) /\ wire[s] \in Seq(Bytes)
         /\ rio_buf[s] \in Seq(Bytes) /\ usrbuf[s] \in Seq(Bytes)
         /\ Len(out[s]) \in Nat /\ Len(wire[s]) \in Nat
         /\ Len(rio_buf[s]) \in Nat /\ Len(usrbuf[s]) \in Nat
         /\ nleft[s] \in Nat /\ nleft[s] <= Len(out[s])
<1>1. /\ Peer(s) \in Sides /\ Peer(s) # s
      /\ out[s] \in Seq(Bytes) /\ wire[s] \in Seq(Bytes)
      /\ rio_buf[s] \in Seq(Bytes) /\ usrbuf[s] \in Seq(Bytes)
      /\ nleft[s] \in Nat /\ nleft[s] <= Len(out[s])
  BY DEF TypeOK, Sides, Peer
<1> QED BY <1>1, LenProperties

\* An empty buffer is a buffer.
LEMMA EmptyTyped == <<>> \in Seq(Bytes) /\ Len(<<>>) = 0
  BY EmptySeq

\* At the beginning no byte is under way.
LEMMA IndInit == Init => IndInv
<1> SUFFICES ASSUME Init PROVE IndInv
  OBVIOUS
<1>0. /\ \A s \in Sides : /\ out[s] = <<>> /\ wire[s] = <<>>
                            /\ rio_buf[s] = <<>> /\ usrbuf[s] = <<>>
                            /\ nleft[s] = 0
      /\ "client" \in Sides /\ "server" \in Sides
      /\ MaxLine \in Nat /\ MaxLine > 1 /\ BufSize \in Nat /\ PipeSize \in Nat
      /\ MaxRequests \in Nat
  BY ConversationAssumption DEF Init, Sides
<1>1. TypeOK
  <2>1. /\ out \in [Sides -> Seq(Bytes)] /\ wire \in [Sides -> Seq(Bytes)]
        /\ rio_buf \in [Sides -> Seq(Bytes)] /\ usrbuf \in [Sides -> Seq(Bytes)]
    BY EmptyTyped DEF Init
  <2>2. nleft \in [Sides -> Nat] /\ requests \in 0 .. MaxRequests
    BY <1>0 DEF Init
  <2>3. pc \in [Sides -> {"thinking", "writing", "reading", "closed", "exited"}]
    BY DEF Init
  <2>4. /\ \A s \in Sides : /\ nleft[s] <= Len(out[s]) /\ Len(wire[s]) <= PipeSize
                            /\ Len(rio_buf[s]) <= BufSize
        /\ Len(usrbuf["server"]) < MaxLine /\ Len(usrbuf["client"]) <= MaxLine
    BY <1>0, EmptyTyped
  <2> QED BY <2>1, <2>2, <2>3, <2>4 DEF TypeOK, Init
<1>2. ReadOpen
  BY EmptyTyped, ConversationAssumption DEF Init, ReadOpen, Limit, Sides, NoNewline
<1>3. EndsClean
  BY DEF Init, EndsClean, Ended, Sides
<1> QED BY <1>1, <1>2, <1>3 DEF IndInv

\* A side that ends leaves its buffers empty.
LEMMA EndStep ==
  ASSUME IndInv, NEW s \in Sides, NEW label \in {"closed", "exited"},
         EndAs(s, label)
  PROVE  IndInv'
<1> USE DEF IndInv
<1>1. TypeOK'
  BY EmptyTyped, ConversationAssumption DEF TypeOK, EndAs, Sides, Peer
<1>2. ReadOpen'
  BY DEF TypeOK, EndAs, Sides, ReadOpen, Limit, NoNewline
<1>3. EndsClean'
  BY DEF TypeOK, EndAs, Sides, EndsClean, Ended, Peer
<1> QED BY <1>1, <1>2, <1>3

\* Writing moves bytes into the socket, where there is room for them.
LEMMA WriteStep ==
  ASSUME IndInv, NEW s \in Sides, NEW n \in 1 .. PipeSize, Write(s, n)
  PROVE  IndInv'
<1> DEFINE p == Peer(s)
           done == Len(out[s]) - nleft[s]
           chunk == SubSeq(out[s], done + 1, done + n)
<1>1. /\ p \in Sides /\ p # s /\ out[s] \in Seq(Bytes) /\ wire[p] \in Seq(Bytes)
      /\ Len(out[s]) \in Nat /\ nleft[s] \in Nat /\ nleft[s] <= Len(out[s])
      /\ n \in Nat /\ n <= nleft[s] /\ Len(wire[p]) + n <= PipeSize
  BY Typed, ConversationAssumption DEF IndInv, Write
<1>2. chunk \in Seq(Bytes) /\ Len(chunk) = n
  <2>1. done \in Nat /\ done + n <= Len(out[s]) /\ n >= 1
    BY <1>1
  <2>2. \A i \in done + 1 .. done + n : out[s][i] \in Bytes
    BY <1>1, <2>1, ElementOfSeq
  <2> HIDE DEF done
  <2>3. /\ chunk \in Seq(Bytes)
        /\ Len(chunk) = IF done + 1 <= done + n THEN done + n - (done + 1) + 1 ELSE 0
    BY <1>1, <2>1, <2>2, SubSeqProperties
  <2> QED BY <1>1, <2>1, <2>3
<1>3. /\ wire[p] \o chunk \in Seq(Bytes)
      /\ Len(wire[p] \o chunk) = Len(wire[p]) + n
  <2> HIDE DEF p, chunk
  <2> QED BY <1>1, <1>2, ConcatProperties
<1>4. /\ wire' = [wire EXCEPT ![p] = wire[p] \o chunk]
      /\ nleft' = [nleft EXCEPT ![s] = nleft[s] - n]
      /\ ~Ended(p)
      /\ UNCHANGED <<kind, pc, out, rio_buf, usrbuf, reset, requests, uneven>>
  BY DEF Write
<1> HIDE DEF p, chunk
<1>5. TypeOK'
  <2>1. nleft' \in [Sides -> Nat] /\ \A t \in Sides : nleft'[t] <= Len(out'[t])
    <3>1. nleft[s] - n \in Nat /\ nleft[s] - n <= Len(out[s])
      BY <1>1
    <3>2. nleft \in [Sides -> Nat] /\ \A t \in Sides : nleft[t] <= Len(out[t])
      BY DEF IndInv, TypeOK
    <3>3. nleft' = [nleft EXCEPT ![s] = nleft[s] - n] /\ out' = out
      BY <1>4
    <3> QED BY <3>1, <3>2, <3>3
  <2>2. /\ wire' \in [Sides -> Seq(Bytes)]
        /\ \A t \in Sides : Len(wire'[t]) <= PipeSize
    BY <1>1, <1>3, <1>4 DEF IndInv, TypeOK
  <2> QED BY <1>4, <2>1, <2>2 DEF IndInv, TypeOK
<1>6. ReadOpen'
  BY <1>4 DEF IndInv, ReadOpen, Limit, NoNewline
<1>7. EndsClean'
  BY <1>1, <1>4 DEF IndInv, TypeOK, EndsClean, Ended
<1> QED BY <1>5, <1>6, <1>7 DEF IndInv

\* Refilling the Rio buffer takes no more than it holds.
LEMMA RefillStep ==
  ASSUME IndInv, NEW s \in Sides, RioRefill(s)
  PROVE  IndInv'
<1> DEFINE n == Less(Len(wire[s]), BufSize)
<1>1. wire[s] \in Seq(Bytes) /\ Len(wire[s]) \in Nat /\ Len(wire[s]) <= PipeSize
  BY Typed DEF IndInv, TypeOK
<1>2. n \in 0 .. Len(wire[s]) /\ n \in Nat /\ n <= BufSize
  BY <1>1, ConversationAssumption DEF Less
<1>3. /\ rio_buf' = [rio_buf EXCEPT ![s] = SubSeq(wire[s], 1, n)]
      /\ wire' = [wire EXCEPT ![s] = SubSeq(wire[s], n + 1, Len(wire[s]))]
      /\ pc[s] = "reading"
      /\ UNCHANGED <<kind, pc, out, nleft, usrbuf, reset, requests, uneven>>
  BY DEF RioRefill
<1> HIDE DEF n
<1>4. /\ SubSeq(wire[s], 1, n) \in Seq(Bytes)
      /\ SubSeq(wire[s], n + 1, Len(wire[s])) \in Seq(Bytes)
      /\ Len(SubSeq(wire[s], 1, n)) = n
      /\ Len(SubSeq(wire[s], n + 1, Len(wire[s]))) = Len(wire[s]) - n
  BY <1>1, <1>2, Halves
<1>5. TypeOK'
  <2>1. /\ rio_buf' \in [Sides -> Seq(Bytes)]
        /\ \A t \in Sides : Len(rio_buf'[t]) <= BufSize
    BY <1>2, <1>3, <1>4 DEF IndInv, TypeOK
  <2>2. /\ wire' \in [Sides -> Seq(Bytes)]
        /\ \A t \in Sides : Len(wire'[t]) <= PipeSize
    <3>1. /\ wire \in [Sides -> Seq(Bytes)]
          /\ \A t \in Sides : Len(wire[t]) <= PipeSize
      BY DEF IndInv, TypeOK
    <3>2. /\ SubSeq(wire[s], n + 1, Len(wire[s])) \in Seq(Bytes)
          /\ Len(SubSeq(wire[s], n + 1, Len(wire[s]))) <= PipeSize
      BY <1>1, <1>2, <1>4, ConversationAssumption
    <3>3. wire' = [wire EXCEPT ![s] = SubSeq(wire[s], n + 1, Len(wire[s]))]
      BY <1>3
    <3> QED BY <3>1, <3>2, <3>3
  <2> QED BY <1>3, <2>1, <2>2 DEF IndInv, TypeOK
<1>6. ReadOpen'
  BY <1>3 DEF IndInv, ReadOpen, Limit, NoNewline
<1>7. EndsClean'
  BY <1>3 DEF IndInv, TypeOK, EndsClean, Ended
<1> QED BY <1>5, <1>6, <1>7 DEF IndInv

\* Delivering a byte: the read is done before it outgrows the caller's buffer.
LEMMA CopyStep ==
  ASSUME IndInv, NEW s \in Sides, RioCopy(s)
  PROVE  IndInv'
<1> DEFINE u == usrbuf[s]
           b == Append(usrbuf[s], Head(rio_buf[s]))
<1>1. /\ u \in Seq(Bytes) /\ Len(u) \in Nat /\ rio_buf[s] \in Seq(Bytes)
      /\ Len(rio_buf[s]) \in Nat /\ rio_buf[s] # <<>> /\ Head(rio_buf[s]) \in Bytes
  BY Typed, HeadTailProperties DEF IndInv, RioCopy
<1>2. /\ b \in Seq(Bytes) /\ Len(b) = Len(u) + 1 /\ b # <<>>
      /\ Tail(rio_buf[s]) \in Seq(Bytes)
      /\ Len(Tail(rio_buf[s])) = Len(rio_buf[s]) - 1
      /\ \A i \in 1 .. Len(u) : b[i] = u[i]
      /\ DOMAIN b = 1 .. Len(b) /\ DOMAIN u = 1 .. Len(u)
  BY <1>1, Moved, AppendProperties, LenProperties
<1>3. /\ pc[s] = "reading"
      /\ rio_buf' = [rio_buf EXCEPT ![s] = Tail(rio_buf[s])]
      /\ usrbuf' = [usrbuf EXCEPT ![s] = b]
      /\ pc' = IF ReadDone(s, b) THEN [pc EXCEPT ![s] = "thinking"] ELSE pc
      /\ UNCHANGED <<kind, out, nleft, wire, reset, requests, uneven>>
  BY DEF RioCopy
<1>4. Len(u) < Limit(s) /\ Limit(s) \in Nat /\ Limit(s) <= MaxLine
  BY <1>3, ConversationAssumption DEF IndInv, ReadOpen, Limit
<1>5. s = "server" => Limit(s) = MaxLine - 1 /\ NoNewline(u)
  BY <1>3 DEF Limit, IndInv, ReadOpen
<1> HIDE DEF u, b
<1>6. ASSUME ~ReadDone(s, b)
      PROVE  /\ Len(b) < Limit(s)
             /\ s = "server" => NoNewline(b)
  <2>1. Len(b) # Limit(s)
    BY <1>2, <1>6 DEF ReadDone, Limit, LineDone
  <2>2. s = "server" => b[Len(b)] # NL
    BY <1>2, <1>6 DEF ReadDone, LineDone
  <2>3. ASSUME s = "server", NEW k \in 1 .. Len(b)
        PROVE  b[k] # NL
    <3>1. CASE k = Len(b)
      BY <2>2, <2>3, <3>1
    <3>2. CASE k # Len(b)
      <4>1. k \in 1 .. Len(u) /\ b[k] = u[k]
        BY <1>1, <1>2, <3>2
      <4> QED BY <4>1, <1>2, <1>5, <2>3 DEF NoNewline
    <3> QED BY <3>1, <3>2
  <2> QED BY <1>1, <1>2, <1>4, <2>1, <2>3 DEF NoNewline
<1>7. TypeOK'
  <2>1. usrbuf' \in [Sides -> Seq(Bytes)]
    BY <1>2, <1>3 DEF IndInv, TypeOK
  <2>2. Len(usrbuf'["server"]) < MaxLine /\ Len(usrbuf'["client"]) <= MaxLine
    <3>1. /\ usrbuf \in [Sides -> Seq(Bytes)]
          /\ Len(usrbuf["server"]) < MaxLine /\ Len(usrbuf["client"]) <= MaxLine
      BY DEF IndInv, TypeOK
    <3>2. Len(b) <= MaxLine /\ (s = "server" => Len(b) < MaxLine)
      BY <1>1, <1>2, <1>4, <1>5, ConversationAssumption
    <3>3. usrbuf' = [usrbuf EXCEPT ![s] = b] /\ s \in {"client", "server"}
      BY <1>3 DEF Sides
    <3> QED BY <3>1, <3>2, <3>3 DEF Sides
  <2>3. /\ rio_buf' \in [Sides -> Seq(Bytes)]
        /\ \A t \in Sides : Len(rio_buf'[t]) <= BufSize
    <3>1. /\ rio_buf \in [Sides -> Seq(Bytes)]
          /\ \A t \in Sides : Len(rio_buf[t]) <= BufSize
      BY DEF IndInv, TypeOK
    <3>2. BufSize \in Nat /\ Len(Tail(rio_buf[s])) <= BufSize
      BY <1>1, <1>2, <3>1, ConversationAssumption
    <3>3. rio_buf' = [rio_buf EXCEPT ![s] = Tail(rio_buf[s])]
      BY <1>3
    <3> QED BY <1>2, <3>1, <3>2, <3>3
  <2>4. pc' \in [Sides -> {"thinking", "writing", "reading", "closed", "exited"}]
    BY <1>3 DEF IndInv, TypeOK
  <2> QED BY <1>3, <2>1, <2>2, <2>3, <2>4 DEF IndInv, TypeOK
<1>8. ReadOpen'
  <2>1. CASE ReadDone(s, b)
    BY <1>3, <2>1 DEF IndInv, TypeOK, ReadOpen, Limit, Sides, NoNewline
  <2>2. CASE ~ReadDone(s, b)
    BY <1>3, <1>6, <2>2 DEF IndInv, TypeOK, ReadOpen, Limit, Sides, NoNewline
  <2> QED BY <2>1, <2>2
<1>9. EndsClean'
  BY <1>3 DEF IndInv, TypeOK, EndsClean, Ended, Sides
<1> QED BY <1>7, <1>8, <1>9 DEF IndInv

\* The other steps move no byte.
LEMMA OtherSteps ==
  ASSUME IndInv,
         \/ \E s \in Sides : WriteInVain(s) \/ Written(s) \/ RioEOF(s) \/ RioError(s)
         \/ Answer \/ (\E q \in Requests : Request(q)) \/ Drain \/ ClientEnds
         \/ UNCHANGED vars
  PROVE  IndInv'
<1>0. "client" \in Sides /\ "server" \in Sides
  BY DEF Sides
<1>1. ASSUME NEW s \in Sides, WriteInVain(s)
      PROVE  IndInv'
  <2>1. Ended(Peer(s)) /\ s \in Sides
    BY <1>1 DEF WriteInVain
  <2>2. TypeOK'
    <3>1. /\ nleft' = [nleft EXCEPT ![s] = 0] /\ reset' = reset \cup {s}
          /\ UNCHANGED <<kind, pc, out, wire, rio_buf, usrbuf, requests, uneven>>
      BY <1>1 DEF WriteInVain
    <3>2. \A t \in Sides : Len(out[t]) \in Nat
      BY Typed DEF IndInv
    <3>3. nleft' \in [Sides -> Nat] /\ \A t \in Sides : nleft'[t] <= Len(out[t])
      <4>1. nleft \in [Sides -> Nat] /\ \A t \in Sides : nleft[t] <= Len(out[t])
        BY DEF IndInv, TypeOK
      <4>2. nleft' = [nleft EXCEPT ![s] = 0]
        BY <3>1
      <4>3. ASSUME NEW t \in Sides PROVE nleft'[t] \in Nat /\ nleft'[t] <= Len(out[t])
        <5>1. nleft'[t] = IF t = s THEN 0 ELSE nleft[t]
          BY <4>1, <4>2
        <5> QED BY <3>2, <4>1, <5>1
      <4> QED BY <4>1, <4>2, <4>3
    <3>4. reset' \subseteq Sides
      BY <3>1 DEF IndInv, TypeOK
    <3> QED BY <3>1, <3>3, <3>4 DEF IndInv, TypeOK
  <2>3. ReadOpen' /\ EndsClean'
    BY <1>1, <2>1 DEF IndInv, TypeOK, WriteInVain, ReadOpen, EndsClean, Ended,
       Limit, NoNewline, Peer, Sides
  <2> QED BY <2>2, <2>3 DEF IndInv
<1>2. ASSUME NEW s \in Sides, Written(s)
      PROVE  IndInv'
  <2>1. CASE s = "server" /\ usrbuf[s] \in ExitLines
    BY <1>2, <2>1, EndStep DEF Written
  <2>2. CASE ~(s = "server" /\ usrbuf[s] \in ExitLines)
    <3>1. /\ pc[s] = "writing"
          /\ pc' = [pc EXCEPT ![s] =
                      IF s = "client" /\ kind = "other" THEN "thinking" ELSE "reading"]
          /\ usrbuf' = [usrbuf EXCEPT ![s] = <<>>]
          /\ UNCHANGED <<kind, out, nleft, wire, rio_buf, reset, requests, uneven>>
      BY <1>2, <2>2 DEF Written
    <3>2. Limit(s) \in Nat \ {0} /\ MaxLine \in Nat /\ 0 < MaxLine
      BY ConversationAssumption DEF Limit
    <3>3. TypeOK'
      BY <3>1, <3>2, EmptyTyped DEF IndInv, TypeOK, Sides
    <3>4. ReadOpen'
      BY <3>1, <3>2, EmptyTyped DEF IndInv, TypeOK, ReadOpen, Limit, NoNewline, Sides
    <3>5. EndsClean'
      BY <3>1 DEF IndInv, TypeOK, EndsClean, Ended, Sides
    <3> QED BY <3>3, <3>4, <3>5 DEF IndInv
  <2> QED BY <2>1, <2>2
<1>3. ASSUME NEW s \in Sides, RioEOF(s)
      PROVE  IndInv'
  <2>1. CASE s = "server" /\ usrbuf[s] = <<>>
    BY <1>3, <2>1, EndStep DEF RioEOF
  <2>2. CASE ~(s = "server" /\ usrbuf[s] = <<>>)
    <3>1. /\ pc[s] = "reading" /\ pc' = [pc EXCEPT ![s] = "thinking"]
          /\ UNCHANGED <<kind, out, nleft, wire, rio_buf, usrbuf, reset, requests,
                         uneven>>
      BY <1>3, <2>2 DEF RioEOF
    <3> QED BY <3>1 DEF IndInv, TypeOK, ReadOpen, Limit, NoNewline, EndsClean,
            Ended, Sides
  <2> QED BY <2>1, <2>2
<1>4. ASSUME NEW s \in Sides, RioError(s)
      PROVE  IndInv'
  BY <1>4, EndStep DEF RioError
<1>5. ASSUME NEW r \in Replies, Reply(r)
      PROVE  IndInv'
  <2>1. r \in Seq(Bytes) /\ Len(r) \in Nat
    BY ConversationAssumption, LenProperties
  <2>2. TypeOK'
    BY <1>5, <2>1 DEF IndInv, TypeOK, Reply, BeginWrite, Sides
  <2> QED BY <1>5, <2>2 DEF IndInv, TypeOK, Reply, BeginWrite, ReadOpen, Limit,
          NoNewline, EndsClean, Ended, Sides
<1>6. ASSUME NEW q \in Requests, Request(q)
      PROVE  IndInv'
  <2>1. q \in Seq(Bytes) /\ Len(q) \in Nat
    BY ConversationAssumption, LenProperties
  <2>2. TypeOK'
    BY <1>6, <2>1, ConversationAssumption
    DEF IndInv, TypeOK, Request, BeginWrite, Sides
  <2> QED BY <1>6, <2>2 DEF IndInv, TypeOK, Request, BeginWrite, ReadOpen, Limit,
          NoNewline, EndsClean, Ended, Sides
<1>7. CASE Drain
  <2>1. TypeOK'
    BY <1>7, EmptyTyped, ConversationAssumption DEF IndInv, TypeOK, Drain, Sides
  <2> QED BY <1>7, <2>1 DEF IndInv, TypeOK, Drain, ReadOpen, Limit, NoNewline,
          EndsClean, Ended, Sides
<1>8. CASE ClientEnds
  BY <1>0, <1>8, EndStep DEF ClientEnds
<1>9. CASE UNCHANGED vars
  BY <1>9 DEF vars, IndInv, TypeOK, ReadOpen, Limit, NoNewline, EndsClean, Ended
<1> QED BY <1>1, <1>2, <1>3, <1>4, <1>5, <1>6, <1>7, <1>8, <1>9 DEF Answer

\* Every step of the two sides keeps the invariant.
LEMMA IndStep == IndInv /\ [Next]_vars => IndInv'
  BY WriteStep, RefillStep, CopyStep, OtherSteps DEF Next, RioStep, Over

\* The invariant holds as long as the connection lasts.
LEMMA IndInvariant == Spec => []IndInv
  BY IndInit, IndStep, PTL DEF Spec

\* The Rio buffers of csapp.c are never overrun, and a request line with its
\* NUL fits the buffer of handle_client.
THEOREM TypeCorrect == Spec => []TypeOK
<1>1. IndInv => TypeOK
  BY DEF IndInv
<1> QED BY <1>1, IndInvariant, PTL
-----------------------------------------------------------------------------
\* Short names of the sides.
S == "server"
C == "client"

\* The bytes under way to the server are a sequence of bytes.
LEMMA UncutTyped ==
  ASSUME IndInv
  PROVE  /\ wire[S] \in Seq(Bytes) /\ rio_buf[S] \in Seq(Bytes)
         /\ usrbuf[S] \in Seq(Bytes) /\ Len(usrbuf[S]) \in Nat
         /\ Uncut \in Seq(Bytes) /\ Len(Uncut) \in Nat
         /\ pc[S] # "reading" => Uncut = rio_buf[S] \o wire[S]
         /\ pc[S] = "reading" => Uncut = (usrbuf[S] \o rio_buf[S]) \o wire[S]
<1>1. /\ wire[S] \in Seq(Bytes) /\ rio_buf[S] \in Seq(Bytes)
      /\ usrbuf[S] \in Seq(Bytes) /\ Len(usrbuf[S]) \in Nat
  BY Typed DEF IndInv, Sides, S
<1>2. /\ (<<>> \o rio_buf[S]) \o wire[S] = rio_buf[S] \o wire[S]
      /\ (<<>> \o rio_buf[S]) \o wire[S] \in Seq(Bytes)
      /\ (usrbuf[S] \o rio_buf[S]) \o wire[S] \in Seq(Bytes)
  BY <1>1, EmptyTyped, ConcatEmptySeq, ConcatProperties
<1>3. /\ pc[S] # "reading" => Uncut = (<<>> \o rio_buf[S]) \o wire[S]
      /\ pc[S] = "reading" => Uncut = (usrbuf[S] \o rio_buf[S]) \o wire[S]
  BY DEF Uncut, S
<1>4. Uncut \in Seq(Bytes)
  BY <1>2, <1>3
<1> QED BY <1>1, <1>2, <1>3, <1>4, LenProperties

\* More bytes at the end of what is under way.
LEMMA Grown ==
  ASSUME NEW x \in Seq(Bytes), NEW w \in Seq(Bytes), NEW c \in Seq(Bytes)
  PROVE  /\ x \o (w \o c) = (x \o w) \o c
         /\ SubSeq((x \o w) \o c, Len(x \o w) + 1, Len((x \o w) \o c)) = c
<1>1. x \o w \in Seq(Bytes)
  BY ConcatProperties
<1>2. x \o (w \o c) = (x \o w) \o c
  BY ConcatAssociative
<1>3. SubSeq((x \o w) \o c, Len(x \o w) + 1, Len((x \o w) \o c)) = c
  BY <1>1, Parts
<1> QED BY <1>2, <1>3

\* What a step must not touch to be none of the cutter's.
Quiet ==
  /\ UNCHANGED <<Uncut, Served>>
  /\ Ended(C)' <=> Ended(C)
  /\ Ended(S)' <=> Ended(S)
  /\ Serving' <=> Serving
  /\ S \in reset' <=> S \in reset

\* A quiet step is a stutter of the cutter.
LEMMA QuietStutters == Quiet => UNCHANGED Cutter!vars
<1> SUFFICES ASSUME Quiet PROVE UNCHANGED Cutter!vars
  OBVIOUS
<1>1. Ended("client")' = Ended("client")
  BY DEF Quiet, Ended, C
<1>2. (~Ended("server"))' = ~Ended("server")
  BY DEF Quiet, Ended, S
<1>3. Serving' = Serving
  BY DEF Quiet, Serving
<1>4. ("server" \in reset)' = ("server" \in reset)
  BY DEF Quiet, S
<1> QED BY <1>1, <1>2, <1>3, <1>4 DEF Quiet, Cutter!vars

\* No byte is under way when handle_client begins to read.
LEMMA CutterInit == Init => Cutter!Init
<1> SUFFICES ASSUME Init PROVE Cutter!Init
  OBVIOUS
<1>1. /\ pc[S] = "reading" /\ pc[C] = "thinking"
      /\ usrbuf[S] = <<>> /\ rio_buf[S] = <<>> /\ wire[S] = <<>>
      /\ reset = {}
  BY DEF Init, Sides, S, C
<1>2. Uncut = <<>>
  BY <1>1, EmptyTyped, ConcatEmptySeq DEF Uncut, S
<1> QED BY <1>1, <1>2 DEF Cutter!Init, Served, Serving, Ended, S, C

\* A client that writes sends bytes; a server that writes does not matter here.
LEMMA WriteMaps ==
  ASSUME IndInv, IndInv', NEW s \in Sides, NEW n \in 1 .. PipeSize, Write(s, n)
  PROVE  Cutter!Send \/ Quiet
<1>1. CASE s = S
  <2>1. wire'[S] = wire[S] /\ UNCHANGED <<pc, rio_buf, usrbuf, reset>>
    BY <1>1 DEF Write, Peer, IndInv, TypeOK, Sides, S
  <2> QED BY <2>1 DEF Quiet, Uncut, Served, Serving, Ended, S, C
<1>2. CASE s = C
  <2> DEFINE c == SubSeq(out[C], Len(out[C]) - nleft[C] + 1,
                         Len(out[C]) - nleft[C] + n)
             X == (IF pc[S] = "reading" THEN usrbuf[S] ELSE <<>>) \o rio_buf[S]
  <2>1. /\ pc[C] = "writing" /\ ~Ended(S)
        /\ wire'[S] = wire[S] \o c
        /\ UNCHANGED <<pc, rio_buf, usrbuf, reset>>
    BY <1>2 DEF Write, Peer, IndInv, TypeOK, Sides, S, C
  <2>2. c \in Seq(Bytes)
    <3>1. /\ out[C] \in Seq(Bytes) /\ Len(out[C]) \in Nat /\ nleft[C] \in Nat
          /\ nleft[C] <= Len(out[C]) /\ n \in 1 .. nleft[C]
      BY <1>2, Typed DEF IndInv, Write, Sides, C
    <3>2. \A i \in Len(out[C]) - nleft[C] + 1 .. Len(out[C]) - nleft[C] + n :
            out[C][i] \in Bytes
      BY <3>1, ElementOfSeq
    <3>3. /\ Len(out[C]) - nleft[C] + 1 \in Int
          /\ Len(out[C]) - nleft[C] + n \in Int
      BY <3>1
    <3> QED BY <3>2, <3>3, SubSeqProperties
  <2>3. /\ X \in Seq(Bytes) /\ wire[S] \in Seq(Bytes)
        /\ Uncut \in Seq(Bytes) /\ Uncut = X \o wire[S]
    <3>1. <<>> \o rio_buf[S] \in Seq(Bytes) /\ usrbuf[S] \o rio_buf[S] \in Seq(Bytes)
      BY UncutTyped, EmptyTyped, ConcatProperties
    <3> QED BY <3>1, UncutTyped DEF Uncut, S
  <2>4. Uncut' = X \o (wire[S] \o c)
    BY <2>1 DEF Uncut, S
  <2> HIDE DEF X, c
  <2>5. /\ X \o (wire[S] \o c) = (X \o wire[S]) \o c
        /\ SubSeq((X \o wire[S]) \o c, Len(X \o wire[S]) + 1,
                  Len((X \o wire[S]) \o c)) = c
    <3>1. X \in Seq(Bytes)
      BY <2>3
    <3>2. wire[S] \in Seq(Bytes)
      BY <2>3
    <3>3. c \in Seq(Bytes)
      BY <2>2
    <3> DEFINE G(y, w, z) ==
          /\ y \o (w \o z) = (y \o w) \o z
          /\ SubSeq((y \o w) \o z, Len(y \o w) + 1, Len((y \o w) \o z)) = z
    <3>4. \A y, w, z \in Seq(Bytes) : G(y, w, z)
      BY Grown
    <3> HIDE DEF G
    <3>5. G(X, wire[S], c)
      BY <3>1, <3>2, <3>3, <3>4
    <3> QED BY <3>5 DEF G
  <2>6. /\ Uncut' = Uncut \o c
        /\ SubSeq(Uncut', Len(Uncut) + 1, Len(Uncut')) = c
    BY <2>3, <2>4, <2>5
  <2> QED BY <2>1, <2>6 DEF Cutter!Send, Ended, Served, Serving, S, C
<1> QED BY <1>1, <1>2 DEF Sides, S, C

\* Bytes that move from the socket to the Rio buffer stay in their order.
LEMMA RefillMaps ==
  ASSUME IndInv, IndInv', NEW s \in Sides, RioRefill(s)
  PROVE  Quiet
<1>1. UNCHANGED <<kind, pc, usrbuf, reset>>
  BY DEF RioRefill
<1>2. CASE s = C
  <2>1. wire'[S] = wire[S] /\ rio_buf'[S] = rio_buf[S]
    BY <1>2 DEF RioRefill, S, C
  <2> QED BY <1>1, <2>1 DEF Quiet, Uncut, Served, Serving, Ended, S, C
<1>3. CASE s = S
  <2> DEFINE n == Less(Len(wire[S]), BufSize)
             u == IF pc[S] = "reading" THEN usrbuf[S] ELSE <<>>
  <2>1. wire[S] \in Seq(Bytes) /\ Len(wire[S]) \in Nat /\ u \in Seq(Bytes)
    BY UncutTyped, EmptyTyped, LenProperties
  <2>2. n \in 0 .. Len(wire[S])
    BY <2>1, ConversationAssumption DEF Less
  <2>3. /\ rio_buf[S] = <<>>
        /\ rio_buf'[S] = SubSeq(wire[S], 1, n)
        /\ wire'[S] = SubSeq(wire[S], n + 1, Len(wire[S]))
    BY <1>3 DEF RioRefill, IndInv, TypeOK
  <2> HIDE DEF n
  <2>4. /\ SubSeq(wire[S], 1, n) \in Seq(Bytes)
        /\ SubSeq(wire[S], n + 1, Len(wire[S])) \in Seq(Bytes)
        /\ SubSeq(wire[S], 1, n) \o SubSeq(wire[S], n + 1, Len(wire[S])) = wire[S]
    BY <2>1, <2>2, Halves
  <2>5. Uncut' = (u \o rio_buf'[S]) \o wire'[S] /\ Uncut = (u \o rio_buf[S]) \o wire[S]
    BY <1>1 DEF Uncut, S
  <2> HIDE DEF u
  <2>6. u \in Seq(Bytes) /\ rio_buf'[S] \in Seq(Bytes) /\ wire'[S] \in Seq(Bytes)
    BY <2>1, <2>3, <2>4
  <2>7. (u \o rio_buf'[S]) \o wire'[S] = u \o (rio_buf'[S] \o wire'[S])
    <3>1. u \in Seq(Bytes)
      BY <2>6
    <3>2. rio_buf'[S] \in Seq(Bytes)
      BY <2>6
    <3>3. wire'[S] \in Seq(Bytes)
      BY <2>6
    <3> QED BY <3>1, <3>2, <3>3, Grown
  <2>8. u \o rio_buf[S] = u
    BY <2>1, <2>3, ConcatEmptySeq
  <2>9. Uncut' = Uncut
    BY <2>3, <2>4, <2>5, <2>7, <2>8
  <2> QED BY <1>1, <2>9 DEF Quiet, Served, Serving, Ended, S, C
<1> QED BY <1>2, <1>3 DEF Sides, S, C

\* The byte that completes a line cuts a request off; any other moves on.
LEMMA CopyMaps ==
  ASSUME IndInv, IndInv', NEW s \in Sides, RioCopy(s)
  PROVE  Cutter!Take \/ Quiet
<1>1. UNCHANGED <<kind, wire, reset>>
  BY DEF RioCopy
<1>2. CASE s = C
  <2>1. /\ rio_buf'[S] = rio_buf[S] /\ usrbuf'[S] = usrbuf[S] /\ pc'[S] = pc[S]
        /\ ~Ended(C) /\ ~Ended(C)'
    BY <1>2 DEF RioCopy, IndInv, TypeOK, Sides, Ended, S, C
  <2> QED BY <1>1, <2>1 DEF Quiet, Uncut, Served, Serving, Ended, S, C
<1>3. CASE s = S
  <2> DEFINE u == usrbuf[S]
             b == rio_buf[S]
             a == Append(u, Head(b))
  <2>1. /\ u \in Seq(Bytes) /\ Len(u) \in Nat /\ b \in Seq(Bytes) /\ b # <<>>
        /\ wire[S] \in Seq(Bytes)
    BY <1>3, UncutTyped DEF RioCopy
  <2>2. /\ pc[S] = "reading" /\ pc'[C] = pc[C]
        /\ rio_buf'[S] = Tail(b) /\ usrbuf'[S] = a
        /\ pc'[S] = IF LineDone(a) THEN "thinking" ELSE "reading"
    BY <1>3 DEF RioCopy, IndInv, TypeOK, ReadDone, Sides, S, C
  <2>3. /\ a \in Seq(Bytes) /\ Tail(b) \in Seq(Bytes)
        /\ Len(a) = Len(u) + 1 /\ a \o Tail(b) = u \o b
    BY <2>1, Moved
  <2>4. Uncut = (a \o Tail(b)) \o wire[S]
    BY <2>2, <2>3 DEF Uncut, S
  <2>5. CASE ~LineDone(a)
    <3>1. Uncut' = (a \o Tail(b)) \o wire[S]
      BY <1>1, <2>2, <2>5 DEF Uncut, S
    <3> QED BY <1>1, <2>2, <2>4, <2>5, <3>1
         DEF Quiet, Served, Serving, Ended, S, C
  <2>6. CASE LineDone(a)
    <3> DEFINE t == Tail(b) \o wire[S]
               k == Len(a)
    <3>1. Uncut' = t
      <4>1. pc'[S] # "reading" /\ rio_buf'[S] = Tail(b) /\ wire'[S] = wire[S]
        BY <1>1, <2>2, <2>6
      <4>2. Uncut' = rio_buf'[S] \o wire'[S]
        BY <4>1, UncutTyped, EmptyTyped, ConcatEmptySeq, <2>1, <2>3 DEF Uncut, S
      <4> QED BY <4>1, <4>2
    <3>2. t \in Seq(Bytes)
      BY <2>1, <2>3, ConcatProperties
    <3>3. Uncut = a \o t
      <4>1. Tail(b) \in Seq(Bytes)
        BY <2>3
      <4>2. wire[S] \in Seq(Bytes)
        BY <2>1
      <4>3. a \in Seq(Bytes)
        BY <2>3
      <4> HIDE DEF a, b
      <4>4. (a \o Tail(b)) \o wire[S] = a \o (Tail(b) \o wire[S])
        BY <4>1, <4>2, <4>3, Grown
      <4> QED BY <2>4, <4>4
    <3>4. /\ \A i \in 1 .. Len(u) : a[i] = u[i]
          /\ a[k] = Head(b)
      <4>1. Head(b) \in Bytes
        BY <2>1, HeadTailProperties
      <4> QED BY <2>1, <2>3, <4>1, AppendProperties
    <3> HIDE DEF a, t, u, b
    <3>5. /\ SubSeq(Uncut, 1, k) = a
          /\ SubSeq(Uncut, k + 1, Len(Uncut)) = t
          /\ Len(Uncut) = k + Len(t)
      <4>1. /\ SubSeq(a \o t, 1, Len(a)) = a
            /\ SubSeq(a \o t, Len(a) + 1, Len(a \o t)) = t
            /\ Len(a \o t) = Len(a) + Len(t)
        <5>1. a \in Seq(Bytes)
          BY <2>3
        <5>2. t \in Seq(Bytes)
          BY <3>2
        <5> QED BY <5>1, <5>2, Parts
      <4> QED BY <3>3, <4>1
    <3>6. Len(t) \in Nat /\ k \in Nat \ {0} /\ k \in 1 .. Len(Uncut)
      BY <2>1, <2>3, <3>2, <3>5, LenProperties
    <3>7. \A i \in 1 .. k : Uncut[i] = a[i]
      <4>1. \A i \in 1 .. Len(a) + Len(t) :
              (a \o t)[i] = IF i <= Len(a) THEN a[i] ELSE t[i - Len(a)]
        BY <2>3, <3>2, ConcatProperties
      <4> QED BY <3>3, <3>6, <4>1
    <3>8. \A j \in 1 .. k - 1 : Uncut[j] # NL
      <4>1. NoNewline(u) /\ DOMAIN u = 1 .. Len(u)
        BY <2>1, <2>2, LenProperties DEF IndInv, ReadOpen, u, S
      <4>2. ASSUME NEW j \in 1 .. k - 1 PROVE Uncut[j] # NL
        <5>1. j \in 1 .. Len(u) /\ j \in 1 .. k
          BY <2>1, <2>3, <3>6
        <5>2. Uncut[j] = a[j] /\ a[j] = u[j]
          BY <3>4, <3>7, <5>1
        <5>3. u[j] # NL
          BY <4>1, <5>1 DEF NoNewline
        <5> QED BY <5>2, <5>3
      <4> QED BY <4>2
    <3>9. k < MaxLine
      <4>1. Len(u) < MaxLine - 1
        BY <2>2 DEF IndInv, ReadOpen, Limit, Sides, u, S
      <4> QED BY <2>1, <2>3, <4>1, ConversationAssumption
    <3>10. Uncut[k] = NL \/ k = MaxLine - 1
      BY <2>6, <3>6, <3>7 DEF LineDone
    <3>11. Cutter!IsCut(Uncut, k)
      BY <3>8, <3>9, <3>10 DEF Cutter!IsCut
    <3>12. /\ Served' = a /\ Serving' /\ ~Serving
           /\ ~Ended(S) /\ ~Ended(S)' /\ (Ended(C)' <=> Ended(C))
      BY <2>2, <2>6 DEF Served, Serving, Ended, S, C
    <3>13. /\ UNCHANGED Ended("client") /\ UNCHANGED ~Ended("server")
           /\ UNCHANGED ("server" \in reset)
      BY <1>1, <3>12 DEF Ended, S, C
    <3>14. \E i \in 1 .. Len(Uncut) :
             /\ Cutter!IsCut(Uncut, i)
             /\ Served' = SubSeq(Uncut, 1, i)
             /\ Uncut' = SubSeq(Uncut, i + 1, Len(Uncut))
      BY <3>1, <3>5, <3>6, <3>11, <3>12
    <3> QED BY <3>12, <3>13, <3>14 DEF Cutter!Take, Serving, S
  <2> QED BY <2>5, <2>6
<1> QED BY <1>2, <1>3 DEF Sides, S, C

\* A server that ends has answered an exit, read all there was, or found the
\* connection broken.
LEMMA ServerEnds ==
  ASSUME IndInv, IndInv', NEW label \in {"closed", "exited"}, EndAs(S, label),
         ~Ended(S),
         \/ Serving /\ Served \in ExitLines
         \/ ~Serving /\ Ended(C) /\ Uncut = <<>>
         \/ S \in reset
  PROVE  Cutter!HangUp
<1>1. /\ pc'[S] = label /\ pc'[C] = pc[C]
      /\ wire'[S] = <<>> /\ rio_buf'[S] = <<>> /\ usrbuf'[S] = <<>>
      /\ S \in reset' <=> S \in reset
  BY DEF EndAs, IndInv, TypeOK, Sides, Peer, S, C
<1>2. Uncut' = <<>>
  BY <1>1, EmptyTyped, ConcatEmptySeq DEF Uncut, S
<1>3. Served' = <<>> /\ Serving' = FALSE /\ (~Ended("server"))' = FALSE
  BY <1>1 DEF Served, Serving, Ended, S
<1>4. UNCHANGED Ended("client") /\ UNCHANGED ("server" \in reset)
  BY <1>1 DEF Ended, S, C
<1> QED BY <1>2, <1>3, <1>4 DEF Cutter!HangUp, S, C

\* A client that ends leaves the server's bytes alone.
LEMMA ClientEndsMaps ==
  ASSUME IndInv, NEW label \in {"closed", "exited"}, EndAs(C, label)
  PROVE  Cutter!End
<1>1. /\ pc'[C] = label /\ pc'[S] = pc[S]
      /\ wire'[S] = wire[S] /\ rio_buf'[S] = rio_buf[S] /\ usrbuf'[S] = usrbuf[S]
      /\ S \in reset => S \in reset'
  BY DEF EndAs, IndInv, TypeOK, Sides, Peer, S, C
<1>2. UNCHANGED <<Uncut, Served, Serving>> /\ UNCHANGED ~Ended("server")
  BY <1>1 DEF Uncut, Served, Serving, Ended, S
<1>3. Ended("client")' = TRUE
  BY <1>1 DEF Ended, C
<1>4. "server" \in reset => "server" \in reset'
  BY <1>1 DEF S
<1> QED BY <1>2, <1>3, <1>4 DEF Cutter!End

\* At the end of the input the rest of it is the last request, if there is any.
LEMMA EOFMaps ==
  ASSUME IndInv, IndInv', NEW s \in Sides, RioEOF(s)
  PROVE  Cutter!Take \/ Cutter!HangUp \/ Quiet
<1>1. CASE s = C
  <2>1. /\ UNCHANGED <<usrbuf, rio_buf, wire, reset>>
        /\ pc'[S] = pc[S] /\ pc[C] = "reading" /\ pc'[C] = "thinking"
    BY <1>1 DEF RioEOF, IndInv, TypeOK, Sides, S, C
  <2> QED BY <2>1 DEF Quiet, Uncut, Served, Serving, Ended, S, C
<1>2. CASE s = S
  <2> DEFINE u == usrbuf[S]
  <2>1. /\ pc[S] = "reading" /\ rio_buf[S] = <<>> /\ wire[S] = <<>> /\ Ended(C)
        /\ u \in Seq(Bytes) /\ Len(u) \in Nat
    BY <1>2, UncutTyped DEF RioEOF, Peer, S, C
  <2>2. Uncut = u
    BY <2>1, ConcatEmptySeq DEF Uncut, S
  <2>3. CASE u = <<>>
    <3>1. EndAs(S, "closed")
      BY <1>2, <2>3 DEF RioEOF, S
    <3> QED BY <2>1, <2>2, <2>3, <3>1, ServerEnds DEF Ended, Serving, S
  <2>4. CASE u # <<>>
    <3>1. /\ UNCHANGED <<usrbuf, rio_buf, wire, reset>>
          /\ pc'[S] = "thinking" /\ pc'[C] = pc[C]
      BY <1>2, <2>4 DEF RioEOF, IndInv, TypeOK, Sides, S, C
    <3>2. Uncut' = <<>>
      BY <2>1, <3>1, EmptyTyped, ConcatEmptySeq DEF Uncut, S
    <3>3. Len(u) \in 1 .. Len(u) /\ Len(u) < MaxLine
      <4>1. Len(u) # 0
        BY <2>1, <2>4, EmptySeq
      <4>2. Len(u) < MaxLine - 1
        BY <2>1 DEF IndInv, ReadOpen, Limit, Sides, S
      <4> QED BY <2>1, <4>1, <4>2, ConversationAssumption
    <3>4. \A j \in 1 .. Len(u) - 1 : u[j] # NL
      <4>1. NoNewline(u) /\ DOMAIN u = 1 .. Len(u)
        BY <2>1, LenProperties DEF IndInv, ReadOpen, S
      <4> QED BY <2>1, <4>1 DEF NoNewline
    <3>5. Cutter!IsCut(Uncut, Len(u))
      BY <2>1, <2>2, <3>3, <3>4 DEF Cutter!IsCut, C
    <3> HIDE DEF u
    <3>6. /\ SubSeq(u, 1, Len(u)) = u
          /\ SubSeq(u, Len(u) + 1, Len(u)) = <<>>
      <4>1. SubSeq(u, 1, Len(u)) = u
        BY <2>1, SubSeqFull
      <4>2. SubSeq(u, Len(u) + 1, Len(u)) = <<>>
        BY <2>1, SubSeqEmpty
      <4> QED BY <4>1, <4>2
    <3>7. Served' = u /\ Serving' = TRUE /\ ~Serving /\ ~Ended(S)
      BY <2>1, <3>1 DEF Served, Serving, Ended, S, u
    <3>8. /\ UNCHANGED Ended("client") /\ UNCHANGED ~Ended("server")
          /\ UNCHANGED ("server" \in reset)
      BY <2>1, <3>1 DEF Ended, S, C
    <3>9. \E i \in 1 .. Len(Uncut) :
            /\ Cutter!IsCut(Uncut, i)
            /\ Served' = SubSeq(Uncut, 1, i)
            /\ Uncut' = SubSeq(Uncut, i + 1, Len(Uncut))
      BY <2>2, <3>2, <3>3, <3>5, <3>6, <3>7
    <3> QED BY <3>7, <3>8, <3>9 DEF Cutter!Take, S
  <2> QED BY <2>3, <2>4
<1> QED BY <1>1, <1>2 DEF Sides, S, C

\* An answer written in full is the end of its request, an exit's of all.
LEMMA WrittenMaps ==
  ASSUME IndInv, IndInv', NEW s \in Sides, Written(s)
  PROVE  Cutter!Answer \/ Cutter!HangUp \/ Quiet
<1>1. CASE s = C
  <2>1. /\ UNCHANGED <<rio_buf, wire, reset>> /\ usrbuf'[S] = usrbuf[S]
        /\ pc'[S] = pc[S] /\ pc[C] = "writing" /\ pc'[C] \in {"thinking", "reading"}
    BY <1>1 DEF Written, IndInv, TypeOK, Sides, S, C
  <2> QED BY <2>1 DEF Quiet, Uncut, Served, Serving, Ended, S, C
<1>2. CASE s = S
  <2>1. pc[S] = "writing" /\ Serving /\ ~Ended(S) /\ Served = usrbuf[S]
    BY <1>2 DEF Written, Serving, Served, Ended, S
  <2>2. CASE usrbuf[S] \in ExitLines
    <3>1. EndAs(S, "closed")
      BY <1>2, <2>2 DEF Written, S
    <3> QED BY <2>1, <2>2, <3>1, ServerEnds
  <2>3. CASE usrbuf[S] \notin ExitLines
    <3>1. /\ UNCHANGED <<rio_buf, wire, reset>> /\ usrbuf'[S] = <<>>
          /\ pc'[S] = "reading" /\ pc'[C] = pc[C]
      BY <1>2, <2>3 DEF Written, IndInv, TypeOK, Sides, S, C
    <3>2. Uncut' = Uncut
      BY <2>1, <3>1 DEF Uncut, S
    <3>3. Served' = <<>> /\ Serving' = FALSE
      BY <3>1 DEF Served, Serving, S
    <3>4. /\ UNCHANGED Ended("client") /\ UNCHANGED ~Ended("server")
          /\ UNCHANGED ("server" \in reset)
      BY <2>1, <3>1 DEF Ended, S, C
    <3> QED BY <2>1, <2>3, <3>2, <3>3, <3>4 DEF Cutter!Answer
  <2> QED BY <2>2, <2>3
<1> QED BY <1>1, <1>2 DEF Sides, S, C

\* Bytes for a side that has ended only break the connection.
LEMMA InVainMaps ==
  ASSUME IndInv, NEW s \in Sides, WriteInVain(s)
  PROVE  Cutter!End \/ Quiet
<1>1. UNCHANGED <<pc, wire, rio_buf, usrbuf>> /\ reset' = reset \cup {s}
  BY DEF WriteInVain
<1>2. UNCHANGED <<Uncut, Served, Serving>> /\ UNCHANGED ~Ended("server")
  BY <1>1 DEF Uncut, Served, Serving, Ended
<1>3. CASE s = C
  BY <1>1, <1>3 DEF Quiet, Uncut, Served, Serving, Ended, S, C
<1>4. CASE s = S
  <2>1. Ended("client")' = TRUE
    BY <1>1, <1>4 DEF WriteInVain, Peer, Ended, S
  <2>2. "server" \in reset => "server" \in reset'
    BY <1>1, <1>4 DEF S
  <2> QED BY <1>2, <2>1, <2>2 DEF Cutter!End
<1> QED BY <1>3, <1>4 DEF Sides, S, C

\* Every step of the connection is a step of the cutter or leaves it alone.
LEMMA CutterStep == IndInv /\ IndInv' /\ [Next]_vars => [Cutter!Next]_(Cutter!vars)
<1> SUFFICES ASSUME IndInv, IndInv', [Next]_vars PROVE Cutter!Next \/ Quiet
  BY QuietStutters
<1> USE DEF Cutter!Next
<1>1. ASSUME NEW s \in Sides, RioStep(s) PROVE Cutter!Next \/ Quiet
  <2>1. ASSUME NEW n \in 1 .. PipeSize, Write(s, n) PROVE Cutter!Next \/ Quiet
    BY <2>1, WriteMaps
  <2>2. CASE RioError(s)
    <3>1. CASE s = S
      BY <2>2, <3>1, ServerEnds DEF RioError, Ended
    <3>2. CASE s = C
      BY <2>2, <3>2, ClientEndsMaps DEF RioError
    <3> QED BY <3>1, <3>2 DEF Sides, S, C
  <2> QED BY <1>1, <2>1, <2>2, RefillMaps, CopyMaps, EOFMaps, WrittenMaps,
          InVainMaps DEF RioStep
<1>2. ASSUME NEW r \in Replies, Reply(r) PROVE Quiet
  <2>1. /\ UNCHANGED <<wire, rio_buf, usrbuf, reset>> /\ pc'[C] = pc[C]
        /\ pc[S] = "thinking" /\ pc'[S] = "writing"
    BY <1>2 DEF Reply, BeginWrite, IndInv, TypeOK, Sides, S, C
  <2> QED BY <2>1 DEF Quiet, Uncut, Served, Serving, Ended, S, C
<1>3. ASSUME NEW q \in Requests, Request(q) PROVE Quiet
  <2>1. /\ UNCHANGED <<wire, rio_buf, usrbuf, reset>> /\ pc'[S] = pc[S]
        /\ pc[C] = "thinking" /\ pc'[C] = "writing"
    BY <1>3 DEF Request, BeginWrite, IndInv, TypeOK, Sides, S, C
  <2> QED BY <2>1 DEF Quiet, Uncut, Served, Serving, Ended, S, C
<1>4. CASE Drain
  <2>1. UNCHANGED <<pc, rio_buf, usrbuf, reset>> /\ wire'[S] = wire[S]
    BY <1>4 DEF Drain, IndInv, TypeOK, Sides, S
  <2> QED BY <2>1 DEF Quiet, Uncut, Served, Serving, Ended, S, C
<1>5. CASE ClientEnds
  BY <1>5, ClientEndsMaps DEF ClientEnds, C
<1>6. CASE UNCHANGED vars
  BY <1>6 DEF vars, Quiet, Uncut, Served, Serving, Ended, S, C
<1> QED BY <1>1, <1>2, <1>3, <1>4, <1>5, <1>6 DEF Next, Answer, Over

\* handle_client is given the requests that cutting the client's bytes at
\* newlines, at MAXLINE - 1 and at their end gives, whatever the socket and
\* the Rio buffer did to them, and leaves a live client only after its exit.
THEOREM RequestsCutOneWay == Spec => ImplementsLineStream
<1>1. Init => Cutter!Init
  BY CutterInit
<1>2. IndInv /\ IndInv' /\ [Next]_vars => [Cutter!Next]_(Cutter!vars)
  BY CutterStep
<1> QED BY <1>1, <1>2, IndInvariant, PTL
        DEF Spec, ImplementsLineStream, Cutter!Spec
=============================================================================
