----------------------- MODULE ConversationStepProofs ------------------------
(***************************************************************************)
(* Why the two sides of a connection may wait for each other, for any      *)
(* bytes, requests, answers and sizes of the buffers: as long as answers   *)
(* have one line, client and server take turns, and the bytes under way    *)
(* towards each of them are nothing, or all of the other's last write.     *)
(***************************************************************************)
EXTENDS ConversationProofs

\* The end of the last write of a side that it has not written yet.
Unsent(s) == SubSeq(out[s], Len(out[s]) - nleft[s] + 1, Len(out[s]))

\* All bytes on their way to a side: delivered to a read that goes on, in the
\* Rio buffer, in the socket, and still to be written.
Got(s) == IF pc[s] = "reading" THEN usrbuf[s] ELSE <<>>
Toward(s) == Got(s) \o (rio_buf[s] \o (wire[s] \o Unsent(Peer(s))))

\* A newline, if any, ends it, and it fits a read.
AtMostALine(q) == Len(q) < MaxLine /\ NoNewline(SubSeq(q, 1, Len(q) - 1))

BothOpen == ~Ended(C) /\ ~Ended(S)

AllSent == \A s \in Sides : pc[s] \in {"thinking", "reading"} => nleft[s] = 0

\* The read of stockclient ends with a line, too.
ClientOpen ==
  kind = "stockclient" /\ pc[C] = "reading" => NoNewline(usrbuf[C])

\* What another client reads it drains from the socket, in no Rio call.
DrainsOnly == kind = "other" => pc[C] # "reading"

Idle == Toward(S) = <<>> /\ Toward(C) = <<>>
ClientHasTurn == pc[C] = "thinking" /\ pc[S] # "thinking" /\ Idle
RequestUnderWay ==
  /\ pc[C] # "thinking" /\ pc[S] # "thinking"
  /\ Toward(S) = out[C] /\ AtMostALine(out[C]) /\ Toward(C) = <<>>
ServerHasTurn == pc[C] # "thinking" /\ pc[S] = "thinking" /\ Idle
AnswerUnderWay ==
  /\ pc[C] # "thinking" /\ pc[S] # "thinking"
  /\ Toward(C) = out[S] /\ OneLine(out[S]) /\ Len(out[S]) < MaxLine
  /\ Toward(S) = <<>>

InTurn == ClientHasTurn \/ RequestUnderWay \/ ServerHasTurn \/ AnswerUnderWay

TurnsTaken == kind # "other" /\ ~uneven /\ BothOpen => InTurn

\* multiclient sends whole lines, so what the server has not read ends with one.
WholeLines ==
  kind = "multiclient" /\ BothOpen =>
    Toward(S) = <<>> \/ Toward(S)[Len(Toward(S))] = NL

StepInv == IndInv /\ AllSent /\ ClientOpen /\ DrainsOnly /\ TurnsTaken /\ WholeLines
-----------------------------------------------------------------------------
\* Nothing is empty only together.
LEMMA EmptyParts ==
  ASSUME NEW A, NEW p \in Seq(A), NEW q \in Seq(A)
  PROVE  p \o q = <<>> <=> p = <<>> /\ q = <<>>
<1>1. Len(p \o q) = Len(p) + Len(q) /\ p \o q \in Seq(A)
  BY ConcatProperties
<1>2. Len(p) \in Nat /\ Len(q) \in Nat
  BY LenProperties
<1>3. ASSUME p \o q = <<>> PROVE p = <<>> /\ q = <<>>
  <2>1. Len(p) + Len(q) = 0
    BY <1>1, <1>3, EmptySeq
  <2>2. Len(p) = 0 /\ Len(q) = 0
    BY <1>2, <2>1
  <2> QED BY <2>2, EmptySeq
<1>4. ASSUME p = <<>>, q = <<>> PROVE p \o q = <<>>
  BY <1>4, ConcatEmptySeq
<1> QED BY <1>3, <1>4

\* The last element of a concatenation is that of its second part.
LEMMA LastOfParts ==
  ASSUME NEW A, NEW p \in Seq(A), NEW q \in Seq(A), q # <<>>
  PROVE  (p \o q)[Len(p \o q)] = q[Len(q)] /\ p \o q # <<>>
<1>1. /\ Len(p \o q) = Len(p) + Len(q)
      /\ \A i \in 1 .. Len(p) + Len(q) :
           (p \o q)[i] = IF i <= Len(p) THEN p[i] ELSE q[i - Len(p)]
  BY ConcatProperties
<1>2. Len(p) \in Nat /\ Len(q) \in Nat \ {0}
  BY LenProperties, EmptySeq
<1>3. /\ Len(p \o q) \in 1 .. Len(p) + Len(q) /\ ~(Len(p \o q) <= Len(p))
      /\ Len(p \o q) - Len(p) = Len(q)
  BY <1>1, <1>2
<1>4. p \o q # <<>>
  BY <1>2, EmptyParts, EmptySeq
<1> QED BY <1>1, <1>3, <1>4

\* Concatenation can be regrouped.
LEMMA Regrouped ==
  \A p, q, r \in Seq(Bytes) : p \o (q \o r) = (p \o q) \o r
  BY ConcatAssociative

\* A line that is complete within at most a line is all of it.
LEMMA LineIsAll ==
  ASSUME NEW p \in Seq(Bytes), NEW q \in Seq(Bytes), AtMostALine(p \o q),
         p # <<>>, p[Len(p)] = NL \/ Len(p) = MaxLine - 1
  PROVE  q = <<>>
<1>1. /\ Len(p \o q) = Len(p) + Len(q) /\ p \o q \in Seq(Bytes)
      /\ \A i \in 1 .. Len(p) + Len(q) :
           (p \o q)[i] = IF i <= Len(p) THEN p[i] ELSE q[i - Len(p)]
  BY ConcatProperties
<1>2. Len(p) \in Nat \ {0} /\ Len(q) \in Nat
  BY LenProperties, EmptySeq
<1>3. Len(q) = 0
  <2>1. SUFFICES ASSUME Len(q) # 0 PROVE FALSE
    OBVIOUS
  <2>2. Len(p) # MaxLine - 1
    BY <1>1, <1>2, <2>1, ConversationAssumption DEF AtMostALine
  <2>3. (p \o q)[Len(p)] = NL
    BY <1>1, <1>2, <2>2
  <2> DEFINE z == p \o q
             l == Len(z) - 1
  <2>4. l \in Nat /\ Len(p) \in 1 .. l /\ l <= Len(z)
    BY <1>1, <1>2, <2>1
  <2>5. /\ SubSeq(z, 1, l) \in Seq(Bytes) /\ Len(SubSeq(z, 1, l)) = l
        /\ \A i \in 1 .. l : SubSeq(z, 1, l)[i] = z[i]
    <3>1. \A i \in 1 .. l : z[i] \in Bytes
      BY <1>1, <2>4, ElementOfSeq
    <3>2. /\ SubSeq(z, 1, l) \in Seq(Bytes)
          /\ Len(SubSeq(z, 1, l)) = IF 1 <= l THEN l - 1 + 1 ELSE 0
          /\ \A i \in 1 .. l - 1 + 1 : SubSeq(z, 1, l)[i] = z[1 + i - 1]
      <4> HIDE DEF z, l
      <4> QED BY <2>4, <3>1, SubSeqProperties
    <3> HIDE DEF z, l
    <3> QED BY <2>4, <3>2
  <2>6. DOMAIN SubSeq(z, 1, l) = 1 .. l
    BY <2>5, LenProperties
  <2> QED BY <2>3, <2>4, <2>5, <2>6 DEF AtMostALine, NoNewline
<1> QED BY <1>3, EmptySeq

\* A write of no bytes is none, and one begun has all of them left.
LEMMA UnsentTyped ==
  ASSUME IndInv, NEW s \in Sides
  PROVE  /\ Unsent(s) \in Seq(Bytes)
         /\ Len(Unsent(s)) = nleft[s]
         /\ nleft[s] = 0 <=> Unsent(s) = <<>>
<1>1. /\ out[s] \in Seq(Bytes) /\ Len(out[s]) \in Nat /\ nleft[s] \in Nat
      /\ nleft[s] <= Len(out[s])
  BY Typed DEF IndInv
<1>2. Len(out[s]) - nleft[s] \in 0 .. Len(out[s])
  BY <1>1
<1>3. Unsent(s) \in Seq(Bytes) /\ Len(Unsent(s)) = Len(out[s]) - (Len(out[s]) - nleft[s])
  BY <1>1, <1>2, Halves DEF Unsent
<1> QED BY <1>1, <1>3, EmptySeq

\* The typing of what is under way, and when there is nothing.
LEMMA TowardTyped ==
  ASSUME IndInv, NEW s \in Sides
  PROVE  /\ Got(s) \in Seq(Bytes) /\ rio_buf[s] \in Seq(Bytes)
         /\ wire[s] \in Seq(Bytes) /\ Unsent(Peer(s)) \in Seq(Bytes)
         /\ wire[s] \o Unsent(Peer(s)) \in Seq(Bytes)
         /\ rio_buf[s] \o (wire[s] \o Unsent(Peer(s))) \in Seq(Bytes)
         /\ Toward(s) \in Seq(Bytes)
         /\ Toward(s) = <<>> <=>
              /\ Got(s) = <<>> /\ rio_buf[s] = <<>> /\ wire[s] = <<>>
              /\ nleft[Peer(s)] = 0
<1>1. /\ Got(s) \in Seq(Bytes) /\ rio_buf[s] \in Seq(Bytes)
      /\ wire[s] \in Seq(Bytes) /\ Peer(s) \in Sides
  BY Typed, EmptyTyped DEF IndInv, Got
<1>2. Unsent(Peer(s)) \in Seq(Bytes) /\ (nleft[Peer(s)] = 0 <=> Unsent(Peer(s)) = <<>>)
  BY <1>1, UnsentTyped
<1>3. wire[s] \o Unsent(Peer(s)) \in Seq(Bytes)
  BY <1>1, <1>2, ConcatProperties
<1>4. rio_buf[s] \o (wire[s] \o Unsent(Peer(s))) \in Seq(Bytes)
  BY <1>1, <1>3, ConcatProperties
<1>5. Toward(s) \in Seq(Bytes)
  BY <1>1, <1>4, ConcatProperties DEF Toward
<1>6. Toward(s) = <<>> <=>
        Got(s) = <<>> /\ rio_buf[s] \o (wire[s] \o Unsent(Peer(s))) = <<>>
  BY <1>1, <1>4, EmptyParts DEF Toward
<1>7. rio_buf[s] \o (wire[s] \o Unsent(Peer(s))) = <<>> <=>
        rio_buf[s] = <<>> /\ wire[s] \o Unsent(Peer(s)) = <<>>
  BY <1>1, <1>3, EmptyParts
<1>8. wire[s] \o Unsent(Peer(s)) = <<>> <=> wire[s] = <<>> /\ Unsent(Peer(s)) = <<>>
  BY <1>1, <1>2, EmptyParts
<1> QED BY <1>1, <1>2, <1>3, <1>4, <1>5, <1>6, <1>7, <1>8
-----------------------------------------------------------------------------
\* What a step is to the two sides taking turns.  Bytes move, and none is done:
Flows ==
  /\ \A s \in Sides : /\ Toward(s)' = Toward(s)
                      /\ pc'[s] = "thinking" <=> pc[s] = "thinking"
  /\ UNCHANGED <<kind, out, uneven>>

\* a read returns what it has got;
Delivers(s) ==
  /\ pc[s] = "reading" /\ pc' = [pc EXCEPT ![s] = "thinking"]
  /\ usrbuf'[s] \in Seq(Bytes) /\ usrbuf'[s] # <<>> /\ ReadDone(s, usrbuf'[s])
  /\ Toward(s) = usrbuf'[s] \o Toward(s)'
  /\ Toward(Peer(s))' = Toward(Peer(s))
  /\ UNCHANGED <<kind, out, uneven>>

\* or a write begins.
Begins(s, b) ==
  /\ pc[s] = "thinking" /\ pc' = [pc EXCEPT ![s] = "writing"]
  /\ out' = [out EXCEPT ![s] = b]
  /\ Toward(Peer(s))' = Toward(Peer(s)) \o b
  /\ Toward(s)' = Toward(s)
  /\ UNCHANGED kind

\* A write moves bytes from what is unsent to the socket.
LEMMA WriteFlows ==
  ASSUME IndInv, IndInv', NEW s \in Sides, NEW n \in 1 .. PipeSize, Write(s, n)
  PROVE  Flows
<1> DEFINE p == Peer(s)
           done == Len(out[s]) - nleft[s]
           c == SubSeq(out[s], done + 1, done + n)
           d == SubSeq(out[s], done + n + 1, Len(out[s]))
<1>1. /\ p \in Sides /\ p # s /\ Peer(p) = s /\ Sides = {s, p}
      /\ out[s] \in Seq(Bytes) /\ Len(out[s]) \in Nat /\ nleft[s] \in Nat
      /\ nleft[s] <= Len(out[s]) /\ n \in Nat /\ n <= nleft[s]
  <2>1. p \in Sides /\ p # s /\ Peer(p) = s /\ Sides = {s, p}
    BY DEF Sides, Peer
  <2>2. /\ out[s] \in Seq(Bytes) /\ Len(out[s]) \in Nat /\ nleft[s] \in Nat
        /\ nleft[s] <= Len(out[s])
    BY Typed DEF IndInv
  <2>3. n \in Nat /\ n <= nleft[s]
    BY <2>2, ConversationAssumption DEF Write
  <2> QED BY <2>1, <2>2, <2>3
<1>2. /\ wire' = [wire EXCEPT ![p] = wire[p] \o c]
      /\ nleft' = [nleft EXCEPT ![s] = nleft[s] - n]
      /\ UNCHANGED <<kind, pc, out, rio_buf, usrbuf, reset, requests, uneven>>
  BY DEF Write
<1>3. c \in Seq(Bytes) /\ d \in Seq(Bytes) /\ Unsent(s) = c \o d
  <2>1. done \in 0 .. Len(out[s]) /\ done + n \in done .. Len(out[s])
        /\ done + 1 \in 1 .. Len(out[s]) + 1 /\ done + n \in done + 1 - 1 .. Len(out[s])
        /\ done + n \in 0 .. Len(out[s]) /\ Len(out[s]) \in done + n .. Len(out[s])
    BY <1>1
  <2>2. d \in Seq(Bytes)
    <3> HIDE DEF done
    <3> QED BY <1>1, <2>1, Halves
  <2>3. c \in Seq(Bytes)
    <3>1. \A i \in done + 1 .. done + n : out[s][i] \in Bytes
      BY <1>1, <2>1, ElementOfSeq
    <3>2. done + 1 \in Int /\ done + n \in Int
      BY <1>1
    <3> HIDE DEF done
    <3> QED BY <3>1, <3>2, SubSeqProperties
  <2>4. c \o d = SubSeq(out[s], done + 1, Len(out[s]))
    <3> HIDE DEF done
    <3> QED BY <1>1, <2>1, ConcatAdjacentSubSeq
  <2> QED BY <2>2, <2>3, <2>4 DEF Unsent
<1>4. Unsent(s)' = d /\ Unsent(p)' = Unsent(p)
  <2>1. nleft'[s] = nleft[s] - n /\ nleft'[p] = nleft[p] /\ out' = out
    BY <1>1, <1>2 DEF IndInv, TypeOK
  <2>2. Len(out[s]) - (nleft[s] - n) = done + n
    BY <1>1
  <2> QED BY <2>1, <2>2 DEF Unsent
<1>5. wire'[p] = wire[p] \o c /\ wire'[s] = wire[s]
  BY <1>1, <1>2 DEF IndInv, TypeOK
<1>6. /\ Got(s)' = Got(s) /\ Got(p)' = Got(p)
      /\ Peer(s)' = p /\ Peer(p)' = s
  BY <1>1, <1>2 DEF Got
<1> HIDE DEF c, d, p, done
<1>7. Toward(s)' = Toward(s)
  <2>1. Toward(s) = Got(s) \o (rio_buf[s] \o (wire[s] \o Unsent(p)))
    BY DEF Toward, p
  <2>2. Toward(s)' = Got(s)' \o (rio_buf'[s] \o (wire'[s] \o Unsent(p)'))
    BY <1>6 DEF Toward, p
  <2> QED BY <1>2, <1>4, <1>5, <1>6, <2>1, <2>2
<1>8. Toward(p)' = Toward(p)
  <2>1. Toward(p) = Got(p) \o (rio_buf[p] \o (wire[p] \o Unsent(s)))
    BY <1>1 DEF Toward
  <2>2. Toward(p)' = Got(p)' \o (rio_buf'[p] \o (wire'[p] \o Unsent(s)'))
    BY <1>1, <1>6 DEF Toward
  <2>3. wire[p] \o (c \o d) = (wire[p] \o c) \o d
    <3>1. wire[p] \in Seq(Bytes)
      BY <1>1, Typed DEF IndInv
    <3>2. c \in Seq(Bytes) /\ d \in Seq(Bytes)
      BY <1>3
    <3> QED BY <3>1, <3>2, Regrouped, Zenon
  <2> QED BY <1>2, <1>3, <1>4, <1>5, <1>6, <2>1, <2>2, <2>3
<1> QED BY <1>1, <1>2, <1>7, <1>8 DEF Flows

\* Refilling the Rio buffer moves bytes from the socket.
LEMMA RefillFlows ==
  ASSUME IndInv, IndInv', NEW s \in Sides, RioRefill(s)
  PROVE  Flows
<1> DEFINE p == Peer(s)
           n == Less(Len(wire[s]), BufSize)
           x == SubSeq(wire[s], 1, n)
           y == SubSeq(wire[s], n + 1, Len(wire[s]))
<1>1. /\ p \in Sides /\ p # s /\ Sides = {s, p} /\ Peer(p) = s
      /\ wire[s] \in Seq(Bytes) /\ Len(wire[s]) \in Nat
  BY Typed DEF IndInv, Sides, Peer
<1>2. /\ rio_buf[s] = <<>> /\ pc[s] = "reading"
      /\ rio_buf'[s] = x /\ wire'[s] = y
      /\ rio_buf'[p] = rio_buf[p] /\ wire'[p] = wire[p]
      /\ UNCHANGED <<kind, pc, out, nleft, usrbuf, uneven>>
  BY <1>1 DEF RioRefill, IndInv, TypeOK
<1>3. n \in 0 .. Len(wire[s])
  BY <1>1, ConversationAssumption DEF Less
<1>4. x \in Seq(Bytes) /\ y \in Seq(Bytes) /\ x \o y = wire[s]
  <2> HIDE DEF n
  <2> QED BY <1>1, <1>3, Halves
<1>5. /\ Unsent(s)' = Unsent(s) /\ Unsent(p)' = Unsent(p)
      /\ Got(s)' = Got(s) /\ Got(p)' = Got(p)
  BY <1>2 DEF Unsent, Got
<1> HIDE DEF n, x, y, p
<1>6. Toward(p)' = Toward(p)
  <2>1. Toward(p) = Got(p) \o (rio_buf[p] \o (wire[p] \o Unsent(s)))
    BY <1>1 DEF Toward
  <2>2. Toward(p)' = Got(p)' \o (rio_buf'[p] \o (wire'[p] \o Unsent(s)'))
    BY <1>1 DEF Toward, p
  <2> QED BY <1>2, <1>5, <2>1, <2>2
<1>7. Toward(s)' = Toward(s)
  <2>1. Toward(s) = Got(s) \o (rio_buf[s] \o (wire[s] \o Unsent(p)))
    BY DEF Toward, p
  <2>2. Toward(s)' = Got(s)' \o (rio_buf'[s] \o (wire'[s] \o Unsent(p)'))
    BY DEF Toward, p
  <2>3. x \o (y \o Unsent(p)) = (x \o y) \o Unsent(p)
        /\ <<>> \o (wire[s] \o Unsent(p)) = wire[s] \o Unsent(p)
    <3>1. Unsent(p) \in Seq(Bytes) /\ wire[s] \o Unsent(p) \in Seq(Bytes)
      BY TowardTyped DEF p
    <3>2. x \o (y \o Unsent(p)) = (x \o y) \o Unsent(p)
      BY <1>4, <3>1, Regrouped, Zenon
    <3>3. <<>> \o (wire[s] \o Unsent(p)) = wire[s] \o Unsent(p)
      BY <3>1, ConcatEmptySeq
    <3> QED BY <3>2, <3>3
  <2> QED BY <1>2, <1>4, <1>5, <2>1, <2>2, <2>3
<1> QED BY <1>1, <1>2, <1>6, <1>7 DEF Flows

\* A byte that is delivered stays in its place, and the byte that ends the read
\* takes all delivered ones with it.
LEMMA CopyDelivers ==
  ASSUME IndInv, IndInv', NEW s \in Sides, RioCopy(s)
  PROVE  Flows \/ Delivers(s)
<1> DEFINE p == Peer(s)
           u == usrbuf[s]
           b == rio_buf[s]
           a == Append(u, Head(b))
           r == wire[s] \o Unsent(p)
<1>1. /\ p \in Sides /\ p # s /\ Sides = {s, p} /\ Peer(p) = s
      /\ u \in Seq(Bytes) /\ b \in Seq(Bytes) /\ b # <<>>
  BY Typed DEF IndInv, Sides, Peer, RioCopy
<1>2. /\ pc[s] = "reading" /\ rio_buf'[s] = Tail(b) /\ usrbuf'[s] = a
      /\ rio_buf'[p] = rio_buf[p] /\ usrbuf'[p] = usrbuf[p]
      /\ pc' = IF ReadDone(s, a) THEN [pc EXCEPT ![s] = "thinking"] ELSE pc
      /\ UNCHANGED <<kind, out, nleft, wire, reset, requests, uneven>>
  BY <1>1 DEF RioCopy, IndInv, TypeOK
<1>3. /\ a \in Seq(Bytes) /\ Tail(b) \in Seq(Bytes) /\ Len(a) = Len(u) + 1
      /\ a \o Tail(b) = u \o b
  BY <1>1, Moved
<1>4. a # <<>>
  BY <1>1, <1>3, EmptySeq, LenProperties
<1>5. r \in Seq(Bytes)
  BY TowardTyped
<1>6. Toward(s) = a \o (Tail(b) \o r)
  <2>1. Toward(s) = u \o (b \o r)
    BY <1>2 DEF Toward, Got
  <2> HIDE DEF u, b, a, r
  <2>2. u \in Seq(Bytes) /\ b \in Seq(Bytes) /\ a \in Seq(Bytes)
        /\ Tail(b) \in Seq(Bytes) /\ r \in Seq(Bytes)
    BY <1>1, <1>3, <1>5
  <2>3. u \o (b \o r) = (u \o b) \o r
    BY <2>2, Regrouped, Zenon
  <2>4. a \o (Tail(b) \o r) = (a \o Tail(b)) \o r
    BY <2>2, Regrouped, Zenon
  <2> QED BY <1>3, <2>1, <2>3, <2>4
<1>7. r' = r /\ Unsent(s)' = Unsent(s) /\ Got(p)' = Got(p) /\ pc'[p] = pc[p]
  BY <1>1, <1>2 DEF Unsent, Got, IndInv, TypeOK
<1>8. Toward(p)' = Toward(p)
  BY <1>1, <1>2, <1>7 DEF Toward
<1>9. Toward(s)' = Got(s)' \o (Tail(b) \o r)
  BY <1>2, <1>7 DEF Toward
<1>10. CASE ReadDone(s, a)
  <2>1. pc'[s] = "thinking"
    BY <1>2, <1>10 DEF IndInv, TypeOK
  <2>2. Got(s)' = <<>>
    BY <2>1 DEF Got
  <2>3. Tail(b) \o r \in Seq(Bytes)
    <3> HIDE DEF b, r
    <3> QED BY <1>3, <1>5, ConcatProperties
  <2>4. Toward(s)' = Tail(b) \o r
    BY <1>9, <2>2, <2>3, ConcatEmptySeq
  <2> QED BY <1>2, <1>3, <1>4, <1>6, <1>8, <1>10, <2>4 DEF Delivers
<1>11. CASE ~ReadDone(s, a)
  <2>1. Got(s)' = a /\ pc' = pc
    BY <1>2, <1>11 DEF Got
  <2> QED BY <1>1, <1>2, <1>6, <1>8, <1>9, <2>1 DEF Flows
<1> QED BY <1>10, <1>11

\* A read that begins has got nothing yet.
LEMMA WrittenFlows ==
  ASSUME IndInv, IndInv', NEW s \in Sides, Written(s), kind # "other", BothOpen'
  PROVE  Flows
<1> DEFINE p == Peer(s)
<1>1. p \in Sides /\ p # s /\ Sides = {s, p} /\ Peer(p) = s
  BY DEF Sides, Peer
<1>2. ~(s = "server" /\ usrbuf[s] \in ExitLines)
  BY DEF Written, EndAs, BothOpen, Ended, IndInv, TypeOK, Sides, S
<1>3. /\ pc[s] = "writing" /\ pc'[s] = "reading" /\ pc'[p] = pc[p]
      /\ usrbuf'[s] = <<>> /\ usrbuf'[p] = usrbuf[p]
      /\ UNCHANGED <<kind, out, nleft, wire, rio_buf, uneven>>
  <2>1. /\ pc[s] = "writing"
        /\ pc' = [pc EXCEPT ![s] =
                    IF s = "client" /\ kind = "other" THEN "thinking" ELSE "reading"]
        /\ usrbuf' = [usrbuf EXCEPT ![s] = <<>>]
        /\ UNCHANGED <<kind, out, nleft, wire, rio_buf, uneven>>
    BY <1>2 DEF Written
  <2> QED BY <1>1, <2>1 DEF IndInv, TypeOK
<1>4. /\ Unsent(s)' = Unsent(s) /\ Unsent(p)' = Unsent(p)
      /\ Got(s)' = Got(s) /\ Got(p)' = Got(p)
  BY <1>3 DEF Unsent, Got
<1>5. Toward(s)' = Toward(s) /\ Toward(p)' = Toward(p)
  BY <1>1, <1>3, <1>4 DEF Toward
<1> QED BY <1>1, <1>3, <1>5 DEF Flows

\* What a write begins with is all unsent.
LEMMA WriteBegins ==
  ASSUME IndInv, IndInv', AllSent, NEW s \in Sides, NEW b \in Seq(Bytes),
         pc[s] = "thinking", BeginWrite(s, b),
         UNCHANGED <<kind, wire, rio_buf, usrbuf>>
  PROVE  Begins(s, b)
<1> DEFINE p == Peer(s)
           g == Got(p)
           r == rio_buf[p]
           w == wire[p]
<1>1. p \in Sides /\ p # s /\ Sides = {s, p} /\ Peer(p) = s
  BY DEF Sides, Peer
<1>2. /\ out' = [out EXCEPT ![s] = b] /\ pc' = [pc EXCEPT ![s] = "writing"]
      /\ out'[s] = b /\ out'[p] = out[p]
      /\ nleft'[s] = Len(b) /\ nleft'[p] = nleft[p]
      /\ pc'[s] = "writing" /\ pc'[p] = pc[p]
  BY <1>1 DEF BeginWrite, IndInv, TypeOK
<1>3. Unsent(s) = <<>>
  BY UnsentTyped DEF AllSent
<1>4. Unsent(s)' = b /\ Unsent(p)' = Unsent(p)
  <2>1. Len(b) \in Nat /\ Len(b) - Len(b) + 1 = 1
    BY LenProperties
  <2>2. SubSeq(b, 1, Len(b)) = b
    BY SubSeqFull
  <2> QED BY <1>2, <2>1, <2>2 DEF Unsent
<1>5. Got(s)' = Got(s) /\ Got(p)' = Got(p)
  BY <1>2 DEF Got
<1>6. Toward(s)' = Toward(s)
  BY <1>2, <1>4, <1>5 DEF Toward
<1>7. g \in Seq(Bytes) /\ r \in Seq(Bytes) /\ w \in Seq(Bytes)
  BY <1>1, TowardTyped
<1>8. Toward(p) = g \o (r \o (w \o <<>>)) /\ Toward(p)' = g \o (r \o (w \o b))
  BY <1>1, <1>2, <1>3, <1>4, <1>5 DEF Toward
<1> HIDE DEF g, r, w
<1>9. Toward(p) = g \o (r \o w)
  BY <1>7, <1>8, ConcatEmptySeq
<1>10. r \o w \in Seq(Bytes)
  BY <1>7, ConcatProperties
<1>11. r \o (w \o b) = (r \o w) \o b
  BY <1>7, Regrouped, Zenon
<1>12. g \o ((r \o w) \o b) = (g \o (r \o w)) \o b
  <2> DEFINE v == r \o w
  <2>1. g \in Seq(Bytes) /\ v \in Seq(Bytes) /\ b \in Seq(Bytes)
    BY <1>7, <1>10
  <2> HIDE DEF v
  <2>2. g \o (v \o b) = (g \o v) \o b
    BY <2>1, Regrouped, Zenon
  <2> QED BY <2>2 DEF v
<1>13. Toward(p)' = Toward(p) \o b
  BY <1>8, <1>9, <1>11, <1>12
<1> QED BY <1>2, <1>6, <1>13 DEF Begins

\* Every step of a connection with both sides open and a client of this
\* repository is one of these.
LEMMA StepKinds ==
  ASSUME IndInv, IndInv', AllSent, [Next]_vars, kind # "other", BothOpen'
  PROVE  /\ BothOpen
         /\ \/ Flows
            \/ \E s \in Sides : Delivers(s)
            \/ \E r \in Replies :
                 /\ Begins(S, r)
                 /\ uneven' = (uneven \/ ~OneLine(r) \/ Len(r) >= MaxLine)
            \/ \E q \in RequestsOf(kind) : Begins(C, q) /\ UNCHANGED uneven
<1> DEFINE Goal ==
      /\ BothOpen
      /\ \/ Flows
         \/ \E s \in Sides : Delivers(s)
         \/ \E r \in Replies :
              /\ Begins(S, r)
              /\ uneven' = (uneven \/ ~OneLine(r) \/ Len(r) >= MaxLine)
         \/ \E q \in RequestsOf(kind) : Begins(C, q) /\ UNCHANGED uneven
<1>0. S \in Sides /\ C \in Sides /\ Sides = {S, C} /\ Peer(S) = C /\ Peer(C) = S
      /\ S # C
  BY DEF Sides, Peer, S, C
<1>1. ASSUME NEW s \in Sides, NEW label \in {"closed", "exited"}, EndAs(s, label)
      PROVE  FALSE
  BY <1>0, <1>1 DEF EndAs, BothOpen, Ended, IndInv, TypeOK
<1>2. ASSUME NEW s \in Sides, RioStep(s)
      PROVE  Goal
  <2>1. ASSUME NEW n \in 1 .. PipeSize, Write(s, n) PROVE Goal
    <3>1. BothOpen
      BY <2>1 DEF Write, BothOpen, Ended
    <3>2. Flows
      BY <2>1, WriteFlows
    <3> QED BY <3>1, <3>2
  <2>2. ~WriteInVain(s) /\ ~RioEOF(s)
    <3>1. ASSUME Ended(Peer(s)), UNCHANGED pc \/ pc' = [pc EXCEPT ![s] = "thinking"]
          PROVE  FALSE
      <4>1. Peer(s) \in Sides /\ Peer(s) # s
        BY DEF Peer, Sides
      <4>2. Sides = DOMAIN pc
        BY DEF IndInv, TypeOK
      <4>3. pc'[Peer(s)] = pc[Peer(s)]
        BY <3>1, <4>1, <4>2
      <4> QED BY <1>0, <3>1, <4>1, <4>3 DEF BothOpen, Ended
    <3> QED BY <1>1, <3>1 DEF WriteInVain, RioEOF
  <2>3. ~RioError(s)
    BY <1>1 DEF RioError
  <2>4. CASE Written(s)
    <3>1. BothOpen
      <4>1. pc[s] = "writing" /\ pc'[Peer(s)] = pc[Peer(s)] /\ Peer(s) \in Sides
        BY <2>4 DEF Written, EndAs, IndInv, TypeOK, Sides, Peer
      <4> QED BY <1>0, <4>1 DEF BothOpen, Ended
    <3> QED BY <2>4, <3>1, WrittenFlows
  <2>5. CASE RioRefill(s)
    <3>1. BothOpen
      BY <2>5 DEF RioRefill, BothOpen, Ended
    <3> QED BY <2>5, <3>1, RefillFlows
  <2>6. CASE RioCopy(s)
    <3>1. BothOpen
      <4>1. pc[s] = "reading" /\ pc'[Peer(s)] = pc[Peer(s)]
        BY <2>6 DEF RioCopy, IndInv, TypeOK, Sides, Peer
      <4> QED BY <1>0, <4>1 DEF BothOpen, Ended
    <3> QED BY <2>6, <3>1, CopyDelivers
  <2> QED BY <1>2, <2>1, <2>2, <2>3, <2>4, <2>5, <2>6 DEF RioStep
<1>3. ASSUME NEW r \in Replies, Reply(r)
      PROVE  Goal
  <2>1. r \in Seq(Bytes)
    BY ConversationAssumption
  <2>2. BothOpen
    BY <1>0, <1>3 DEF Reply, BeginWrite, BothOpen, Ended, IndInv, TypeOK, S
  <2>3. Begins(S, r)
    BY <1>0, <1>3, <2>1, WriteBegins DEF Reply, S
  <2> QED BY <1>3, <2>2, <2>3 DEF Reply
<1>4. ASSUME NEW q \in Requests, Request(q)
      PROVE  Goal
  <2>1. q \in Seq(Bytes) /\ q \in RequestsOf(kind) /\ UNCHANGED uneven
    BY <1>4, ConversationAssumption DEF Request
  <2>2. BothOpen
    BY <1>0, <1>4 DEF Request, BeginWrite, BothOpen, Ended, IndInv, TypeOK, C
  <2>3. Begins(C, q)
    BY <1>0, <1>4, <2>1, WriteBegins DEF Request, C
  <2> QED BY <2>1, <2>2, <2>3
<1>5. ~Drain /\ ~ClientEnds
  BY <1>0, <1>1 DEF Drain, ClientEnds, C
<1>6. ~Over
  <2>1. SUFFICES ASSUME Over PROVE FALSE
    OBVIOUS
  <2>2. UNCHANGED pc /\ \A s \in Sides : Ended(s)
    BY <2>1 DEF Over, vars
  <2> QED BY <1>0, <2>2 DEF BothOpen, Ended
<1>7. CASE UNCHANGED vars
  <2>1. UNCHANGED <<kind, pc, out, nleft, wire, rio_buf, usrbuf, uneven>>
    BY <1>7 DEF vars
  <2>2. BothOpen /\ Flows
    BY <2>1 DEF BothOpen, Ended, Flows, Toward, Got, Unsent
  <2> QED BY <2>2
<1> QED BY <1>2, <1>3, <1>4, <1>5, <1>6, <1>7 DEF Next, Answer
-----------------------------------------------------------------------------
\* A side that does not write has nothing left to write.
LEMMA AllSentStep == IndInv /\ AllSent /\ [Next]_vars => AllSent'
<1> SUFFICES ASSUME IndInv, AllSent, [Next]_vars PROVE AllSent'
  OBVIOUS
<1>0. S \in Sides /\ C \in Sides /\ "server" \in Sides /\ "client" \in Sides
      /\ pc \in [Sides -> {"thinking", "writing", "reading", "closed", "exited"}]
      /\ nleft \in [Sides -> Nat]
  BY DEF Sides, S, C, IndInv, TypeOK
<1>1. ASSUME NEW s \in Sides, NEW label \in {"closed", "exited"}, EndAs(s, label)
      PROVE  AllSent'
  BY <1>0, <1>1 DEF EndAs, AllSent
<1>2. ASSUME NEW s \in Sides, RioStep(s) PROVE AllSent'
  <2>1. ASSUME NEW n \in 1 .. PipeSize, Write(s, n) PROVE AllSent'
    BY <1>0, <2>1 DEF Write, AllSent
  <2>2. CASE WriteInVain(s)
    BY <1>0, <2>2 DEF WriteInVain, AllSent
  <2>3. CASE Written(s)
    BY <1>0, <1>1, <2>3 DEF Written, AllSent
  <2>4. CASE RioRefill(s)
    BY <2>4 DEF RioRefill, AllSent
  <2>5. CASE RioCopy(s)
    BY <1>0, <2>5 DEF RioCopy, AllSent
  <2>6. CASE RioEOF(s)
    BY <1>0, <1>1, <2>6 DEF RioEOF, AllSent
  <2>7. CASE RioError(s)
    BY <1>1, <2>7 DEF RioError
  <2> QED BY <1>2, <2>1, <2>2, <2>3, <2>4, <2>5, <2>6, <2>7 DEF RioStep
<1>3. ASSUME NEW r \in Replies, Reply(r) PROVE AllSent'
  BY <1>0, <1>3 DEF Reply, BeginWrite, AllSent
<1>4. ASSUME NEW q \in Requests, Request(q) PROVE AllSent'
  BY <1>0, <1>4 DEF Request, BeginWrite, AllSent
<1>5. CASE Drain
  BY <1>5 DEF Drain, AllSent
<1>6. CASE ClientEnds
  BY <1>0, <1>1, <1>6 DEF ClientEnds
<1>7. CASE UNCHANGED vars
  BY <1>7 DEF vars, AllSent
<1> QED BY <1>2, <1>3, <1>4, <1>5, <1>6, <1>7 DEF Next, Answer, Over

\* rio_readlineb gives a finished line to stockclient at once.
LEMMA ClientOpenStep == IndInv /\ ClientOpen /\ [Next]_vars => ClientOpen'
<1> SUFFICES ASSUME IndInv, ClientOpen, [Next]_vars, kind' = "stockclient",
                    pc'[C] = "reading"
             PROVE  NoNewline(usrbuf'[C])
  BY DEF ClientOpen, NoNewline
<1>0. /\ S \in Sides /\ C \in Sides /\ Sides = {S, C} /\ S # C /\ C = "client"
      /\ S = "server"
      /\ pc \in [Sides -> {"thinking", "writing", "reading", "closed", "exited"}]
      /\ usrbuf \in [Sides -> Seq(Bytes)]
  BY DEF Sides, S, C, IndInv, TypeOK
<1>1. ASSUME kind' = kind, usrbuf'[C] = usrbuf[C], pc'[C] = pc[C] PROVE NoNewline(usrbuf'[C])
  BY <1>1 DEF ClientOpen
<1>2. ASSUME NEW s \in Sides, NEW label \in {"closed", "exited"}, EndAs(s, label)
      PROVE  NoNewline(usrbuf'[C])
  BY <1>0, <1>1, <1>2 DEF EndAs
<1>3. ASSUME NEW s \in Sides, RioStep(s) PROVE NoNewline(usrbuf'[C])
  <2>1. CASE (\E n \in 1 .. PipeSize : Write(s, n)) \/ WriteInVain(s) \/ RioRefill(s)
    BY <1>1, <2>1 DEF Write, WriteInVain, RioRefill
  <2>2. CASE Written(s)
    <3>1. CASE s = C
      <4>1. usrbuf'[C] = <<>>
        BY <1>0, <2>2, <3>1 DEF Written
      <4> QED BY <4>1 DEF NoNewline
    <3> QED BY <1>0, <1>1, <1>2, <2>2, <3>1 DEF Written
  <2>3. CASE RioCopy(s)
    <3>1. CASE s = S
      BY <1>0, <1>1, <2>3, <3>1 DEF RioCopy
    <3>2. CASE s = C
      <4> DEFINE u == usrbuf[C]
                 b == Append(u, Head(rio_buf[C]))
      <4>1. /\ pc[C] = "reading" /\ usrbuf'[C] = b /\ kind = "stockclient"
            /\ pc' = IF ReadDone(C, b) THEN [pc EXCEPT ![C] = "thinking"] ELSE pc
        BY <1>0, <2>3, <3>2 DEF RioCopy
      <4>2. ~LineDone(b)
        BY <1>0, <4>1 DEF ReadDone
      <4>3. u \in Seq(Bytes) /\ Head(rio_buf[C]) \in Bytes /\ Len(u) \in Nat
        BY <1>0, <2>3, <3>2, Typed, HeadTailProperties DEF RioCopy, IndInv
      <4>4. /\ b \in Seq(Bytes) /\ Len(b) = Len(u) + 1
            /\ \A i \in 1 .. Len(u) : b[i] = u[i]
            /\ DOMAIN b = 1 .. Len(b) /\ DOMAIN u = 1 .. Len(u) /\ b # <<>>
        <5>1. b \in Seq(Bytes) /\ Len(b) = Len(u) + 1 /\ \A i \in 1 .. Len(u) : b[i] = u[i]
          BY <4>3, AppendProperties
        <5> HIDE DEF b, u
        <5>2. DOMAIN b = 1 .. Len(b) /\ DOMAIN u = 1 .. Len(u) /\ b # <<>>
          BY <4>3, <5>1, LenProperties, EmptySeq
        <5> QED BY <5>1, <5>2
      <4>5. NoNewline(u)
        BY <4>1 DEF ClientOpen
      <4> HIDE DEF b, u
      <4>6. b[Len(b)] # NL
        BY <4>2, <4>4 DEF LineDone
      <4>7. ASSUME NEW k \in DOMAIN b PROVE b[k] # NL
        <5>1. k = Len(b) \/ k \in 1 .. Len(u)
          BY <4>3, <4>4
        <5> QED BY <4>4, <4>5, <4>6, <5>1 DEF NoNewline
      <4> QED BY <4>1, <4>7 DEF NoNewline
    <3> QED BY <1>0, <3>1, <3>2
  <2>4. CASE RioEOF(s)
    <3>1. EndAs(s, "closed") \/ (pc' = [pc EXCEPT ![s] = "thinking"] /\ UNCHANGED <<kind, usrbuf>>)
      BY <2>4 DEF RioEOF
    <3> QED BY <1>0, <1>1, <1>2, <3>1
  <2>5. CASE RioError(s)
    BY <1>2, <2>5 DEF RioError
  <2> QED BY <1>3, <2>1, <2>2, <2>3, <2>4, <2>5 DEF RioStep
<1>4. ASSUME NEW r \in Replies, Reply(r) PROVE NoNewline(usrbuf'[C])
  BY <1>0, <1>1, <1>4 DEF Reply, BeginWrite
<1>5. ASSUME NEW q \in Requests, Request(q) PROVE NoNewline(usrbuf'[C])
  BY <1>0, <1>5 DEF Request, BeginWrite
<1>6. CASE Drain \/ UNCHANGED vars
  BY <1>1, <1>6 DEF Drain, vars
<1>7. CASE ClientEnds
  BY <1>0, <1>2, <1>7 DEF ClientEnds
<1> QED BY <1>3, <1>4, <1>5, <1>6, <1>7 DEF Next, Answer, Over

\* What is under way stays a sequence of bytes.
TowardsTyped == \A s \in Sides : Toward(s) \in Seq(Bytes)

LEMMA TowardsAreTyped == IndInv => TowardsTyped
  BY TowardTyped DEF TowardsTyped

\* Client and server go on taking turns: a request or an answer that is under
\* way is read to its end before its reader can do anything else.
LEMMA TurnsStep ==
  ASSUME IndInv, IndInv', AllSent, TurnsTaken, [Next]_vars
  PROVE  TurnsTaken'
<1> SUFFICES ASSUME kind' # "other", ~uneven', BothOpen' PROVE InTurn'
  BY DEF TurnsTaken
<1>0. /\ S \in Sides /\ C \in Sides /\ S # C /\ C = "client" /\ S = "server"
      /\ Peer(S) = C /\ Peer(C) = S /\ Sides = {S, C}
      /\ pc \in [Sides -> {"thinking", "writing", "reading", "closed", "exited"}]
      /\ out \in [Sides -> Seq(Bytes)]
      /\ kind \in {"stockclient", "multiclient", "other"}
  BY DEF Sides, S, C, Peer, IndInv, TypeOK
<1>1. Toward(S) \in Seq(Bytes) /\ Toward(C) \in Seq(Bytes)
  BY <1>0, TowardsAreTyped DEF TowardsTyped
<1>2. Toward(S)' \in Seq(Bytes) /\ Toward(C)' \in Seq(Bytes)
  <2>1. TowardsTyped'
    BY TowardsAreTyped, PTL
  <2> QED BY <1>0, <2>1 DEF TowardsTyped, Sides, S, C
<1>3. kind = kind'
  BY DEF Next, RioStep, Write, WriteInVain, Written, RioRefill, RioCopy, RioEOF,
     RioError, EndAs, Answer, Reply, Request, Drain, ClientEnds, Over, vars
<1> USE DEF InTurn, ClientHasTurn, RequestUnderWay, ServerHasTurn, AnswerUnderWay, Idle
<1>4. CASE Flows
  <2>1. /\ Toward(S)' = Toward(S) /\ Toward(C)' = Toward(C)
        /\ pc'[S] = "thinking" <=> pc[S] = "thinking"
        /\ pc'[C] = "thinking" <=> pc[C] = "thinking"
        /\ UNCHANGED <<kind, out, uneven>>
    BY <1>0, <1>4 DEF Flows
  <2>2. InTurn
    BY <1>3, <2>1, StepKinds DEF TurnsTaken
  <2>3. AtMostALine(out[C])' <=> AtMostALine(out[C])
    BY <2>1 DEF AtMostALine, NoNewline
  <2>4. OneLine(out[S])' <=> OneLine(out[S])
    BY <2>1 DEF OneLine, NoNewline
  <2> QED BY <2>1, <2>2, <2>3, <2>4
<1>5. ASSUME NEW s \in Sides, Delivers(s) PROVE InTurn'
  <2> DEFINE b == usrbuf'[s]
  <2>1. /\ pc[s] = "reading" /\ pc'[s] = "thinking" /\ pc'[Peer(s)] = pc[Peer(s)]
        /\ b \in Seq(Bytes) /\ b # <<>> /\ ReadDone(s, b)
        /\ Toward(s) = b \o Toward(s)' /\ Toward(Peer(s))' = Toward(Peer(s))
        /\ UNCHANGED <<kind, out, uneven>>
    BY <1>0, <1>5 DEF Delivers
  <2>2. InTurn /\ ~uneven
    BY <1>3, <2>1, StepKinds DEF TurnsTaken
  <2>3. Toward(s)' \in Seq(Bytes)
    BY <1>0, <1>2
  <2> HIDE DEF b
  <2>4. Toward(s) # <<>>
    BY <2>1, <2>3, EmptyParts
  <2>5. CASE s = S
    <3>1. RequestUnderWay
      BY <1>0, <2>1, <2>2, <2>4, <2>5
    <3>2. LineDone(b)
      BY <1>0, <2>1, <2>5 DEF ReadDone
    <3>3. AtMostALine(b \o Toward(S)')
      BY <2>1, <2>5, <3>1
    <3>4. Toward(S)' = <<>>
      BY <1>2, <2>1, <3>2, <3>3, LineIsAll DEF LineDone
    <3> QED BY <1>0, <2>1, <2>5, <3>1, <3>4
  <2>6. CASE s = C
    <3>1. AnswerUnderWay
      BY <1>0, <2>1, <2>2, <2>4, <2>6
    <3>2. AtMostALine(b \o Toward(C)')
      BY <2>1, <2>6, <3>1 DEF AtMostALine, OneLine
    <3>3. LineDone(b)
      <4>1. Len(b \o Toward(C)') = Len(b) + Len(Toward(C)')
            /\ Len(b) \in Nat /\ Len(Toward(C)') \in Nat
        BY <1>2, <2>1, ConcatProperties, LenProperties
      <4>2. Len(b) # MaxLine
        BY <3>2, <4>1, ConversationAssumption DEF AtMostALine
      <4> QED BY <2>1, <4>2 DEF ReadDone
    <3>4. Toward(C)' = <<>>
      BY <1>2, <2>1, <3>2, <3>3, LineIsAll DEF LineDone
    <3> QED BY <1>0, <2>1, <2>6, <3>1, <3>4
  <2> QED BY <1>0, <2>5, <2>6
<1>6. ASSUME NEW r \in Replies, Begins(S, r),
             uneven' = (uneven \/ ~OneLine(r) \/ Len(r) >= MaxLine)
      PROVE  InTurn'
  <2>1. /\ pc[S] = "thinking" /\ pc'[S] = "writing" /\ pc'[C] = pc[C]
        /\ out'[S] = r /\ Toward(C)' = Toward(C) \o r /\ Toward(S)' = Toward(S)
    BY <1>0, <1>6 DEF Begins
  <2>2. InTurn /\ OneLine(r) /\ ~(Len(r) >= MaxLine)
    BY <1>3, <1>6, StepKinds DEF TurnsTaken
  <2>3. ServerHasTurn /\ r \in Seq(Bytes) /\ Len(r) \in Nat
    BY <2>1, <2>2, ConversationAssumption, LenProperties
  <2>4. Toward(C)' = r /\ Len(r) < MaxLine
    BY <2>1, <2>2, <2>3, ConcatEmptySeq, ConversationAssumption
  <2>5. OneLine(out[S])'
    BY <2>1, <2>2 DEF OneLine, NoNewline
  <2> QED BY <2>1, <2>3, <2>4, <2>5
<1>7. ASSUME NEW q \in RequestsOf(kind), Begins(C, q), UNCHANGED uneven
      PROVE  InTurn'
  <2>1. /\ pc[C] = "thinking" /\ pc'[C] = "writing" /\ pc'[S] = pc[S]
        /\ out'[C] = q /\ Toward(S)' = Toward(S) \o q /\ Toward(C)' = Toward(C)
    BY <1>0, <1>7 DEF Begins
  <2>2. InTurn
    BY <1>3, <1>7, StepKinds DEF TurnsTaken
  <2>3. ClientHasTurn /\ q \in Seq(Bytes) /\ AtMostALine(q)
    <3>1. q \in Requests /\ Len(q) < MaxLine /\ NoNewline(SubSeq(q, 1, Len(q) - 1))
      <4>1. CASE kind = "stockclient"
        BY <1>7, <4>1 DEF RequestsOf
      <4>2. CASE kind = "multiclient"
        BY <1>7, <4>2 DEF RequestsOf, OneLine
      <4> QED BY <1>0, <1>3, <4>1, <4>2
    <3> QED BY <2>1, <2>2, <3>1, ConversationAssumption DEF AtMostALine
  <2>4. Toward(S)' = q
    BY <2>1, <2>3, ConcatEmptySeq
  <2>5. AtMostALine(out[C])'
    BY <2>1, <2>3 DEF AtMostALine, NoNewline
  <2> QED BY <2>1, <2>3, <2>4, <2>5
<1> QED BY <1>3, <1>4, <1>5, <1>6, <1>7, StepKinds

\* What is under way from multiclient goes on ending with a newline.
LEMMA WholeLinesStep ==
  ASSUME IndInv, IndInv', AllSent, WholeLines, [Next]_vars
  PROVE  WholeLines'
<1> SUFFICES ASSUME kind' = "multiclient", BothOpen', Toward(S)' # <<>>
             PROVE  Toward(S)'[Len(Toward(S)')] = NL
  BY DEF WholeLines
<1>0. /\ S \in Sides /\ C \in Sides /\ S # C /\ C = "client" /\ S = "server"
      /\ Peer(S) = C /\ Peer(C) = S /\ Sides = {S, C}
  BY DEF Sides, S, C, Peer
<1>1. Toward(S) \in Seq(Bytes)
  BY <1>0, TowardsAreTyped DEF TowardsTyped
<1>2. Toward(S)' \in Seq(Bytes)
  <2>1. TowardsTyped'
    BY TowardsAreTyped, PTL
  <2> QED BY <1>0, <2>1 DEF TowardsTyped, Sides, S
<1>3. kind = kind'
  BY DEF Next, RioStep, Write, WriteInVain, Written, RioRefill, RioCopy, RioEOF,
     RioError, EndAs, Answer, Reply, Request, Drain, ClientEnds, Over, vars
<1>4. BothOpen /\ (Toward(S) = <<>> \/ Toward(S)[Len(Toward(S))] = NL)
  BY <1>3, StepKinds DEF WholeLines
<1>5. ASSUME Toward(S)' = Toward(S) PROVE Toward(S)'[Len(Toward(S)')] = NL
  BY <1>4, <1>5
<1>6. ASSUME NEW s \in Sides, Delivers(s) PROVE Toward(S)'[Len(Toward(S)')] = NL
  <2>1. CASE s = C
    BY <1>0, <1>5, <1>6, <2>1 DEF Delivers
  <2>2. CASE s = S
    <3> DEFINE b == usrbuf'[S]
               t == Toward(S)'
    <3>1. b \in Seq(Bytes) /\ Toward(S) = b \o t
      BY <1>6, <2>2 DEF Delivers
    <3> HIDE DEF b, t
    <3>2. t \in Seq(Bytes) /\ t # <<>>
      BY <1>2 DEF t
    <3>3. (b \o t)[Len(b \o t)] = t[Len(t)] /\ b \o t # <<>>
      BY <3>1, <3>2, LastOfParts
    <3>4. t[Len(t)] = NL
      BY <1>4, <3>1, <3>3
    <3> QED BY <3>4 DEF t
  <2> QED BY <1>0, <2>1, <2>2
<1>7. ASSUME NEW q \in RequestsOf(kind), Begins(C, q)
      PROVE  Toward(S)'[Len(Toward(S)')] = NL
  <2>1. q \in Requests /\ OneLine(q)
    <3>1. kind = "multiclient"
      BY <1>3
    <3> QED BY <1>7, <3>1 DEF RequestsOf
  <2>2. q \in Seq(Bytes) /\ q # <<>> /\ q[Len(q)] = NL
    BY <2>1, ConversationAssumption DEF OneLine
  <2>3. Toward(S)' = Toward(S) \o q
    BY <1>0, <1>7 DEF Begins
  <2> DEFINE t == Toward(S)
  <2>4. t \in Seq(Bytes)
    BY <1>1
  <2> HIDE DEF t
  <2>5. (t \o q)[Len(t \o q)] = q[Len(q)]
    BY <2>2, <2>4, LastOfParts
  <2> QED BY <2>2, <2>3, <2>5 DEF t
<1>8. CASE Flows \/ \E r \in Replies : Begins(S, r)
  BY <1>0, <1>5, <1>8 DEF Flows, Begins
<1>9. \/ Flows \/ \E s \in Sides : Delivers(s)
      \/ \E r \in Replies : Begins(S, r)
      \/ \E q \in RequestsOf(kind) : Begins(C, q)
  BY <1>3, StepKinds
<1> QED BY <1>6, <1>7, <1>8, <1>9

\* No step takes another client into a Rio read.
LEMMA DrainsOnlyStep == IndInv /\ DrainsOnly /\ [Next]_vars => DrainsOnly'
<1> SUFFICES ASSUME IndInv, DrainsOnly, [Next]_vars, kind' = "other"
             PROVE  pc'[C] # "reading"
  BY DEF DrainsOnly
<1>0. /\ C = "client" /\ C \in Sides /\ S \in Sides /\ S = "server" /\ S # C
      /\ Sides = {S, C} /\ "server" \in Sides /\ "client" \in Sides
      /\ pc \in [Sides -> {"thinking", "writing", "reading", "closed", "exited"}]
  BY DEF Sides, S, C, IndInv, TypeOK
<1>1. kind = "other"
  BY DEF Next, RioStep, Write, WriteInVain, Written, RioRefill, RioCopy, RioEOF,
     RioError, EndAs, Answer, Reply, Request, Drain, ClientEnds, Over, vars
<1>2. pc[C] # "reading"
  BY <1>1 DEF DrainsOnly
<1>3. ASSUME NEW s \in Sides, NEW label \in {"closed", "exited"}, EndAs(s, label)
      PROVE  pc'[C] # "reading"
  BY <1>0, <1>2, <1>3 DEF EndAs
<1>4. ASSUME NEW s \in Sides, RioStep(s) PROVE pc'[C] # "reading"
  <2>1. CASE (\E n \in 1 .. PipeSize : Write(s, n)) \/ WriteInVain(s) \/ RioRefill(s)
    BY <1>2, <2>1 DEF Write, WriteInVain, RioRefill
  <2>2. CASE Written(s)
    BY <1>0, <1>1, <1>2, <1>3, <2>2 DEF Written
  <2>3. CASE RioCopy(s)
    BY <1>0, <1>2, <2>3 DEF RioCopy
  <2>4. CASE RioEOF(s)
    BY <1>0, <1>2, <1>3, <2>4 DEF RioEOF
  <2>5. CASE RioError(s)
    BY <1>3, <2>5 DEF RioError
  <2> QED BY <1>4, <2>1, <2>2, <2>3, <2>4, <2>5 DEF RioStep
<1>5. ASSUME NEW r \in Replies, Reply(r) PROVE pc'[C] # "reading"
  BY <1>0, <1>2, <1>5 DEF Reply, BeginWrite
<1>6. ASSUME NEW q \in Requests, Request(q) PROVE pc'[C] # "reading"
  BY <1>0, <1>6 DEF Request, BeginWrite
<1>7. CASE Drain \/ UNCHANGED vars
  BY <1>2, <1>7 DEF Drain, vars
<1>8. CASE ClientEnds
  BY <1>0, <1>3, <1>8 DEF ClientEnds
<1> QED BY <1>4, <1>5, <1>6, <1>7, <1>8 DEF Next, Answer, Over

\* Nothing is under way at the beginning, and it is the client's turn.
LEMMA StepInit == Init => StepInv
<1> SUFFICES ASSUME Init PROVE StepInv
  OBVIOUS
<1>1. IndInv
  BY IndInit
<1>2. /\ S \in Sides /\ C \in Sides /\ Peer(S) = C /\ Peer(C) = S
      /\ pc[C] = "thinking" /\ pc[S] = "reading"
      /\ \A s \in Sides : /\ nleft[s] = 0 /\ wire[s] = <<>> /\ rio_buf[s] = <<>>
                          /\ usrbuf[s] = <<>>
  BY DEF Init, Sides, Peer, S, C
<1>3. Toward(S) = <<>> /\ Toward(C) = <<>>
  BY <1>1, <1>2, TowardTyped DEF Got
<1>4. AllSent /\ ClientOpen /\ DrainsOnly
  BY <1>2 DEF AllSent, ClientOpen, DrainsOnly
<1>5. TurnsTaken /\ WholeLines
  BY <1>2, <1>3 DEF TurnsTaken, InTurn, ClientHasTurn, Idle, WholeLines
<1> QED BY <1>1, <1>4, <1>5 DEF StepInv

\* The turns are kept as long as the connection lasts.
LEMMA StepInvariant == Spec => []StepInv
<1>1. StepInv /\ [Next]_vars => StepInv'
  <2> SUFFICES ASSUME StepInv, [Next]_vars PROVE StepInv'
    OBVIOUS
  <2>1. IndInv'
    BY IndStep DEF StepInv
  <2>2. AllSent' /\ ClientOpen' /\ DrainsOnly'
    BY AllSentStep, ClientOpenStep, DrainsOnlyStep DEF StepInv
  <2>3. TurnsTaken'
    BY <2>1, TurnsStep DEF StepInv
  <2>4. WholeLines'
    BY <2>1, WholeLinesStep DEF StepInv
  <2> QED BY <2>1, <2>2, <2>3, <2>4 DEF StepInv
<1> QED BY <1>1, StepInit, PTL DEF Spec

\* As long as each answer is one line, stockclient reads the answer to its own
\* request and nothing else: when it turns to the next line of its input, no
\* byte is under way on either side and the server is back at its read.
THEOREM ClientStaysInStep == Spec => []InStep
<1>1. StepInv => InStep
  <2> SUFFICES ASSUME StepInv, kind = "stockclient", pc[C] = "thinking", ~uneven,
                      ~Ended(S)
               PROVE  /\ pc[S] \in {"reading", "writing"} /\ nleft[S] = 0
                      /\ pc[S] = "reading" => usrbuf[S] = <<>>
                      /\ \A s \in Sides : wire[s] = <<>> /\ rio_buf[s] = <<>>
    BY DEF InStep, S, C
  <2>1. /\ S \in Sides /\ C \in Sides /\ Peer(S) = C /\ Peer(C) = S /\ Sides = {S, C}
        /\ pc \in [Sides -> {"thinking", "writing", "reading", "closed", "exited"}]
    BY DEF Sides, Peer, S, C, StepInv, IndInv, TypeOK
  <2>2. BothOpen
    BY <2>1 DEF BothOpen, Ended
  <2>3. ClientHasTurn
    BY <2>2 DEF StepInv, TurnsTaken, InTurn, RequestUnderWay, ServerHasTurn,
       AnswerUnderWay
  <2>4. Toward(S) = <<>> /\ Toward(C) = <<>> /\ pc[S] # "thinking"
    BY <2>3 DEF ClientHasTurn, Idle
  <2>5. /\ Got(S) = <<>> /\ rio_buf[S] = <<>> /\ wire[S] = <<>> /\ nleft[C] = 0
        /\ rio_buf[C] = <<>> /\ wire[C] = <<>> /\ nleft[S] = 0
    BY <2>1, <2>4, TowardTyped DEF StepInv
  <2> QED BY <2>1, <2>4, <2>5 DEF Got, Ended
<1> QED BY <1>1, StepInvariant, PTL

\* Each side waits for the other only where one of them has broken the turns:
\* stockclient with a line its input left unfinished, the server with an answer
\* that is not one line; multiclient, which waits for MAXLINE bytes, after
\* every request, or over a long answer; another client by not reading.
THEOREM WaitsAreExplained == Spec => []WhyStuck
<1>1. StepInv => WhyStuck
  <2> SUFFICES ASSUME StepInv, Stuck
               PROVE  \/ kind = "stockclient" /\ (uneven \/ ~LineDone(out[C]))
                      \/ /\ kind = "multiclient"
                         /\ \/ usrbuf[S] = <<>> /\ \A s \in Sides : pc[s] = "reading"
                            \/ uneven /\ \A s \in Sides : pc[s] = "writing"
                      \/ kind = "other" /\ \A s \in Sides : pc[s] = "writing"
    BY DEF WhyStuck, S, C
  <2>1. /\ S \in Sides /\ C \in Sides /\ Peer(S) = C /\ Peer(C) = S /\ Sides = {S, C}
        /\ kind \in {"stockclient", "multiclient", "other"} /\ IndInv
    BY DEF Sides, Peer, S, C, StepInv, IndInv, TypeOK
  <2>2. BothOpen /\ Blocked(S) /\ Blocked(C)
    BY <2>1 DEF Stuck, Blocked, BothOpen
  <2>3. ASSUME NEW s \in Sides, pc[s] = "reading" PROVE pc[Peer(s)] = "reading"
    <3>1. wire[s] = <<>> /\ Peer(s) \in Sides /\ Peer(Peer(s)) = s
      BY <2>1, <2>2, <2>3 DEF Blocked
    <3>2. Len(wire[s]) # PipeSize
      BY <3>1, EmptyTyped, ConversationAssumption
    <3> QED BY <2>1, <2>2, <2>3, <3>1, <3>2 DEF Blocked
  <2>4. CASE \A s \in Sides : pc[s] = "writing"
    <3>1. kind # "other" /\ ~uneven => FALSE
      <4> SUFFICES ASSUME kind # "other", ~uneven PROVE FALSE
        OBVIOUS
      <4>1. InTurn
        BY <2>2 DEF StepInv, TurnsTaken
      <4>2. Toward(S) = <<>> \/ Toward(C) = <<>>
        BY <4>1 DEF InTurn, ClientHasTurn, RequestUnderWay, ServerHasTurn,
           AnswerUnderWay, Idle
      <4>3. nleft[S] = 0 \/ nleft[C] = 0
        BY <2>1, <4>2, TowardTyped
      <4> QED BY <2>1, <2>2, <2>4, <4>3, UnsentTyped DEF Blocked
    <3> QED BY <2>1, <2>4, <3>1
  <2>5. CASE \A s \in Sides : pc[s] = "reading"
    <3>1. /\ rio_buf[S] = <<>> /\ wire[S] = <<>> /\ nleft[S] = 0
          /\ rio_buf[C] = <<>> /\ wire[C] = <<>> /\ nleft[C] = 0
          /\ Got(S) = usrbuf[S] /\ Got(C) = usrbuf[C]
      BY <2>1, <2>2, <2>5 DEF Blocked, StepInv, AllSent, Got
    <3>2. /\ usrbuf[S] \in Seq(Bytes) /\ usrbuf[C] \in Seq(Bytes)
          /\ Unsent(S) = <<>> /\ Unsent(C) = <<>>
          /\ Len(usrbuf[S]) \in Nat /\ Len(usrbuf[C]) \in Nat
      BY <2>1, <3>1, Typed, UnsentTyped DEF IndInv
    <3>3. Toward(S) = usrbuf[S] /\ Toward(C) = usrbuf[C]
      BY <2>1, <3>1, <3>2, EmptyTyped, ConcatEmptySeq DEF Toward
    <3>4. NoNewline(usrbuf[S]) /\ Len(usrbuf[S]) < MaxLine - 1
      BY <2>1, <2>5 DEF IndInv, ReadOpen, Limit, S
    <3>5. ~LineDone(usrbuf[S])
      <4>1. DOMAIN usrbuf[S] = 1 .. Len(usrbuf[S])
        BY <3>2, LenProperties
      <4>2. ASSUME usrbuf[S] # <<>> PROVE usrbuf[S][Len(usrbuf[S])] # NL
        <5>1. Len(usrbuf[S]) # 0
          BY <3>2, <4>2, EmptySeq
        <5> QED BY <3>2, <3>4, <4>1, <5>1 DEF NoNewline
      <4> QED BY <3>4, <4>2, ConversationAssumption DEF LineDone
    <3>6. CASE kind = "stockclient"
      <4> SUFFICES ASSUME ~uneven, LineDone(out[C]) PROVE FALSE
        BY <3>6
      <4>1. InTurn
        BY <2>2, <3>6 DEF StepInv, TurnsTaken
      <4>2. CASE RequestUnderWay
        BY <3>3, <3>5, <4>2 DEF RequestUnderWay
      <4>3. CASE AnswerUnderWay
        <5>1. OneLine(usrbuf[C])
          BY <3>3, <4>3 DEF AnswerUnderWay
        <5>2. NoNewline(usrbuf[C]) /\ DOMAIN usrbuf[C] = 1 .. Len(usrbuf[C])
          BY <2>1, <2>5, <3>2, <3>6, LenProperties DEF StepInv, ClientOpen
        <5>3. Len(usrbuf[C]) # 0
          BY <3>2, <5>1, EmptySeq DEF OneLine
        <5> QED BY <3>2, <5>1, <5>2, <5>3 DEF OneLine, NoNewline
      <4> QED BY <2>1, <2>5, <4>1, <4>2, <4>3, <3>3, <3>5
          DEF InTurn, ClientHasTurn, ServerHasTurn
    <3>7. CASE kind = "multiclient"
      <4>1. usrbuf[S] = <<>> \/ usrbuf[S][Len(usrbuf[S])] = NL
        BY <2>2, <3>3, <3>7 DEF StepInv, WholeLines
      <4> QED BY <2>5, <3>5, <3>7, <4>1 DEF LineDone
    <3>8. kind # "other"
      BY <2>1, <2>5 DEF StepInv, DrainsOnly
    <3> QED BY <2>1, <3>6, <3>7, <3>8
  <2>6. \A s \in Sides : pc[s] \in {"reading", "writing"}
    BY <2>1, <2>2 DEF Blocked
  <2> QED BY <2>1, <2>3, <2>4, <2>5, <2>6
<1> QED BY <1>1, StepInvariant, PTL
=============================================================================
