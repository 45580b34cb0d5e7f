--------------------------- MODULE ResponseBuilder ---------------------------
(***************************************************************************)
(* The buffer in which stock_server.c puts an answer together.  A response *)
(* has its memory, byte by byte, and the length of the text in it; what    *)
(* was allocated and not written holds Garbage.                            *)
(***************************************************************************)
EXTENDS Integers, Sequences, FiniteSets

CONSTANTS
  MAXLINE,   \* the size of a new buffer
  SizeMax    \* SIZE_MAX

ASSUME ResponseAssumption == MAXLINE \in 1 .. SizeMax /\ SizeMax \in Nat

NUL == 0         \* the byte at the end of a C string
Garbage == -1    \* a byte that is not written yet

NoResponse == [data |-> <<>>, len |-> 0]

Cap(r) == Cardinality(DOMAIN r.data)

\* The bytes that Rio_writen sends.
Sent(r) == [k \in 1 .. r.len |-> r.data[k - 1]]

response_init ==
  [data |-> [k \in 0 .. MAXLINE - 1 |-> IF k = 0 THEN NUL ELSE Garbage],
   len |-> 0]

\* The text and its NUL are put behind what the response holds, as far as they
\* fit; the length does not change yet.
Printed(r, text) ==
  LET fits == IF Len(text) < Cap(r) - r.len THEN Len(text) ELSE Cap(r) - r.len - 1
  IN  [r EXCEPT !.data = [k \in DOMAIN r.data |->
         IF k \in r.len .. r.len + fits - 1 THEN text[k - r.len + 1]
         ELSE IF k = r.len + fits THEN NUL
         ELSE r.data[k]]]

\* Faulty variant: no room is asked for the NUL.
GrownWithoutNul(r, additional) ==
  LET needed == r.len + additional
      after[c \in 1 .. SizeMax] ==
        IF c >= needed THEN c
        ELSE IF c > SizeMax \div 2 THEN needed ELSE after[c * 2]
  IN  after[Cap(r)]

\* The capacity that response_ensure_capacity comes to by doubling.
Grown(r, additional) ==
  LET needed == r.len + additional + 1
      after[c \in 1 .. SizeMax] ==
        IF c >= needed THEN c
        ELSE IF c > SizeMax \div 2 THEN needed ELSE after[c * 2]
  IN  after[Cap(r)]

HasRoom(r, additional) == additional <= SizeMax - r.len - 1

\* response_ensure_capacity, when HasRoom
EnsureCapacity(r, additional) ==
  [r EXCEPT !.data = [k \in 0 .. Grown(r, additional) - 1 |->
     IF k \in DOMAIN r.data THEN r.data[k] ELSE Garbage]]

\* What response_append and response_appendf return ...
AppendStatus(r, text) ==
  IF Len(text) < Cap(r) - r.len \/ HasRoom(r, Len(text)) THEN "OK" ELSE "INTERNAL"

\* ... and what they make of the response if that is OK.  response_appendf tries
\* first, grows if the text was cut, and prints again.
response_appendf(r, text) ==
  LET first == Printed(r, text)
      whole == IF Len(text) >= Cap(r) - r.len
               THEN Printed(EnsureCapacity(first, Len(text)), text) ELSE first
  IN  [whole EXCEPT !.len = @ + Len(text)]

response_append(r, text) ==
  [Printed(EnsureCapacity(r, Len(text)), text) EXCEPT !.len = @ + Len(text)]

\* The answer of handle_client to a request that has failed.
Refusal(r, text) ==
  response_append([r EXCEPT !.len = 0, !.data[0] = NUL], text)
=============================================================================
