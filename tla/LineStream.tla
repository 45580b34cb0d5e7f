----------------------------- MODULE LineStream ------------------------------
(***************************************************************************)
(* What handle_client of stock_server.c gets from its Rio reader: however  *)
(* the bytes of a client arrive, they are cut into requests in one way.  A *)
(* request ends with a newline, at MAXLINE - 1 bytes, or with the input;   *)
(* the next one is cut when the last one is answered; and the server hangs *)
(* up on a client only after its exit.  Conversation implements this.      *)
(***************************************************************************)
EXTENDS Naturals, Sequences

CONSTANTS NL, MaxLine, ExitLines

VARIABLES
  rest,      \* the bytes sent and not yet cut into requests
  eof,       \* the client has ended, no byte will follow
  request,   \* the request being served
  serving, open,
  broken     \* the client left in a way that fails the server's calls

vars == <<rest, eof, request, serving, open, broken>>

Init ==
  /\ rest = <<>> /\ eof = FALSE
  /\ request = <<>> /\ serving = FALSE /\ open = TRUE
  /\ broken = FALSE

\* More bytes of the client.
Send ==
  /\ ~eof /\ open
  /\ rest' = rest \o SubSeq(rest', Len(rest) + 1, Len(rest'))
  /\ UNCHANGED <<eof, request, serving, open, broken>>

\* The client ends; that the connection broke may show later.
End ==
  /\ eof' = TRUE /\ (broken => broken')
  /\ UNCHANGED <<rest, request, serving, open>>

\* The first k bytes of b are a request.
IsCut(b, k) ==
  /\ \A j \in 1 .. k - 1 : b[j] # NL
  /\ k < MaxLine
  /\ b[k] = NL \/ k = MaxLine - 1 \/ (eof /\ k = Len(b))

Take ==
  /\ open /\ ~serving
  /\ \E k \in 1 .. Len(rest) :
       /\ IsCut(rest, k)
       /\ request' = SubSeq(rest, 1, k)
       /\ rest' = SubSeq(rest, k + 1, Len(rest))
  /\ serving' = TRUE
  /\ UNCHANGED <<eof, open, broken>>

Answer ==
  /\ serving /\ request \notin ExitLines
  /\ serving' = FALSE /\ request' = <<>>
  /\ UNCHANGED <<rest, eof, open, broken>>

\* The server closes the connection.
HangUp ==
  /\ open
  /\ \/ serving /\ request \in ExitLines
     \/ ~serving /\ eof /\ rest = <<>>
     \/ broken
  /\ open' = FALSE /\ rest' = <<>> /\ request' = <<>> /\ serving' = FALSE
  /\ UNCHANGED <<eof, broken>>

Next == Send \/ End \/ Take \/ Answer \/ HangUp

Spec == Init /\ [][Next]_vars
=============================================================================
