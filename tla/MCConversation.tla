--------------------------- MODULE MCConversation ----------------------------
(* Lines of at most two bytes, sockets of three bytes, Rio buffers of two:  *)
(* everything overflows.  Up to three requests.                              *)
EXTENDS Conversation

CONSTANTS a, x

MCBytes == {a, x, NL}
\* A line, an exit, a line cut short, a full one without newline; and what only
\* other clients send: a long line, and two lines at once.
MCRequests ==
  {<<a, NL>>, <<x, NL>>, <<a>>, <<a, a>>, <<a, a, NL>>, <<NL, a, NL>>}
\* A status line, the listing of no stocks, and one that takes multiclient three
\* reads and fills the socket.
MCReplies == {<<a, NL>>, <<>>, <<a, NL, a, NL, a, NL, a, NL, a, NL>>}
MCExitLines == {<<x, NL>>, <<x>>}
=============================================================================
