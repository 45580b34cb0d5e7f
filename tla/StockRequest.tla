---------------------------- MODULE StockRequest ----------------------------
(***************************************************************************)
(* Request lines of the text protocol, and how stock_server.c reads them.  *)
(* A line is the sequence of its blank-separated tokens; a token is a word *)
(* or a decimal integer.  Ints is the range of a C int.                    *)
(***************************************************************************)
EXTENDS Integers, Sequences

CONSTANT MaxInt   \* INT_MAX

ASSUME MaxIntAssumption == MaxInt \in Nat \ {0}

Ints == -(MaxInt + 1) .. MaxInt
\* Faulty variant: an int that never overflows.
Unbounded(n) == n

\* What the build computes for an int sum that overflows: it wraps around.
Wrap(n) == IF n > MaxInt THEN n - 2 * (MaxInt + 1) ELSE n

Word(text) == [kind |-> "word", text |-> text, value |-> 0]
Number(n) == [kind |-> "int", text |-> "digits", value |-> n]

\* A sequence of such tokens.
IsLine(line) ==
  /\ line \in Seq([kind : {"word", "int"}, text : STRING, value : Int])
  /\ \A k \in 1 .. Len(line) : \/ line[k] = Word(line[k].text)
                              \/ line[k] = Number(line[k].value)

Verbs == {"show", "buy", "sell", "exit"}
MaxTokens == 4   \* STOCK_REQUEST_MAX_TOKENS

Requests ==
  [command : Verbs \cup {"unknown"}, argc : 0 .. MaxTokens, id : Ints,
   count : Ints, parse_error : {0, 1}]

\* strtol accepts the whole token and the value fits an int.
parse_int_token(token) == token.kind = "int" /\ token.value \in Ints

\* Faulty variant: counts of any value are let through to buy and sell.
AcceptAnyCount(r) ==
  IF r.parse_error = 1 THEN "INVALID"
  ELSE IF \/ r.command = "show" /\ r.argc \in {1, 2}
          \/ r.command \in {"buy", "sell"} /\ r.argc = 3
          \/ r.command = "exit" /\ r.argc = 1
       THEN "OK" ELSE "INVALID"

parse_request(line) ==
  LET tooMany == Len(line) > MaxTokens
      argc == IF tooMany THEN MaxTokens ELSE Len(line)
      command == IF argc > 0 /\ ~tooMany /\ line[1].text \in Verbs
                 THEN line[1].text ELSE "unknown"
      known == command # "unknown"
      idBad == known /\ argc >= 2 /\ ~parse_int_token(line[2])
      countBad == known /\ argc >= 3 /\ ~parse_int_token(line[3])
  IN  [command |-> command, argc |-> argc,
       id |-> IF known /\ argc >= 2 /\ ~idBad THEN line[2].value ELSE 0,
       count |-> IF known /\ argc >= 3 /\ ~idBad /\ ~countBad
                 THEN line[3].value ELSE 0,
       parse_error |-> IF tooMany \/ idBad \/ countBad THEN 1 ELSE 0]

validate_request(r) ==
  IF /\ r.parse_error = 0
     /\ \/ r.command = "show" /\ r.argc \in {1, 2}
        \/ r.command \in {"buy", "sell"} /\ r.argc = 3 /\ r.count > 0
        \/ r.command = "exit" /\ r.argc = 1
  THEN "OK" ELSE "INVALID"
=============================================================================
