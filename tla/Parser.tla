------------------------------- MODULE Parser -------------------------------
(***************************************************************************)
(* What a parser promises its caller, whatever the algorithm: each call of *)
(* glrParse on a text returns, either with the value of the text or with a *)
(* failure, and which of the two and which value depend on the text alone. *)
(***************************************************************************)
EXTENDS Sequences

CONSTANTS
  Texts,
  Meaning(_)          \* << >>, or the sequence of the value of a text

VARIABLES
  status,             \* "idle", "parsing", "accepted" or "rejected"
  input,
  result              \* << >>, or the value that is returned

vars == <<status, input, result>>

Init == status = "idle" /\ input = << >> /\ result = << >>

Call ==
  /\ status = "idle"
  /\ status' = "parsing"
  /\ input' \in Texts
  /\ result' = << >>

Evaluate ==
  /\ status = "parsing" /\ result = << >>
  /\ result' # << >> /\ result' = Meaning(input)
  /\ UNCHANGED <<status, input>>

Succeed ==
  /\ status = "parsing" /\ result # << >>
  /\ status' = "accepted"
  /\ UNCHANGED <<input, result>>

Fail ==
  /\ status = "parsing"
  /\ status' = "rejected"
  /\ Meaning(input) = << >>
  /\ UNCHANGED <<input, result>>

Return ==
  /\ status \in {"accepted", "rejected"}
  /\ status' = "idle" /\ input' = << >> /\ result' = << >>

Next == Call \/ Evaluate \/ Succeed \/ Fail \/ Return

(* A call returns.                                                         *)
CallReturns == status = "parsing" ~> status # "parsing"

Spec == Init /\ [][Next]_vars /\ CallReturns
=============================================================================
