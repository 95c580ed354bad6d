--------------------------- MODULE RequestResponse ---------------------------
(***************************************************************************)
(* What a backend promises the calculator: compute() is a remote procedure *)
(* call.  A request is executed at most once, an answer is the answer to   *)
(* the request of that call, and every call returns.                       *)
(***************************************************************************)
EXTENDS Naturals

VARIABLES
  asked,     \* number of the latest call of compute()
  open,      \* that call has not returned
  executed,  \* number of the latest request DFT-FE computed
  got        \* number of the request whose response was returned last

vars == <<asked, open, executed, got>>

Init == asked = 0 /\ open = FALSE /\ executed = 0 /\ got = 0

Ask ==
  /\ ~open /\ open' = TRUE
  /\ asked' = asked + 1
  /\ UNCHANGED <<executed, got>>

Execute ==
  /\ executed < asked /\ executed' = asked
  /\ UNCHANGED <<asked, open, got>>

Answer ==
  /\ open /\ open' = FALSE
  /\ executed = asked /\ got' = asked
  /\ UNCHANGED <<asked, executed>>

Fail ==
  /\ open /\ open' = FALSE
  /\ UNCHANGED <<asked, executed, got>>

Next == Ask \/ Execute \/ Answer \/ Fail

Spec == Init /\ [][Next]_vars /\ WF_vars(Answer \/ Fail)
=============================================================================
