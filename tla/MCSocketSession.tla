--------------------------- MODULE MCSocketSession ---------------------------
(***************************************************************************)
(* SocketSession under two kinds of program: a script, whose calls are     *)
(* never interrupted, and a notebook (Interrupts).  Both share the         *)
(* actions; a history variable tells when the last interruption has been   *)
(* made good by a close() that ran to its end.                             *)
(***************************************************************************)
EXTENDS SocketSession

VARIABLES
  notebook,    \* the program is a notebook
  interrupted  \* a call was, since the last close() that returned

mcVars == <<vars, notebook, interrupted>>

Script == INSTANCE SocketSession WITH Interrupts <- FALSE

Closed == call # "none" /\ call' = "none" /\ outcome' = "closed"

MCInit == Init /\ notebook \in BOOLEAN /\ interrupted = FALSE
MCNext ==
  /\ IF notebook THEN Next ELSE Script!Next
  /\ interrupted' = IF Closed THEN FALSE
                    ELSE interrupted \/ (call' = "none" /\ outcome' = "interrupted")
  /\ UNCHANGED notebook
MCSpec == MCInit /\ [][MCNext]_mcVars /\ Fairness
-----------------------------------------------------------------------------
\* "exchange one request/response per compute()" (socket.py): unless a call was
\* interrupted and the backend not closed since, a call of compute() returns
\* the response to its own request.
AnswerIsToThisCallOnceClosed == ~interrupted => AnswerIsToThisCall

\* "Release all resources (process, sockets, files)" (base.py): every process that
\* runs is the one a script's backend holds, so a restart never makes a second
\* engine, and a close() that returns leaves nothing behind.  (A notebook that
\* goes on after an interrupted launch forgets its first engine.)
ScriptsReleaseAll == ~notebook => NoOrphans /\ CloseReleasesAll

\* The backend of a script is the remote procedure call the calculator takes it
\* for.
RemoteCall == INSTANCE RequestResponse WITH
  asked <- IF notebook THEN 0 ELSE asked,
  executed <- IF notebook THEN 0 ELSE executed,
  got <- IF notebook THEN 0 ELSE got,
  open <- ~notebook
            /\ call \in {"launch", "accept", "handshake", "send", "await", "abandon"}
IsScriptsRemoteCall == RemoteCall!Spec
==============================================================================
