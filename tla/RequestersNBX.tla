---------------------------- MODULE RequestersNBX ----------------------------
(***************************************************************************)
(* Who wants data from me?  MPIRequestersNBX turns every rank's list of    *)
(* targets into every rank's list of requesters: synchronous sends, a      *)
(* probe loop, and a nonblocking barrier as the consensus that nothing is  *)
(* left to receive.  MPIPatternP2P runs it once per distributed vector     *)
(* layout, on the same communicator and with the same tag each time, after *)
(* an Allgatherv of the owned ranges.                                      *)
(*                                                                         *)
(* A message is <<from, to>> and is pending until a receive matches it.    *)
(* MPI may show a pending message to a probe as late as it likes.          *)
(***************************************************************************)
EXTENDS Naturals

CONSTANTS
  Ranks,       \* the processes of the communicator
  TargetSets,  \* the lists of targets a rank may have
  MaxRounds,   \* bound: exchanges one after the other
  DebugBuild   \* finish() ends in a blocking barrier (no NDEBUG)

ASSUME ConstantsOK ==
  /\ TargetSets \subseteq SUBSET Ranks
  /\ MaxRounds \in Nat
  /\ DebugBuild \in BOOLEAN

VARIABLES
  pc,          \* where each rank is
  targets,     \* d_targetIDs
  requesters,  \* d_requestingProcesses
  pending,     \* synchronous sends no receive has matched
  receiving,   \* sources of posted receives whose data has not arrived
  last,        \* source of d_recvRequests.back(), if any
  gathers,     \* Allgatherv calls each rank entered: the round it is in
  barriers,    \* MPI_Ibarrier calls
  trailing     \* MPI_Barrier calls

vars == <<pc, targets, requesters, pending, receiving, last, gathers, barriers, trailing>>

AllAtLeast(count, n) == \A q \in Ranks : count[q] >= n

Init ==
  /\ pc = [p \in Ranks |-> "idle"]
  /\ targets = [p \in Ranks |-> {}]
  /\ requesters = [p \in Ranks |-> {}]
  /\ pending = {}
  /\ receiving = [p \in Ranks |-> {}]
  /\ last = [p \in Ranks |-> {}]
  /\ gathers = [p \in Ranks |-> 0]
  /\ barriers = [p \in Ranks |-> 0]
  /\ trailing = [p \in Ranks |-> 0]

\* getAllOwnedRanges: nobody has everybody's range before everybody gave it.
EnterGather(p) ==
  /\ pc[p] = "idle" /\ gathers[p] < MaxRounds
  /\ gathers' = [gathers EXCEPT ![p] = @ + 1]
  /\ pc' = [pc EXCEPT ![p] = "gather"]
  /\ UNCHANGED <<targets, requesters, pending, receiving, last, barriers, trailing>>

\* Mutant of Start: a rank starts its sends without the ranges of the others.
StartAlone(p) ==
  /\ pc[p] = "gather"
  /\ \E T \in TargetSets :
       /\ targets' = [targets EXCEPT ![p] = T]
       /\ pending' = pending \cup {<<p, t>> : t \in T}
  /\ requesters' = [requesters EXCEPT ![p] = {}]
  /\ last' = [last EXCEPT ![p] = {}]
  /\ pc' = [pc EXCEPT ![p] = "sends"]
  /\ UNCHANGED <<receiving, gathers, barriers, trailing>>

\* A new MPIRequestersNBX object, and startLocalSend.
Start(p) ==
  /\ pc[p] = "gather" /\ AllAtLeast(gathers, gathers[p])
  /\ \E T \in TargetSets :
       /\ targets' = [targets EXCEPT ![p] = T]
       /\ pending' = pending \cup {<<p, t>> : t \in T}
  /\ requesters' = [requesters EXCEPT ![p] = {}]
  /\ last' = [last EXCEPT ![p] = {}]
  /\ pc' = [pc EXCEPT ![p] = "sends"]
  /\ UNCHANGED <<receiving, gathers, barriers, trailing>>

\* Mutant of ProbeAndReceive: the loop stops receiving once it has signalled
\* its own completion, and only tests the barrier.
ProbeUntilSignalled(p) ==
  \/ \E q \in Ranks :
       /\ pc[p] = "sends"
       /\ <<q, p>> \in pending
       /\ requesters' = [requesters EXCEPT ![p] = @ \cup {q}]
       /\ pending' = pending \ {<<q, p>>}
       /\ receiving' = [receiving EXCEPT ![p] = @ \cup {q}]
       /\ last' = [last EXCEPT ![p] = {q}]
       /\ UNCHANGED <<pc, targets, gathers, barriers, trailing>>
  \/ pc[p] = "barrier" /\ UNCHANGED vars

\* probeAndReceiveIncomingMsg, when the probe finds a message: a message is
\* known by its source only, and one source may send one.
ProbeAndReceive(p) == \E q \in Ranks :
  /\ pc[p] \in {"sends", "barrier"}
  /\ <<q, p>> \in pending
  /\ \/ /\ q \notin requesters[p]
        /\ requesters' = [requesters EXCEPT ![p] = @ \cup {q}]
        /\ pending' = pending \ {<<q, p>>}
        /\ receiving' = [receiving EXCEPT ![p] = @ \cup {q}]
        /\ last' = [last EXCEPT ![p] = {q}]
        /\ UNCHANGED pc
     \/ /\ q \in requesters[p]
        /\ pc' = [pc EXCEPT ![p] = "threw"]
        /\ UNCHANGED <<requesters, pending, receiving, last>>
  /\ UNCHANGED <<targets, gathers, barriers, trailing>>

\* Mutant of SendsReceived: the rank leaves without signalling its completion.
SendsReceivedOnly(p) ==
  /\ pc[p] = "sends"
  /\ \A q \in Ranks : <<p, q>> \notin pending
  /\ pc' = [pc EXCEPT ![p] = "signalled"]
  /\ UNCHANGED <<targets, requesters, pending, receiving, last, gathers, barriers, trailing>>

\* haveAllLocalSendReceived, then signalLocalSendCompletion.
SendsReceived(p) ==
  /\ pc[p] = "sends"
  /\ \A q \in Ranks : <<p, q>> \notin pending
  /\ barriers' = [barriers EXCEPT ![p] = @ + 1]
  /\ pc' = [pc EXCEPT ![p] = "barrier"]
  /\ UNCHANGED <<targets, requesters, pending, receiving, last, gathers, trailing>>

\* Mutant of BarrierCompletes: the rank's own signal is enough.
BarrierAlone(p) ==
  /\ pc[p] = "barrier"
  /\ pc' = [pc EXCEPT ![p] = "finish"]
  /\ UNCHANGED <<targets, requesters, pending, receiving, last, gathers, barriers, trailing>>

\* haveAllIncomingMsgsReceived: the nonblocking barrier completes.
BarrierCompletes(p) ==
  /\ pc[p] = "barrier" /\ AllAtLeast(barriers, barriers[p])
  /\ pc' = [pc EXCEPT ![p] = "finish"]
  /\ UNCHANGED <<targets, requesters, pending, receiving, last, gathers, barriers, trailing>>

\* The data of a matched message arrives in its buffer.
DataArrives(p) == \E q \in receiving[p] :
  /\ receiving' = [receiving EXCEPT ![p] = @ \ {q}]
  /\ UNCHANGED <<pc, targets, requesters, pending, last, gathers, barriers, trailing>>

\* finish: every iteration of its loop waits for d_recvRequests.back().
Finish(p) ==
  /\ pc[p] = "finish" /\ last[p] \cap receiving[p] = {}
  /\ IF DebugBuild
       THEN /\ trailing' = [trailing EXCEPT ![p] = @ + 1]
            /\ pc' = [pc EXCEPT ![p] = "trailing"]
       ELSE /\ pc' = [pc EXCEPT ![p] = "idle"]
            /\ UNCHANGED trailing
  /\ UNCHANGED <<targets, requesters, pending, receiving, last, gathers, barriers>>

LeaveTrailing(p) ==
  /\ pc[p] = "trailing" /\ AllAtLeast(trailing, trailing[p])
  /\ pc' = [pc EXCEPT ![p] = "idle"]
  /\ UNCHANGED <<targets, requesters, pending, receiving, last, gathers, barriers, trailing>>

Rank(p) ==
  \/ EnterGather(p) \/ Start(p) \/ ProbeAndReceive(p) \/ SendsReceived(p)
  \/ BarrierCompletes(p) \/ Finish(p) \/ LeaveTrailing(p)

Finished ==
  /\ \A p \in Ranks : pc[p] = "idle" /\ gathers[p] = MaxRounds
  /\ UNCHANGED vars

Next == (\E p \in Ranks : Rank(p) \/ DataArrives(p)) \/ Finished

\* Every rank keeps running its loops, a pending message is found by some
\* probe, and MPI delivers what was matched.
Fairness == \A p \in Ranks : WF_vars(Rank(p)) /\ WF_vars(DataArrives(p))

Spec == Init /\ [][Next]_vars /\ Fairness
-----------------------------------------------------------------------------
TypeOK ==
  /\ pc \in [Ranks ->
       {"idle", "gather", "sends", "barrier", "finish", "trailing", "threw"}]
  /\ targets \in [Ranks -> SUBSET Ranks]
  /\ requesters \in [Ranks -> SUBSET Ranks]
  /\ pending \subseteq Ranks \X Ranks
  /\ receiving \in [Ranks -> SUBSET Ranks]
  /\ last \in [Ranks -> SUBSET Ranks]
  /\ gathers \in [Ranks -> Nat]
  /\ barriers \in [Ranks -> Nat]
  /\ trailing \in [Ranks -> Nat]

\* getRequestingRankIds returns exactly the ranks that have this one as a
\* target in this exchange: none is missed because the barrier completed
\* early, none is left over from the next exchange.
Returned(p) == pc[p] \in {"finish", "trailing", "idle"}
RequestersExact ==
  \A p \in Ranks : Returned(p) => requesters[p] = {q \in Ranks : p \in targets[q]}

\* "The NBX algorithm is designed to receive at most one incoming message from
\* any source process": no message of a faster rank's next exchange is taken
\* for one of this exchange.
NoSecondMessage == \A p \in Ranks : pc[p] # "threw"

\* "the MPI data structures can be freed" after finish() (MPIRequestersNBX.h):
\* no receive is still writing to d_recvBuffers when the object goes away.
NoReceiveIntoFreedBuffer ==
  \A p \in Ranks : pc[p] = "idle" => receiving[p] = {}

\* Every exchange ends on every rank.
ExchangesEnd == \A p \in Ranks : (pc[p] = "gather") ~> (pc[p] = "idle")
=============================================================================
