------------------------- MODULE RequestersNBXProofs -------------------------
(***************************************************************************)
(* The answer of the exchange is exact for every number of ranks, every    *)
(* choice of targets, any number of exchanges and both builds.             *)
(***************************************************************************)
EXTENDS RequestersNBX, TLAPS

States == {"idle", "gather", "sends", "barrier", "finish", "trailing"}

\* The exchange whose targets a rank holds.
Held(p) == IF pc[p] = "gather" THEN gathers[p] - 1 ELSE gathers[p]

\* Nobody is more than one Allgatherv ahead, and nobody leaves it early.
InStep == \A p, q \in Ranks : gathers[q] >= Held(p)

\* A rank has called MPI_Ibarrier in this exchange once its sends are received.
Signalled ==
  \A p \in Ranks :
    barriers[p] = IF pc[p] \in {"gather", "sends"} THEN gathers[p] - 1 ELSE gathers[p]

\* Consensus: when a rank leaves its probe loop, everybody has signalled.
Consensus == \A p, q \in Ranks : Returned(p) => barriers[q] >= barriers[p]

\* Only a rank still waiting for its sends has messages pending.
PendingFromSenders ==
  \A m \in pending : pc[m[1]] = "sends" /\ m[2] \in targets[m[1]]

\* A rank knows the senders of this exchange whose message is not pending.
KnowsReceived ==
  \A p, q \in Ranks : pc[p] # "gather" =>
    (q \in requesters[p] <=>
       Held(q) = gathers[p] /\ p \in targets[q] /\ <<q, p>> \notin pending)

\* What was sent to a rank that has not begun this exchange waits for it.
EarlyWaits ==
  \A p, q \in Ranks :
    pc[p] = "gather" /\ Held(q) = gathers[p] /\ p \in targets[q] => <<q, p>> \in pending

IInv ==
  /\ TypeOK /\ pc \in [Ranks -> States]
  /\ InStep /\ Signalled /\ Consensus
  /\ PendingFromSenders /\ KnowsReceived /\ EarlyWaits

LEMMA InitIInv == Init => IInv
<1> SUFFICES ASSUME Init PROVE IInv
  OBVIOUS
<1>1. TypeOK /\ pc \in [Ranks -> States]
  BY DEF Init, TypeOK, States
<1>2. InStep /\ Signalled /\ Consensus /\ PendingFromSenders
  BY DEF Init, InStep, Signalled, Consensus, PendingFromSenders, Held, Returned
<1>3. KnowsReceived /\ EarlyWaits
  BY DEF Init, KnowsReceived, EarlyWaits, Held
<1>4. QED BY <1>1, <1>2, <1>3 DEF IInv

LEMMA EnterGatherIInv ==
  ASSUME IInv, NEW r \in Ranks, EnterGather(r)
  PROVE  IInv'
<1> USE DEF EnterGather, IInv
<1>1. TypeOK' /\ (pc \in [Ranks -> States])'
  BY DEF TypeOK, States
<1>2. \A q \in Ranks : Held(q)' = Held(q)
  BY DEF TypeOK, Held
<1>3. \A q \in Ranks : gathers'[q] >= gathers[q] /\ gathers[q] \in Nat
  BY DEF TypeOK
<1>4. InStep'
  BY <1>2, <1>3 DEF InStep, Held, TypeOK
<1>5. Signalled'
  BY DEF Signalled, TypeOK
<1>6. Consensus'
  BY DEF Consensus, Returned, TypeOK
<1>7. PendingFromSenders'
  BY DEF PendingFromSenders, TypeOK
<1>8. KnowsReceived'
  BY <1>2 DEF KnowsReceived, TypeOK
<1>9. EarlyWaits'
  <2> SUFFICES ASSUME NEW p \in Ranks, NEW q \in Ranks,
                      pc'[p] = "gather", Held(q)' = gathers'[p], p \in targets'[q]
               PROVE  <<q, p>> \in pending
    BY DEF EarlyWaits
  <2>1. CASE p = r
    <3>1. gathers'[p] = gathers[r] + 1
      BY <2>1 DEF TypeOK
    <3>2. Held(q) = gathers[r] + 1 /\ gathers[r] >= Held(q) /\ gathers[r] \in Nat
      BY <1>2, <3>1 DEF InStep, TypeOK
    <3>3. QED BY <3>2
  <2>2. CASE p # r
    BY <1>2, <2>2 DEF EarlyWaits, TypeOK
  <2>3. QED BY <2>1, <2>2
<1>10. QED BY <1>1, <1>4, <1>5, <1>6, <1>7, <1>8, <1>9

LEMMA StartIInv ==
  ASSUME IInv, NEW r \in Ranks, Start(r)
  PROVE  IInv'
<1>1. PICK T \in TargetSets :
        /\ targets' = [targets EXCEPT ![r] = T]
        /\ pending' = pending \cup {<<r, t>> : t \in T}
  BY DEF Start
<1>2. T \subseteq Ranks
  BY ConstantsOK
<1>3. /\ pc[r] = "gather" /\ pc' = [pc EXCEPT ![r] = "sends"]
      /\ \A q \in Ranks : gathers[q] >= gathers[r]
      /\ requesters' = [requesters EXCEPT ![r] = {}]
      /\ last' = [last EXCEPT ![r] = {}]
      /\ UNCHANGED <<receiving, gathers, barriers, trailing>>
  BY DEF Start, AllAtLeast
<1> USE DEF IInv
<1>4. TypeOK' /\ (pc \in [Ranks -> States])'
  BY <1>1, <1>2, <1>3 DEF TypeOK, States
<1>5. /\ Held(r)' = gathers[r] /\ Held(r) = gathers[r] - 1
      /\ \A q \in Ranks : q # r => Held(q)' = Held(q)
  BY <1>3 DEF TypeOK, Held
<1>6. InStep'
  BY <1>3, <1>5 DEF InStep
<1>7. Signalled'
  BY <1>3 DEF Signalled, TypeOK
<1>8. Consensus'
  BY <1>3 DEF Consensus, Returned, TypeOK
<1>9. PendingFromSenders'
  <2> SUFFICES ASSUME NEW m \in pending' PROVE pc'[m[1]] = "sends" /\ m[2] \in targets'[m[1]]
    BY DEF PendingFromSenders
  <2>1. CASE m \in pending
    <3>1. m \in Ranks \X Ranks /\ pc[m[1]] = "sends" /\ m[2] \in targets[m[1]]
      BY <2>1 DEF PendingFromSenders, TypeOK
    <3>2. m[1] # r
      BY <1>3, <3>1
    <3>3. QED BY <1>1, <1>3, <3>1, <3>2 DEF TypeOK
  <2>2. CASE m \in {<<r, t>> : t \in T}
    BY <1>1, <1>3, <2>2 DEF TypeOK
  <2>3. QED BY <1>1, <2>1, <2>2
<1>10. \A p, q \in Ranks :
         /\ q # r => (<<q, p>> \in pending' <=> <<q, p>> \in pending)
         /\ <<r, p>> \in pending' <=> <<r, p>> \in pending \/ p \in T
  BY <1>1
<1>11. \A p \in Ranks : <<r, p>> \notin pending
  BY <1>3 DEF PendingFromSenders
<1>12. KnowsReceived'
  <2> SUFFICES ASSUME NEW p \in Ranks, NEW q \in Ranks, pc'[p] # "gather"
               PROVE  q \in requesters'[p] <=>
                        Held(q)' = gathers'[p] /\ p \in targets'[q] /\ <<q, p>> \notin pending'
    BY DEF KnowsReceived
  <2>1. CASE p = r
    <3>1. q \notin requesters'[p]
      BY <1>3, <2>1 DEF TypeOK
    <3>2. CASE q = r
      BY <1>1, <1>3, <1>10, <2>1, <3>1, <3>2 DEF TypeOK
    <3>3. CASE q # r
      <4>1. Held(q)' = Held(q) /\ targets'[q] = targets[q]
        BY <1>1, <1>5, <3>3 DEF TypeOK
      <4>2. Held(q) = gathers[r] /\ r \in targets[q] => <<q, r>> \in pending
        BY <1>3 DEF EarlyWaits
      <4>3. QED BY <1>3, <1>10, <2>1, <3>1, <3>3, <4>1, <4>2
    <3>4. QED BY <3>2, <3>3
  <2>2. CASE p # r /\ q # r
    <3>1. /\ Held(q)' = Held(q) /\ targets'[q] = targets[q] /\ gathers'[p] = gathers[p]
          /\ requesters'[p] = requesters[p] /\ pc[p] # "gather"
      BY <1>1, <1>3, <1>5, <2>2 DEF TypeOK
    <3>2. QED BY <1>10, <2>2, <3>1 DEF KnowsReceived
  <2>3. CASE p # r /\ q = r
    <3>1. /\ requesters'[p] = requesters[p] /\ pc[p] # "gather" /\ gathers'[p] = gathers[p]
          /\ targets'[r] = T
      BY <1>1, <1>3, <2>3 DEF TypeOK
    <3>2. gathers[p] >= gathers[r] /\ Held(r) # gathers[p]
      BY <1>3, <1>5, <2>3 DEF TypeOK
    <3>3. r \notin requesters[p]
      BY <2>3, <3>1, <3>2 DEF KnowsReceived
    <3>4. p \in T => <<r, p>> \in pending'
      BY <1>10
    <3>5. QED BY <2>3, <3>1, <3>3, <3>4
  <2>4. QED BY <2>1, <2>2, <2>3
<1>13. EarlyWaits'
  <2> SUFFICES ASSUME NEW p \in Ranks, NEW q \in Ranks, pc'[p] = "gather",
                      Held(q)' = gathers'[p], p \in targets'[q]
               PROVE  <<q, p>> \in pending'
    BY DEF EarlyWaits
  <2>1. p # r /\ pc[p] = "gather" /\ gathers'[p] = gathers[p]
    BY <1>3 DEF TypeOK
  <2>2. CASE q = r
    BY <1>1, <1>10, <2>2 DEF TypeOK
  <2>3. CASE q # r
    BY <1>1, <1>5, <1>10, <2>1, <2>3 DEF EarlyWaits, TypeOK
  <2>4. QED BY <2>2, <2>3
<1>14. QED BY <1>4, <1>6, <1>7, <1>8, <1>9, <1>12, <1>13

\* The probed message is of this exchange, so its source is new.
LEMMA ProbeIInv ==
  ASSUME IInv, NEW r \in Ranks, ProbeAndReceive(r)
  PROVE  IInv'
<1> USE DEF IInv
<1>1. PICK s \in Ranks :
        /\ pc[r] \in {"sends", "barrier"}
        /\ <<s, r>> \in pending
        /\ \/ /\ s \notin requesters[r]
              /\ requesters' = [requesters EXCEPT ![r] = @ \cup {s}]
              /\ pending' = pending \ {<<s, r>>}
              /\ receiving' = [receiving EXCEPT ![r] = @ \cup {s}]
              /\ last' = [last EXCEPT ![r] = {s}]
              /\ UNCHANGED pc
           \/ s \in requesters[r]
        /\ UNCHANGED <<targets, gathers, barriers, trailing>>
  BY DEF ProbeAndReceive
<1>2. s \notin requesters[r]
  BY <1>1 DEF KnowsReceived
<1>3. pc[s] = "sends" /\ r \in targets[s]
  BY <1>1 DEF PendingFromSenders
<1>4. Held(s) = gathers[r]
  BY <1>1, <1>3 DEF InStep, Held, TypeOK
<1>5. TypeOK' /\ (pc \in [Ranks -> States])'
  BY <1>1, <1>2 DEF TypeOK, States
<1>6. \A q \in Ranks : Held(q)' = Held(q)
  BY <1>1, <1>2 DEF Held
<1>7. InStep' /\ Signalled' /\ Consensus'
  BY <1>1, <1>2, <1>6 DEF InStep, Signalled, Consensus, Returned
<1>8. PendingFromSenders'
  BY <1>1, <1>2 DEF PendingFromSenders
<1>9. KnowsReceived'
  <2> SUFFICES ASSUME NEW p \in Ranks, NEW q \in Ranks, pc[p] # "gather"
               PROVE  q \in requesters'[p] <=>
                        Held(q) = gathers[p] /\ p \in targets[q] /\ <<q, p>> \notin pending'
    BY <1>1, <1>2, <1>6 DEF KnowsReceived
  <2>1. CASE p = r /\ q = s
    BY <1>1, <1>2, <1>3, <1>4, <2>1 DEF TypeOK
  <2>2. CASE ~(p = r /\ q = s)
    <3>1. <<q, p>> \in pending' <=> <<q, p>> \in pending
      BY <1>1, <1>2, <2>2
    <3>2. q \in requesters'[p] <=> q \in requesters[p]
      BY <1>1, <1>2, <2>2 DEF TypeOK
    <3>3. QED BY <3>1, <3>2 DEF KnowsReceived
  <2>3. QED BY <2>1, <2>2
<1>10. EarlyWaits'
  BY <1>1, <1>2, <1>6 DEF EarlyWaits
<1>11. QED BY <1>5, <1>7, <1>8, <1>9, <1>10

\* A step that only moves ranks between states after their sends.
LEMMA QuietStep ==
  ASSUME IInv, TypeOK', (pc \in [Ranks -> States])',
         UNCHANGED <<targets, requesters, pending, gathers>>,
         \A p \in Ranks : (pc'[p] = "gather") = (pc[p] = "gather"),
         \A p \in Ranks : (pc'[p] = "sends") => (pc[p] = "sends"),
         \A p, q \in Ranks : <<p, q>> \in pending => pc'[p] = pc[p],
         Signalled', Consensus'
  PROVE  IInv'
<1> USE DEF IInv
<1>1. \A q \in Ranks : Held(q)' = Held(q)
  BY DEF Held
<1>2. InStep' /\ KnowsReceived' /\ EarlyWaits'
  BY <1>1 DEF InStep, KnowsReceived, EarlyWaits
<1>3. PendingFromSenders'
  BY DEF PendingFromSenders, TypeOK
<1>4. QED BY <1>2, <1>3

LEMMA SendsReceivedIInv ==
  ASSUME IInv, NEW r \in Ranks, SendsReceived(r)
  PROVE  IInv'
<1> USE DEF IInv, SendsReceived
<1>1. TypeOK' /\ (pc \in [Ranks -> States])'
  BY DEF TypeOK, States
<1>2. Signalled'
  BY DEF Signalled, TypeOK
<1>3. Consensus'
  <2>1. \A q \in Ranks : barriers'[q] >= barriers[q] /\ barriers[q] \in Nat
    BY DEF TypeOK
  <2>2. \A p \in Ranks : Returned(p)' => Returned(p) /\ barriers'[p] = barriers[p]
    BY DEF Returned, TypeOK
  <2>3. QED BY <2>1, <2>2 DEF Consensus, TypeOK
<1>4. \A p, q \in Ranks : <<p, q>> \in pending => pc'[p] = pc[p]
  BY DEF TypeOK
<1>5. \A p \in Ranks : /\ (pc'[p] = "gather") = (pc[p] = "gather")
                       /\ pc'[p] = "sends" => pc[p] = "sends"
  BY DEF TypeOK
<1>6. QED BY <1>1, <1>2, <1>3, <1>4, <1>5, QuietStep

\* The other moves after the sends.
LEMMA AfterSendsIInv ==
  ASSUME IInv, NEW r \in Ranks,
         BarrierCompletes(r) \/ Finish(r) \/ LeaveTrailing(r)
  PROVE  IInv'
<1> USE DEF IInv
<1>1. /\ pc[r] \in {"barrier", "finish", "trailing"}
      /\ pc' \in {[pc EXCEPT ![r] = "finish"], [pc EXCEPT ![r] = "trailing"],
                  [pc EXCEPT ![r] = "idle"]}
      /\ UNCHANGED <<targets, requesters, pending, receiving, last, gathers, barriers>>
      /\ trailing' \in {trailing, [trailing EXCEPT ![r] = @ + 1]}
      /\ pc[r] = "barrier" => \A q \in Ranks : barriers[q] >= barriers[r]
  BY DEF BarrierCompletes, Finish, LeaveTrailing, AllAtLeast
<1>2. /\ pc'[r] \in {"finish", "trailing", "idle"}
      /\ \A p \in Ranks : p # r => pc'[p] = pc[p]
  BY <1>1 DEF TypeOK
<1>3. TypeOK' /\ (pc \in [Ranks -> States])'
  BY <1>1 DEF TypeOK, States
<1>4. Signalled'
  BY <1>1, <1>2 DEF Signalled
<1>5. Consensus'
  <2> SUFFICES ASSUME NEW p \in Ranks, NEW q \in Ranks, Returned(p)'
               PROVE  barriers[q] >= barriers[p]
    BY <1>1 DEF Consensus
  <2>1. CASE p = r
    BY <1>1, <2>1 DEF Consensus, Returned
  <2>2. CASE p # r
    BY <1>2, <2>2 DEF Consensus, Returned
  <2>3. QED BY <2>1, <2>2
<1>6. \A p, q \in Ranks : <<p, q>> \in pending => pc'[p] = pc[p]
  BY <1>1, <1>2 DEF PendingFromSenders
<1>7. \A p \in Ranks : /\ (pc'[p] = "gather") = (pc[p] = "gather")
                       /\ pc'[p] = "sends" => pc[p] = "sends"
  BY <1>1, <1>2
<1>8. QED BY <1>1, <1>3, <1>4, <1>5, <1>6, <1>7, QuietStep

LEMMA StutterIInv ==
  ASSUME IInv,
         UNCHANGED vars \/ \E r \in Ranks : DataArrives(r)
  PROVE  IInv'
<1> USE DEF IInv
<1>1. /\ UNCHANGED <<pc, targets, requesters, pending, last, gathers, barriers, trailing>>
      /\ receiving' \in [Ranks -> SUBSET Ranks]
  BY DEF vars, DataArrives, TypeOK
<1>2. TypeOK' /\ (pc \in [Ranks -> States])'
  BY <1>1 DEF TypeOK
<1>3. Signalled' /\ Consensus'
  BY <1>1 DEF Signalled, Consensus, Returned
<1>4. QED BY <1>1, <1>2, <1>3, QuietStep

LEMMA Inductive == Spec => []IInv
<1>1. IInv /\ [Next]_vars => IInv'
  BY EnterGatherIInv, StartIInv, ProbeIInv, SendsReceivedIInv, AfterSendsIInv,
     StutterIInv DEF Next, Rank, Finished
<1>2. QED BY InitIInv, <1>1, PTL DEF Spec

\* Every variable keeps its type.
THEOREM TypeCorrect == Spec => []TypeOK
<1>1. IInv => TypeOK
  BY DEF IInv
<1>2. QED BY Inductive, <1>1, PTL

\* Nobody misses a requester or invents one, in either build.  The argument is
\* the consensus: a rank returns when everybody has signalled, so whoever sent
\* in this exchange has been received, and the Allgatherv keeps everybody else
\* from having begun the next.
THEOREM RequestersCorrect == Spec => []RequestersExact
<1>1. IInv => RequestersExact
  <2> SUFFICES ASSUME IInv, NEW p \in Ranks, Returned(p), NEW q \in Ranks
               PROVE  q \in requesters[p] <=> p \in targets[q]
    BY DEF RequestersExact, IInv, TypeOK
  <2> USE DEF IInv
  <2>1. /\ gathers[p] \in Nat /\ gathers[q] \in Nat
        /\ barriers[p] = gathers[p] /\ barriers[q] >= gathers[p]
        /\ gathers[p] >= Held(q)
    BY DEF Returned, Signalled, Consensus, InStep, TypeOK
  <2>2. pc[q] # "sends" /\ Held(q) = gathers[p]
    BY <2>1 DEF Signalled, Held
  <2>3. <<q, p>> \notin pending
    BY <2>2 DEF PendingFromSenders
  <2>4. pc[p] # "gather"
    BY DEF Returned
  <2>5. QED BY <2>2, <2>3, <2>4 DEF KnowsReceived
<1>2. QED BY Inductive, <1>1, PTL

\* The exception for a second message of one source is never thrown.
THEOREM NoSecondMessageCorrect == Spec => []NoSecondMessage
<1>1. IInv => NoSecondMessage
  BY DEF IInv, States, NoSecondMessage
<1>2. QED BY Inductive, <1>1, PTL
=============================================================================
