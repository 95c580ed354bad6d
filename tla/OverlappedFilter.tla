-------------------------- MODULE OverlappedFilter --------------------------
(***************************************************************************)
(* The Chebyshev filter on two blocks of wavefunctions, with the ghost     *)
(* exchange of one block overlapped by the computation on the other        *)
(* (chebyshevFilterOverlapComputeCommunication and its reformulated form), *)
(* on top of MPICommunicatorP2P.                                           *)
(*                                                                         *)
(* Every rank runs the same straight-line program.  Its vectors have an    *)
(* owned entry and a ghost entry per neighbour; the exchange of a vector   *)
(* is begun and ended by separate calls, and all vectors use one MPI       *)
(* communicator, one tag for updates and one for accumulations.  MPI       *)
(* transfers a message at any time between the two calls, out of the       *)
(* sender's buffer, or earlier, out of a copy of it.                       *)
(*                                                                         *)
(* The value of an entry is the filter degree it belongs to and the ranks  *)
(* whose contributions it has.                                             *)
(***************************************************************************)
EXTENDS Integers, SequencesExt

CONSTANTS
  Ranks,
  Ghosts,     \* per rank, the ranks that own its ghost entries
  Order,      \* the order of the Chebyshev polynomial, 2 or more
  Variants,   \* the forms of the filter to explore: "plain", "reformulated"
  MaxCalls    \* bound: filter calls one after the other

ASSUME ConstantsOK ==
  /\ Ghosts \in [Ranks -> SUBSET Ranks]
  /\ \A p \in Ranks : p \notin Ghosts[p]
  /\ Order \in Nat /\ Order >= 2 /\ MaxCalls \in Nat
  /\ Variants \subseteq {"plain", "reformulated"}

Blocks == {1, 2}
Targets(p) == {q \in Ranks : p \in Ghosts[q]}
\* The ranks that contribute to an entry of p.
Shares(p) == {p} \cup Targets(p)

\* Two vectors per block, X and Y in one order or the other, and the
\* projections of the nonlocal pseudopotential, which both blocks use.
Projections == <<0, "projections">>
Stores == (Blocks \X {"a", "b"}) \cup {Projections}

VARIABLES
  variant,   \* the form of the filter
  call,      \* filter calls each rank has begun
  pc,        \* its position in the program, 0 between calls
  degree,    \* its loop variable, the degree block 1 goes to next or went to last
  own,       \* own[p][s]: the owned entry of p
  ghost,     \* ghost[p][s][q]: its copy of, or contribution to, an entry of q
  buf,       \* buf[p][s][q]: d_sendRecvBuffer, the part for target q
  cells,     \* d_cellWaveFunctionMatrixSrc with the projections made of it
  swapped,   \* swapped[p][b]: X is vector "b"
  msgs,      \* sends posted and not yet received, per link and in order
  recvs      \* receives posted and not yet filled, per link and in order

data == <<own, ghost, buf, cells>>
wires == <<msgs, recvs>>
vars == <<variant, call, pc, degree, data, swapped, wires>>

(***************************************************************************)
(* Values.                                                                 *)
(***************************************************************************)
Value(b, c, k, ranks) == [block |-> b, call |-> c, deg |-> k, parts |-> ranks]
Zero    == Value(0, 0, 0, {})
Garbage == Value(0, 0, -1, {})

\* Contributions to one entry: to the same value, each from ranks of its own.
SumOf(vs) ==
  LET there == {i \in DOMAIN vs : vs[i] # Zero}
      one == vs[CHOOSE i \in there : TRUE] IN
  IF there = {} THEN Zero
  ELSE IF \A i, j \in there : /\ [vs[i] EXCEPT !.parts = {}] = [vs[j] EXCEPT !.parts = {}]
                             /\ i # j => vs[i].parts \cap vs[j].parts = {}
       THEN [one EXCEPT !.parts = UNION {vs[i].parts : i \in there}] ELSE Garbage

X(p, b) == <<b, IF swapped[p][b] THEN "b" ELSE "a">>
Y(p, b) == <<b, IF swapped[p][b] THEN "a" ELSE "b">>

\* The owned entry is complete and every ghost entry is a copy of its owner's.
Coherent(p, s) ==
  /\ own[p][s].parts = Shares(p)
  /\ \A q \in Ghosts[p] : ghost[p][s][q] = [own[p][s] EXCEPT !.parts = Shares(q)]

(***************************************************************************)
(* The program: calls <<what, block>>.                                     *)
(***************************************************************************)
Gather(b)  == <<<<"gather", b>>>>        \* HXCheby without skip1
Project(b) == <<<<"projectBegin", b>>, <<"projectScale", b>>, <<"projectEnd", b>>>>  \* without skip2
Multiply(b) == <<<<"multiply", b>>>>     \* without skip3
UpdateBegin(b) == <<<<"updateBegin", b>>>>
UpdateEnd(b) == <<<<"updateEnd", b>>>>
AddBegin(b) == <<<<"addBegin", b>>>>
AddEndSwap(b) == <<<<"addEnd", b>>>>     \* with zeroOutGhosts and swap

\* The half of a degree that finishes block 1 under the exchange of block 2.
OtherHalf ==
  Project(1) \o UpdateBegin(2) \o Multiply(1) \o UpdateEnd(2)
  \o AddBegin(1) \o Gather(2) \o AddEndSwap(1)

OneDegree ==
  Project(2) \o UpdateBegin(1) \o Multiply(2) \o UpdateEnd(1)
  \o AddBegin(2) \o Gather(1) \o AddEndSwap(2) \o OtherHalf

LastOfBlock2 == Project(2) \o Multiply(2) \o AddBegin(2) \o AddEndSwap(2)

\* What comes before the loop over the degrees, or is its first pass.
PlainStart ==
  UpdateBegin(1) \o UpdateEnd(1) \o Gather(1) \o Project(1) \o Multiply(1)
  \o AddBegin(1) \o AddEndSwap(1) \o UpdateBegin(2) \o UpdateEnd(2) \o Gather(2)

ReformulatedStart ==
  UpdateBegin(1) \o UpdateEnd(1) \o Gather(1) \o OtherHalf

starts == [v \in Variants |-> IF v = "plain" THEN PlainStart ELSE ReformulatedStart]
programs == [v \in Variants |-> starts[v] \o OneDegree \o LastOfBlock2]
Length == Len(programs[variant])
LoopStart == Len(starts[variant]) + 1
LoopEnd == LoopStart + Len(OneDegree) - 1

\* The degree of the vectors the program starts with.
First == IF variant = "plain" THEN 0 ELSE 1

Doing(p, what) == pc[p] \in 1..Length /\ programs[variant][pc[p]][1] = what
Block(p) == programs[variant][pc[p]][2]

\* Mutant of MoreDegrees: the loop runs to m + 1.
MoreDegreesOneMore(p) == degree[p] <= Order

\* The condition of the loop, before its first pass and after every pass.
MoreDegrees(p) == degree[p] < Order
AtCondition(p) == pc[p] \in {LoopStart - 1, LoopEnd}

Proceeds(p) ==
  /\ \/ ~AtCondition(p) /\ pc' = [pc EXCEPT ![p] = @ + 1] /\ UNCHANGED degree
     \/ /\ AtCondition(p) /\ MoreDegrees(p)
        /\ pc' = [pc EXCEPT ![p] = LoopStart] /\ degree' = [degree EXCEPT ![p] = @ + 1]
     \/ /\ AtCondition(p) /\ ~MoreDegrees(p)
        /\ pc' = [pc EXCEPT ![p] = LoopEnd + 1] /\ UNCHANGED degree
  /\ UNCHANGED <<variant, call>>

-----------------------------------------------------------------------------
Links == {<<p, q, tag>> : p \in Ranks, q \in Ranks, tag \in {"scatter", "gather"}}

Init ==
  /\ variant \in Variants
  /\ call = [p \in Ranks |-> 0] /\ pc = [p \in Ranks |-> 0]
  /\ degree = [p \in Ranks |-> 0]
  /\ own = [p \in Ranks |-> [s \in Stores |-> Zero]]
  /\ ghost = [p \in Ranks |-> [s \in Stores |-> [q \in Ghosts[p] |-> Zero]]]
  /\ buf = [p \in Ranks |-> [s \in Stores |-> [q \in Targets(p) |-> Zero]]]
  /\ cells = [p \in Ranks |-> Zero]
  /\ swapped = [p \in Ranks |-> [b \in Blocks |-> FALSE]]
  /\ msgs = [l \in Links |-> <<>>] /\ recvs = [l \in Links |-> <<>>]

\* A call of the filter: Y is made of the owned entries of X, and its ghosts
\* (in the reformulated form those of X) are set to zero with it.
Begin(p) ==
  /\ pc[p] = 0 /\ call[p] < MaxCalls
  /\ call' = [call EXCEPT ![p] = @ + 1]
  /\ pc' = [pc EXCEPT ![p] = 1] /\ degree' = [degree EXCEPT ![p] = First + 1]
  /\ own' = [own EXCEPT ![p] = [s \in Stores |->
        IF \E b \in Blocks : s = Y(p, b) THEN Value(s[1], call'[p], First, Shares(p))
        ELSE IF variant = "reformulated" /\ s # Projections THEN Zero ELSE @[s]]]
  /\ ghost' = [ghost EXCEPT ![p] = [s \in Stores |->
        IF \E b \in Blocks : s = (IF variant = "plain" THEN Y(p, b) ELSE X(p, b))
        THEN [q \in Ghosts[p] |-> Zero] ELSE @[s]]]
  /\ UNCHANGED <<variant, buf, cells, swapped, wires>>

\* The filtered block is copied out.
Return(p) ==
  /\ pc[p] = Length + 1
  /\ pc' = [pc EXCEPT ![p] = 0]
  /\ UNCHANGED <<variant, call, degree, data, swapped, wires>>

(***************************************************************************)
(* MPICommunicatorP2P.  Begin posts the receives, fills the send buffer    *)
(* and posts the sends; End waits for its own requests only.               *)
(***************************************************************************)
Posted(s) == [store |-> s, copy |-> <<>>]

\* Messages sent by p on the links in out, receives posted by p on those in in.
Posts(s, out, in) ==
  /\ msgs' = [l \in Links |-> IF l \in out THEN Append(msgs[l], Posted(s)) ELSE msgs[l]]
  /\ recvs' = [l \in Links |-> IF l \in in THEN Append(recvs[l], s) ELSE recvs[l]]

\* Mutant of PostsUpdate: receives are posted from the targets.
PostsUpdateFromTargets(p, s) ==
  Posts(s, {<<p, q, "scatter">> : q \in Targets(p)}, {<<q, p, "scatter">> : q \in Targets(p)})

PostsUpdate(p, s) ==
  Posts(s, {<<p, q, "scatter">> : q \in Targets(p)}, {<<q, p, "scatter">> : q \in Ghosts[p]})
PostsAdd(p, s) ==
  Posts(s, {<<p, q, "gather">> : q \in Ghosts[p]}, {<<q, p, "gather">> : q \in Targets(p)})

\* Mutant of Waited: the requests of the sends are not waited for.
WaitedForReceives(p, s, tag) ==
  \A l \in Links : l[3] = tag /\ l[2] = p => ~Contains(recvs[l], s)

\* MPI_Waitall over the requests of one kind of exchange of vector s.
Waited(p, s, tag) ==
  \A l \in Links : l[3] = tag =>
    /\ l[2] = p => ~Contains(recvs[l], s)
    /\ l[1] = p => ~Contains(msgs[l], Posted(s))

SendBuffer(p, s) == [q \in Targets(p) |-> own[p][s]]

UpdateGhostValuesBegin(p) ==
  /\ Doing(p, "updateBegin")
  /\ buf' = [buf EXCEPT ![p][Y(p, Block(p))] = SendBuffer(p, Y(p, Block(p)))]
  /\ PostsUpdate(p, Y(p, Block(p)))
  /\ Proceeds(p) /\ UNCHANGED <<own, ghost, cells, swapped>>

UpdateGhostValuesEnd(p) ==
  /\ Doing(p, "updateEnd") /\ Waited(p, Y(p, Block(p)), "scatter")
  /\ Proceeds(p) /\ UNCHANGED <<data, swapped, wires>>

AccumulateAddBegin(p) ==
  /\ Doing(p, "addBegin")
  /\ PostsAdd(p, X(p, Block(p)))
  /\ Proceeds(p) /\ UNCHANGED <<data, swapped>>

Accumulated(p, s) == SumOf([q \in Shares(p) |-> IF q = p THEN own[p][s] ELSE buf[p][s][q]])

\* Mutant of ZeroOutGhosts: the ghosts keep the contributions already sent.
ZeroOutGhostsNot(p, s) == ghost[p][s]

ZeroOutGhosts(p, s) == [q \in Ghosts[p] |-> Zero]

\* accumulateAddLocallyOwnedEnd, zeroOutGhosts, and X becomes Y.
AccumulateAddEnd(p) == LET b == Block(p) s == X(p, b) IN
  /\ Doing(p, "addEnd") /\ Waited(p, s, "gather")
  /\ own' = [own EXCEPT ![p][s] = Accumulated(p, s)]
  /\ ghost' = [ghost EXCEPT ![p][s] = ZeroOutGhosts(p, s)]
  /\ swapped' = [swapped EXCEPT ![p][b] = ~@]
  /\ Proceeds(p) /\ UNCHANGED <<buf, cells, wires>>

(***************************************************************************)
(* HXCheby, in the three parts that skip1, skip2 and skip3 leave out.      *)
(***************************************************************************)
\* Cell values of the source, owned and ghost entries alike, with their
\* projections.
GatherCells(p) == LET s == Y(p, Block(p)) IN
  /\ Doing(p, "gather")
  /\ cells' = [cells EXCEPT ![p] =
        IF Coherent(p, s) THEN [own[p][s] EXCEPT !.parts = {p}] ELSE Garbage]
  /\ Proceeds(p) /\ UNCHANGED <<own, ghost, buf, swapped, wires>>

\* The projections are this rank's contributions; their accumulation begins.
ProjectBegin(p) == LET s == Y(p, Block(p)) IN
  /\ Doing(p, "projectBegin")
  /\ own' = [own EXCEPT ![p][Projections] = cells[p]]
  /\ ghost' = [ghost EXCEPT ![p] = [@ EXCEPT ![Projections] = [q \in Ghosts[p] |-> cells[p]],
                                             ![s] = ZeroOutGhosts(p, s)]]
  /\ PostsAdd(p, Projections)
  /\ Proceeds(p) /\ UNCHANGED <<buf, cells, swapped>>

\* X := scalarX Y + scalarY X; scalarY is 0 for the first degree.
Scaled(p, b) == LET x == own[p][X(p, b)] y == own[p][Y(p, b)] IN
  IF y.parts = Shares(p) /\ (y.deg = First \/ x = [y EXCEPT !.deg = @ - 1])
  THEN [y EXCEPT !.deg = @ + 1, !.parts = {}] ELSE Garbage

\* The accumulation ends, the update begins, and X is scaled meanwhile.
ProjectScale(p) == LET total == Accumulated(p, Projections) IN
  /\ Doing(p, "projectScale") /\ Waited(p, Projections, "gather")
  /\ own' = [own EXCEPT ![p] = [@ EXCEPT ![Projections] = total,
                                         ![X(p, Block(p))] = Scaled(p, Block(p))]]
  /\ buf' = [buf EXCEPT ![p][Projections] = [q \in Targets(p) |-> total]]
  /\ PostsUpdate(p, Projections)
  /\ Proceeds(p) /\ UNCHANGED <<ghost, cells, swapped>>

\* The coupling is applied to the complete projections.
ProjectEnd(p) ==
  /\ Doing(p, "projectEnd") /\ Waited(p, Projections, "scatter")
  /\ cells' = [cells EXCEPT ![p] =
        IF Coherent(p, Projections) /\ own[p][Projections] = [@ EXCEPT !.parts = Shares(p)]
        THEN @ ELSE Garbage]
  /\ Proceeds(p) /\ UNCHANGED <<own, ghost, buf, swapped, wires>>

\* The cell matrices add to owned and ghost entries of X.
MultiplyCells(p) == LET s == X(p, Block(p))
                        x == own[p][s]
                        c == [cells[p] EXCEPT !.deg = @ + 1]
                        part == IF [x EXCEPT !.parts = {p}] = c THEN c ELSE Garbage IN
  /\ Doing(p, "multiply")
  /\ own' = [own EXCEPT ![p][s] = SumOf(<<x, part>>)]
  /\ ghost' = [ghost EXCEPT ![p][s] = [q \in Ghosts[p] |-> SumOf(<<@[q], part>>)]]
  /\ Proceeds(p) /\ UNCHANGED <<buf, cells, swapped, wires>>

Rank(p) ==
  \/ Begin(p) \/ Return(p)
  \/ UpdateGhostValuesBegin(p) \/ UpdateGhostValuesEnd(p)
  \/ AccumulateAddBegin(p) \/ AccumulateAddEnd(p)
  \/ GatherCells(p) \/ ProjectBegin(p) \/ ProjectScale(p) \/ ProjectEnd(p)
  \/ MultiplyCells(p)

(***************************************************************************)
(* MPI: the messages of a link are received in the order they were sent.   *)
(***************************************************************************)
SendContent(l, s) == IF l[3] = "scatter" THEN buf[l[1]][s][l[2]] ELSE ghost[l[1]][s][l[2]]

\* A message is copied out of the sender's buffer before it is received.
Copied(l) == \E i \in DOMAIN msgs[l] :
  /\ msgs[l][i].copy = <<>>
  /\ msgs' = [msgs EXCEPT ![l][i].copy = <<SendContent(l, msgs[l][i].store)>>]
  /\ UNCHANGED <<variant, call, pc, degree, data, swapped, recvs>>

\* Mutant of Received: messages of a link may overtake each other.
ReceivedLast(l) ==
  /\ msgs[l] # <<>> /\ recvs[l] # <<>>
  /\ LET m == Last(msgs[l])
         v == IF m.copy = <<>> THEN SendContent(l, m.store) ELSE m.copy[1]
         s == Head(recvs[l]) IN
     IF l[3] = "scatter"
     THEN ghost' = [ghost EXCEPT ![l[2]][s][l[1]] = v] /\ UNCHANGED buf
     ELSE buf' = [buf EXCEPT ![l[2]][s][l[1]] = v] /\ UNCHANGED ghost
  /\ msgs' = [msgs EXCEPT ![l] = Front(@)]
  /\ recvs' = [recvs EXCEPT ![l] = Tail(@)]
  /\ UNCHANGED <<variant, call, pc, degree, own, cells, swapped>>

Received(l) ==
  /\ msgs[l] # <<>> /\ recvs[l] # <<>>
  /\ LET m == Head(msgs[l])
         v == IF m.copy = <<>> THEN SendContent(l, m.store) ELSE m.copy[1]
         s == Head(recvs[l]) IN
     IF l[3] = "scatter"
     THEN ghost' = [ghost EXCEPT ![l[2]][s][l[1]] = v] /\ UNCHANGED buf
     ELSE buf' = [buf EXCEPT ![l[2]][s][l[1]] = v] /\ UNCHANGED ghost
  /\ msgs' = [msgs EXCEPT ![l] = Tail(@)]
  /\ recvs' = [recvs EXCEPT ![l] = Tail(@)]
  /\ UNCHANGED <<variant, call, pc, degree, own, cells, swapped>>

Next ==
  \/ \E p \in Ranks : Rank(p)
  \/ \E l \in Links : Copied(l) \/ Received(l)

\* Every rank runs its program and MPI transfers what both sides have posted;
\* it need not copy anything early.
Spec ==
  /\ Init /\ [][Next]_vars
  /\ \A p \in Ranks : WF_vars(Rank(p))
  /\ \A l \in Links : WF_vars(Received(l))
-----------------------------------------------------------------------------
Values == {Zero, Garbage} \cup
  {Value(b, c, k, ranks) : b \in Blocks, c \in 1..MaxCalls, k \in 0..Order, ranks \in SUBSET Ranks}

TypeOK ==
  /\ call \in [Ranks -> 0..MaxCalls] /\ pc \in [Ranks -> 0..Length + 1]
  /\ degree \in [Ranks -> 0..Order]
  /\ \A p \in Ranks, s \in Stores :
       /\ own[p][s] \in Values
       /\ \A q \in Ghosts[p] : ghost[p][s][q] \in Values
       /\ \A q \in Targets(p) : buf[p][s][q] \in Values
  /\ cells \in [Ranks -> Values]
  /\ \A l \in Links : msgs[l] # <<>> => l[2] \in Targets(l[1]) \cup Ghosts[l[1]]

\* However the messages are delayed and however far one rank is ahead, the
\* filter returns the polynomial of full order on both blocks, with the
\* contributions of every neighbour, and leaves no ghost entry for the next call.
FilterExact ==
  \A p \in Ranks : pc[p] = Length + 1 =>
    \A b \in Blocks :
      /\ own[p][Y(p, b)] = Value(b, call[p], Order, Shares(p))
      /\ \A q \in Ghosts[p] : ghost[p][X(p, b)][q] = Zero /\ ghost[p][Y(p, b)][q] = Zero

\* What MPI asks of its callers: between posting a request and its completion
\* the program leaves the buffer alone.
Contents(l, s) ==
  /\ Contains(msgs[l], Posted(s)) /\ Contains(msgs[l], Posted(s))'
       => SendContent(l, s)' = SendContent(l, s)
  /\ Contains(recvs[l], s) /\ Contains(recvs[l], s)'
       => IF l[3] = "scatter" THEN ghost[l[2]][s][l[1]]' = ghost[l[2]][s][l[1]]
                              ELSE buf[l[2]][s][l[1]]' = buf[l[2]][s][l[1]]
BuffersLeftAlone == [][\A l \in Links, s \in Stores : Contents(l, s)]_vars

\* The overlapped program filters its blocks degree by degree as BlockFilter
\* says, and once begun a block is filtered to the end.
Filter == INSTANCE BlockFilter WITH
  Neighbours <- [p \in Ranks |-> Ghosts[p] \cup Targets(p)],
  first <- First, turn <- call,
  deg <- [p \in Ranks |-> [b \in Blocks |->
            IF call[p] = 0 THEN Order ELSE own[p][Y(p, b)].deg]]
IsBlockFilter == Filter!Spec

\* No rank waits forever: all filter calls return on all ranks.
FiltersReturn == <>(\A p \in Ranks : pc[p] = 0 /\ call[p] = MaxCalls)
=============================================================================
