---------------------------- MODULE PointTransfer ----------------------------
(***************************************************************************)
(* Values of a field at arbitrary points: InterpolateCellWiseDataToPoints. *)
(* Every rank owns cells of one mesh and asks for points of another.       *)
(* MapPointsToCells looks for a rank's points in its own cells, sends the  *)
(* rest to every rank whose bounding box they are in, and makes ghosts of  *)
(* the received points a rank finds in its cells.  A pattern (PatternP2P)  *)
(* of those ghosts then carries the values a rank computes for other       *)
(* ranks' points back to them.                                             *)
(*                                                                         *)
(* The points are numbered as getLocallyOwnedRange numbers them, rank by   *)
(* rank; a point's coordinates are its number, carried by a message of     *)
(* their own.  A value is the point it was computed for, the rank that     *)
(* computed it and the number of that rank's call; zero is no value.       *)
(***************************************************************************)
EXTENDS PatternP2P

CONSTANTS
  GatherTag,   \* MPI_P2P_COMMUNICATOR_GATHER_TAG
  MaxCalls     \* bound: calls of interpolateSrcDataToTargetPoints

ASSUME TransferOK == GatherTag \in Nat /\ MaxCalls \in Nat

VARIABLES
  numPoints,   \* the target points each rank asks for
  inside,      \* the ranks with a cell that contains each point
  boxed,       \* the ranks whose bounding box does
  sendTo,      \* sendToProcIds with sendToPointsGlobalIds
  heard,       \* receiveFromProcIds with the global ids received
  found,       \* mapCellLocalToProcLocal: points computed here, with their place
  values,      \* outputData
  calls        \* calls made so far; the first is checkIfAllPointsAreFound

mapping == <<numPoints, inside, boxed, sendTo, heard, found>>
transferVars == <<mapping, values, calls>>
vars == <<patternVars, transferVars>>

NumPoints == SumFunction(numPoints)
Points == 0..(NumPoints - 1)
\* getLocallyOwnedRange: after an MPI_Allreduce of the numbers of points.
RangesOf(counts) ==
  LET Before(r) == SumFunctionOnSet(counts, 0..(r - 1)) IN
  [r \in Ranks |-> <<Before(r), Before(r) + counts[r]>>]

\* The points a rank asks for are in whichever cells they are in, and the bounding
\* box of a rank's cells holds the points in its cells.
Init ==
  /\ numPoints \in [Ranks -> Nat]
  /\ inside \in [Points -> SUBSET Ranks]
  /\ boxed \in [Points -> SUBSET Ranks]
  /\ \A g \in Points : inside[g] \subseteq boxed[g]
  /\ owned = RangesOf(numPoints)
  /\ ghosts = [r \in Ranks |-> <<>>]
  /\ pc = [r \in Ranks |-> "search"]
  /\ threw = {}
  /\ NoPattern /\ NoMessages
  /\ sendTo = [r \in Ranks |-> EmptyMap]
  /\ heard = [r \in Ranks |-> EmptyMap]
  /\ found = [r \in Ranks |-> {}]
  /\ values = [r \in Ranks |-> <<>>]
  /\ calls = [r \in Ranks |-> 0]
-----------------------------------------------------------------------------
(***************************************************************************)
(* MapPointsToCells::init.                                                 *)
(***************************************************************************)
Mine(r) == {g \in Points : Owns(owned, r, g)}
Lost(r) == {g \in Mine(r) : r \notin inside[g]}
SentTo(r, p) == Sorted({g \in Lost(r) : p \in boxed[g]})

\* The rank's own points are looked for in its cells; then the others are sorted
\* by bounding box, and the exchange of requesters begins.
Search(r) ==
  /\ At(r, "search")
  /\ found' = [found EXCEPT ![r] =
                 {[point |-> g, place |-> g - owned[r][1]] : g \in Mine(r) \ Lost(r)}]
  /\ sendTo' = [sendTo EXCEPT ![r] =
                  [p \in {q \in Ranks \ {r} : SentTo(r, q) # <<>>} |-> SentTo(r, p)]]
  /\ Goes(r, "consensus")
  /\ UNCHANGED <<owned, ghosts, threw, pattern, chan>>
  /\ UNCHANGED <<numPoints, inside, boxed, heard, values, calls>>

\* Mutant of LearnSenders: the numbers are sent without the two reductions.
LearnSendersUnreduced(r) ==
  /\ At(r, "consensus") /\ AllIn("consensus")
  /\ heard' = [heard EXCEPT ![r] = [q \in Requesters(r, sendTo) |-> <<>>]]
  /\ chan' = Send(chan, r, [p \in DOMAIN sendTo[r] |-> <<Len(sendTo[r][p])>>], LAMBDA q : q)
  /\ Goes(r, "numbers")
  /\ UNCHANGED <<owned, ghosts, threw, pattern>>
  /\ UNCHANGED <<numPoints, inside, boxed, sendTo, found, values, calls>>

\* getRequestingRankIds ends; the largest numbers of ranks are reduced, for output.
LearnSenders(r) ==
  /\ At(r, "consensus") /\ AllIn("consensus")
  /\ heard' = [heard EXCEPT ![r] = [q \in Requesters(r, sendTo) |-> <<>>]]
  /\ Goes(r, "reduce")
  /\ UNCHANGED <<owned, ghosts, threw, pattern, chan>>
  /\ UNCHANGED <<numPoints, inside, boxed, sendTo, found, values, calls>>

\* Mutant of SendNumbers: the numbers are sent with the tag of the ids.
SendNumbersAsIds(r) ==
  /\ At(r, "reduce") /\ AllIn("reduce")
  /\ chan' = Send(chan, r, [p \in DOMAIN sendTo[r] |-> <<Len(sendTo[r][p])>>],
                  LAMBDA q : PatternTag)
  /\ Goes(r, "numbers")
  /\ UNCHANGED <<owned, ghosts, threw, pattern, transferVars>>

\* The number of points for each rank, with that rank's number as the tag.
SendNumbers(r) ==
  /\ At(r, "reduce") /\ AllIn("reduce")
  /\ chan' = Send(chan, r, [p \in DOMAIN sendTo[r] |-> <<Len(sendTo[r][p])>>], LAMBDA q : q)
  /\ Goes(r, "numbers")
  /\ UNCHANGED <<owned, ghosts, threw, pattern, transferVars>>

SendIds(r) ==
  LET froms == DOMAIN heard[r] IN
  /\ At(r, "numbers") /\ Arrived(r, froms, r)
  /\ chan' = Send(Taken(r, froms, r), r, sendTo[r], LAMBDA q : PatternTag)
  /\ Goes(r, "ids")
  /\ UNCHANGED <<owned, ghosts, threw, pattern, transferVars>>

SendCoordinates(r) ==
  LET froms == DOMAIN heard[r] IN
  /\ At(r, "ids") /\ Arrived(r, froms, PatternTag)
  /\ heard' = [heard EXCEPT ![r] = [q \in froms |-> Received(r, q, PatternTag)]]
  /\ chan' = Send(Taken(r, froms, PatternTag), r, sendTo[r], LAMBDA q : PatternTag)
  /\ Goes(r, "coords")
  /\ UNCHANGED <<owned, ghosts, threw, pattern>>
  /\ UNCHANGED <<numPoints, inside, boxed, sendTo, found, values, calls>>

\* The received points that r's cells contain, with the ids received for them.
Hits(r) ==
  {[from |-> h[1], nth |-> h[2], id |-> heard[r][h[1]][h[2]],
    point |-> Received(r, h[1], PatternTag)[h[2]]] :
     h \in {k \in (DOMAIN heard[r]) \X (1..NumPoints) :
              /\ k[2] \in DOMAIN heard[r][k[1]]
              /\ r \in inside[Received(r, k[1], PatternTag)[k[2]]]}}

\* Mutant of GhostPlaces: a ghost is placed in the order it was received in.
GhostPlacesInOrder(r, hits) ==
  LET Earlier(h) == {k \in hits : k.from < h.from \/ (k.from = h.from /\ k.nth > h.nth)} IN
  {[point |-> h.point, place |-> numPoints[r] + Cardinality(Earlier(h))] : h \in hits}

\* A ghost is placed behind the rank's own points, where the sorted ids have it.
GhostPlaces(r, hits) ==
  UNION {{[point |-> h.point, place |-> numPoints[r] + p] :
            p \in Position({k.id : k \in hits}, h.id)} : h \in hits}

\* The points received are looked for in the cells; those found become ghosts.
Locate(r) ==
  LET froms == DOMAIN heard[r]  hits == Hits(r) IN
  /\ At(r, "coords") /\ Arrived(r, froms, PatternTag)
  /\ ghosts' = [ghosts EXCEPT ![r] = Sorted({h.id : h \in hits})]
  /\ found' = [found EXCEPT ![r] = @ \cup GhostPlaces(r, hits)]
  /\ chan' = Taken(r, froms, PatternTag)
  /\ Goes(r, "found")
  /\ UNCHANGED <<owned, threw, pattern>>
  /\ UNCHANGED <<numPoints, inside, boxed, sendTo, heard, values, calls>>

\* MPI_Barrier; the constructor of the pattern begins.
MakePattern(r) ==
  /\ At(r, "found") /\ AllIn("found")
  /\ Goes(r, "gather")
  /\ UNCHANGED <<owned, ghosts, threw, pattern, chan, transferVars>>
-----------------------------------------------------------------------------
(***************************************************************************)
(* A call: values at the points found, then accumulateInsertLocallyOwned.  *)
(***************************************************************************)
NoValue == [point |-> NumPoints, by |-> NumRanks, call |-> 0]
Computed(r, n) ==
  [l \in 1..(numPoints[r] + Len(ghosts[r])) |->
     LET here == {f \in found[r] : f.place = l - 1} IN
     IF here = {} THEN NoValue
                  ELSE [point |-> (CHOOSE f \in here : TRUE).point, by |-> r, call |-> n]]

\* The part of the ghosts that rank p owns, behind the rank's own points.
GhostValues(r, p, all) ==
  [i \in 1..Size(ghostRange[r][p]) |-> all[numPoints[r] + ghostRange[r][p][1] + i]]

Computes(r, next) ==
  LET all == Computed(r, calls[r] + 1) IN
  /\ values' = [values EXCEPT ![r] = all]
  /\ calls' = [calls EXCEPT ![r] = @ + 1]
  /\ chan' = Send(chan, r, [p \in DOMAIN ghostRange[r] |-> GhostValues(r, p, all)],
                  LAMBDA q : GatherTag)
  /\ Goes(r, next)
  /\ UNCHANGED <<owned, ghosts, threw, pattern, mapping>>

\* A rank's values with those it receives inserted, target rank by target rank.
Inserted(r) ==
  LET froms == DOMAIN ownedFor[r]
      owner(l, q) == {i \in DOMAIN ownedFor[r][q] : ownedFor[r][q][i] = l - 1}
  IN [l \in DOMAIN values[r] |->
        LET hits == {q \in froms : owner(l, q) # {}}
            last == CHOOSE q \in hits : \A p \in hits : q >= p
        IN IF hits = {} THEN values[r][l]
           ELSE Received(r, last, GatherTag)[LeastOf(owner(l, last))]]

Inserts(r, next) ==
  /\ Arrived(r, DOMAIN ownedFor[r], GatherTag)
  /\ values' = [values EXCEPT ![r] = Inserted(r)]
  /\ chan' = Taken(r, DOMAIN ownedFor[r], GatherTag)
  /\ Goes(r, next)
  /\ UNCHANGED <<owned, ghosts, threw, pattern, mapping, calls>>

\* checkIfAllPointsAreFound: the call with the field 1, and a reduction.
Check(r) == At(r, "built") /\ Computes(r, "checked")
EndCheck(r) == At(r, "checked") /\ Inserts(r, "agree")
Complete(r) == \A l \in 1..numPoints[r] : values[r][l] # NoValue

\* Mutant of Agree: a rank looks at its own points only.
AgreeAlone(r) ==
  /\ At(r, "agree") /\ AllIn("agree")
  /\ IF Complete(r) THEN Goes(r, "work") /\ UNCHANGED threw ELSE Throws(r)
  /\ UNCHANGED <<owned, ghosts, pattern, chan, transferVars>>

Agree(r) ==
  /\ At(r, "agree") /\ AllIn("agree")
  /\ IF \A q \in Ranks : pc[q] # "agree" \/ Complete(q)
       THEN Goes(r, "work") /\ UNCHANGED threw ELSE Throws(r)
  /\ UNCHANGED <<owned, ghosts, pattern, chan, transferVars>>

\* interpolateSrcDataToTargetPoints, again and again, without a barrier.
Interpolate(r) == At(r, "work") /\ calls[r] <= MaxCalls /\ Computes(r, "insert")
EndInterpolate(r) == At(r, "insert") /\ Inserts(r, "work")

MapStep(r) ==
  \/ Search(r) \/ LearnSenders(r) \/ SendNumbers(r) \/ SendIds(r)
  \/ SendCoordinates(r) \/ Locate(r) \/ MakePattern(r)
CallStep(r) ==
  Check(r) \/ EndCheck(r) \/ Agree(r) \/ Interpolate(r) \/ EndInterpolate(r)
RankStep(r) ==
  \/ MapStep(r)
  \/ PatternStep(r) /\ UNCHANGED transferVars
  \/ CallStep(r)

Next == \E r \in Ranks : RankStep(r)

\* Every rank runs until the job ends.
Fairness == \A r \in Ranks : WF_vars(RankStep(r))
Spec == Init /\ [][Next]_vars /\ Fairness

\* A pattern alone, made for another caller.
NoTransfer ==
  /\ numPoints = [r \in Ranks |-> 0]
  /\ inside = EmptyMap /\ boxed = EmptyMap
  /\ sendTo = [r \in Ranks |-> EmptyMap]
  /\ heard = [r \in Ranks |-> EmptyMap]
  /\ found = [r \in Ranks |-> {}]
  /\ values = [r \in Ranks |-> <<>>]
  /\ calls = [r \in Ranks |-> 0]
PatternAlone(r) == PatternStep(r) /\ UNCHANGED transferVars
PatternSpec == PatternInit /\ NoTransfer /\ [][\E r \in Ranks : PatternAlone(r)]_vars
-----------------------------------------------------------------------------
TypeOK ==
  /\ \A r \in Ranks :
       /\ pc[r] \in DOMAIN Phases
       /\ ToSet(ghosts[r]) \subseteq Nat /\ Sorted(ToSet(ghosts[r])) = ghosts[r]
       /\ \A p \in DOMAIN ghostRange[r] :
            p \in Ranks /\ 0 <= ghostRange[r][p][1] /\ ghostRange[r][p][1] < ghostRange[r][p][2]
              /\ ghostRange[r][p][2] <= Len(ghosts[r])
       /\ \A q \in DOMAIN ownedFor[r] :
            Len(ownedFor[r][q]) = numFor[r][q] /\ ToSet(ownedFor[r][q]) \subseteq 0..(Size(owned[r]) - 1)
       /\ DOMAIN sendTo[r] \cup DOMAIN heard[r] \subseteq Ranks \ {r}
       /\ \A f \in found[r] : f.place < numPoints[r] + Len(ghosts[r])
       /\ calls[r] \in 0..(MaxCalls + 1)
  /\ threw \subseteq Ranks

\* A rank's points, once they have values, have values computed for them, in
\* this call, by a rank whose cells contain them.
PointsServed ==
  \A r \in Ranks : pc[r] \in {"agree", "work"} =>
    \A l \in 1..numPoints[r] :
      LET v == values[r][l] IN
      \/ v.point = owned[r][1] + l - 1 /\ v.by \in inside[v.point] /\ v.call = calls[r]
      \/ v = NoValue /\ inside[owned[r][1] + l - 1] = {}

\* A rank that probes for requesters with MPI_ANY_SOURCE finds none of the
\* messages that follow, although the numbers of points go out with a rank as
\* their tag, which is any tag, MPI_REQUESTERS_NBX_TAG too, in a job with enough
\* ranks.
NoStrayProbe ==
  \A r, q \in Ranks : pc[r] = "consensus" => chan[q][r] = <<>>
=============================================================================
