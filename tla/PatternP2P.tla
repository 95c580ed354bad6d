----------------------------- MODULE PatternP2P -----------------------------
(***************************************************************************)
(* The constructor of MPIPatternP2P on every rank of a communicator: which *)
(* ranks own a rank's ghost indices, which ranks have its own indices as   *)
(* ghosts, and which ones, learned in two rounds of messages.              *)
(*                                                                         *)
(* A message carries its tag, and a receive takes the first of its source  *)
(* and tag.  Sends are eager: every rank posts the receives of a round     *)
(* before it waits, so that a wait for a send ends as well.  The exchange  *)
(* of requesters is RequestersNBX: all ranks enter, each leaves with the   *)
(* ranks that have it as a target, and messages with its tag are for it.   *)
(***************************************************************************)
EXTENDS IndexMaps

CONSTANTS
  NumRanks,
  NBXTag,       \* MPI_REQUESTERS_NBX_TAG
  PatternTag    \* MPI_P2P_PATTERN_TAG

ASSUME ConstantsOK ==
  NumRanks \in Nat \ {0} /\ NBXTag \in Nat /\ PatternTag \in Nat

Ranks == 0..(NumRanks - 1)

VARIABLES
  owned,        \* d_allOwnedRanges
  ghosts,       \* d_ghostIndices
  pc,           \* the phase each rank is in
  threw,        \* ranks that threw an exception; the first one ends the job
  ghostRange,   \* d_ghostProcIds with d_localGhostIndicesRanges
  numFor,       \* d_targetProcIds with d_numOwnedIndicesForTargetProcs
  ownedFor,     \* and their part of d_flattenedLocalTargetIndices
  chan          \* messages under way, by source and destination

pattern == <<ghostRange, numFor, ownedFor>>
patternVars == <<owned, ghosts, pc, threw, pattern, chan>>

\* What a rank goes through, the caller's phases before and after included.
Phases ==
  [search |-> 1, consensus |-> 2, reduce |-> 3, numbers |-> 4, ids |-> 5,
   coords |-> 6, found |-> 7, gather |-> 8, ask |-> 9, counts |-> 10,
   indices |-> 11, built |-> 12, checked |-> 13, agree |-> 14, work |-> 15,
   insert |-> 16]
PhaseNumber(p) == Phases[p]
\* Every rank has entered the collective operation of a phase.
AllIn(p) == \A r \in Ranks : PhaseNumber(pc[r]) >= PhaseNumber(p)

At(r, p) == pc[r] = p /\ threw = {}
Goes(r, p) == pc' = [pc EXCEPT ![r] = p]
Throws(r) == threw' = threw \cup {r} /\ UNCHANGED pc

EmptyMap == [r \in {} |-> <<>>]
NoPattern ==
  /\ ghostRange = [r \in Ranks |-> EmptyMap]
  /\ numFor = [r \in Ranks |-> EmptyMap]
  /\ ownedFor = [r \in Ranks |-> EmptyMap]
NoMessages == chan = [p \in Ranks |-> [q \in Ranks |-> <<>>]]

\* The constructor is entered with any ranges, and with ghosts that are in order
\* and not the rank's own.
PatternInit ==
  /\ owned \in [Ranks -> Nat \X Nat] /\ ghosts \in [Ranks -> Seq(Nat)]
  /\ \A r \in Ranks :
       /\ owned[r][1] <= owned[r][2]
       /\ \A i \in DOMAIN ghosts[r] : ~Owns(owned, r, ghosts[r][i])
       /\ \A i, j \in DOMAIN ghosts[r] : i < j => ghosts[r][i] < ghosts[r][j]
  /\ pc = [r \in Ranks |-> "gather"]
  /\ threw = {}
  /\ NoPattern /\ NoMessages
-----------------------------------------------------------------------------
(***************************************************************************)
(* Messages.                                                               *)
(***************************************************************************)
\* Rank r sends what[q] with the tag to each rank q of its domain.
Send(c, r, what, tag(_)) ==
  [c EXCEPT ![r] = [q \in Ranks |->
     IF q \in DOMAIN what THEN Append(c[r][q], [tag |-> tag(q), data |-> what[q]])
                          ELSE c[r][q]]]

Matches(m, tag) == m.tag = tag
Arrived(r, froms, tag) ==
  \A q \in froms : \E i \in DOMAIN chan[q][r] : Matches(chan[q][r][i], tag)
FirstMatch(r, q, tag) ==
  LeastOf({i \in DOMAIN chan[q][r] : Matches(chan[q][r][i], tag)})
Received(r, q, tag) == chan[q][r][FirstMatch(r, q, tag)].data
Taken(r, froms, tag) ==
  [q \in Ranks |->
     IF q \in froms THEN [chan[q] EXCEPT ![r] = RemoveAt(@, FirstMatch(r, q, tag))]
                    ELSE chan[q]]
-----------------------------------------------------------------------------
(***************************************************************************)
(* The ghost side: from the ranges of all ranks.                           *)
(***************************************************************************)
\* Positions in d_ghostIndices, from 0, of the ghosts attributed to rank p.
PlacesOf(f, p) == {i - 1 : i \in {j \in DOMAIN f : f[j] = p}}
RangeOf(S) == <<LeastOf(S), 1 + (CHOOSE x \in S : \A y \in S : x >= y)>>
Contiguous(S) == Size(RangeOf(S)) = Cardinality(S)

\* Any order that the sort of the ranges may leave: ThrowsWhereItSays says
\* that it makes no difference.
SortOrder == CHOOSE rank \in [Ranks -> Ranks] : IsInjective(rank)
Rejected(r) ==
  LET n == NumGlobal(owned) IN
  \/ Overlapping(owned, SortOrder) # {}
  \/ \E i \in DOMAIN ghosts[r] : ghosts[r][i] >= n \/ Finders(owned, n, ghosts[r][i]) = {}

\* Owners of the ghosts, one by one, as upper_bound finds them.
Attributions(r) ==
  LET n == NumGlobal(owned) IN
  {f \in [DOMAIN ghosts[r] -> Ranks] :
     \A i \in DOMAIN f : f[i] \in Finders(owned, n, ghosts[r][i])}

\* MPI_Allgatherv of the ranges ends.
LeaveGather(r) ==
  /\ At(r, "gather") /\ AllIn("gather")
  /\ IF Rejected(r)
       THEN Throws(r) /\ UNCHANGED ghostRange
       ELSE \E f \in Attributions(r) :
              LET procs == ToSet(f) IN
              IF \A p \in procs : Contiguous(PlacesOf(f, p))
                THEN /\ ghostRange' = [ghostRange EXCEPT
                                         ![r] = [p \in procs |-> RangeOf(PlacesOf(f, p))]]
                     /\ Goes(r, "ask") /\ UNCHANGED threw
                ELSE Throws(r) /\ UNCHANGED ghostRange
  /\ UNCHANGED <<owned, ghosts, numFor, ownedFor, chan>>
-----------------------------------------------------------------------------
(***************************************************************************)
(* The target side: from the ranks whose ghosts a rank owns.               *)
(***************************************************************************)
Requesters(r, wants) == {q \in Ranks : r \in DOMAIN wants[q]}

\* getRequestingRankIds ends; the numbers of ghosts are sent.
SendCounts(r) ==
  /\ At(r, "ask") /\ AllIn("ask")
  /\ numFor' = [numFor EXCEPT ![r] = [q \in Requesters(r, ghostRange) |-> 0]]
  /\ chan' = Send(chan, r, [p \in DOMAIN ghostRange[r] |-> <<Size(ghostRange[r][p])>>],
                  LAMBDA q : PatternTag)
  /\ Goes(r, "counts")
  /\ UNCHANGED <<owned, ghosts, threw, ghostRange, ownedFor>>

\* The ghosts of r that rank p owns, as indices local to p.
GhostsAt(r, p) ==
  LET first == ghostRange[r][p][1] IN
  [i \in 1..Size(ghostRange[r][p]) |-> ghosts[r][first + i]]
LocalAt(r, p) ==
  [i \in DOMAIN GhostsAt(r, p) |-> GhostsAt(r, p)[i] - owned[p][1]]
\* "BUG2": the unsigned difference is not an index of p.
Foreign(r, p) == \E i \in DOMAIN GhostsAt(r, p) : ~Owns(owned, p, GhostsAt(r, p)[i])

\* The counts have arrived; the indices are sent, until one is foreign.
SendIndices(r) ==
  LET froms == DOMAIN numFor[r]
      bad == {p \in DOMAIN ghostRange[r] : Foreign(r, p)}
      good == {p \in DOMAIN ghostRange[r] : \A b \in bad : p < b}
  IN
  /\ At(r, "counts") /\ Arrived(r, froms, PatternTag)
  /\ numFor' = [numFor EXCEPT ![r] = [q \in froms |-> Received(r, q, PatternTag)[1]]]
  /\ chan' = Send(Taken(r, froms, PatternTag), r, [p \in good |-> LocalAt(r, p)],
                  LAMBDA q : PatternTag)
  /\ IF bad = {} THEN Goes(r, "indices") /\ UNCHANGED threw ELSE Throws(r)
  /\ UNCHANGED <<owned, ghosts, ghostRange, ownedFor>>

\* Mutant of KeepIndices: the parts are received in the order they arrive in,
\* modelled as the reverse of the order of the target ranks.
KeepIndicesReversed(r) ==
  LET froms == DOMAIN numFor[r]
      other(q) == LeastOf({p \in froms : Cardinality({x \in froms : x > p})
                                           = Cardinality({x \in froms : x < q})})
  IN
  /\ At(r, "indices") /\ Arrived(r, froms, PatternTag)
  /\ ownedFor' = [ownedFor EXCEPT ![r] = [q \in froms |-> Received(r, other(q), PatternTag)]]
  /\ chan' = Taken(r, froms, PatternTag)
  /\ Goes(r, "built")
  /\ UNCHANGED <<owned, ghosts, threw, ghostRange, numFor>>

KeepIndices(r) ==
  LET froms == DOMAIN numFor[r]
      beyond == \E q \in froms : \E i \in 1..numFor[r][q] :
                  Received(r, q, PatternTag)[i] >= Size(owned[r])
  IN
  /\ At(r, "indices") /\ Arrived(r, froms, PatternTag)
  /\ ownedFor' = [ownedFor EXCEPT ![r] = [q \in froms |-> Received(r, q, PatternTag)]]
  /\ chan' = Taken(r, froms, PatternTag)
  /\ IF beyond THEN Throws(r) ELSE Goes(r, "built") /\ UNCHANGED threw
  /\ UNCHANGED <<owned, ghosts, ghostRange, numFor>>

PatternStep(r) ==
  LeaveGather(r) \/ SendCounts(r) \/ SendIndices(r) \/ KeepIndices(r)
-----------------------------------------------------------------------------
Built(r) == PhaseNumber(pc[r]) >= PhaseNumber("built")

\* The k-th index a rank sends to another is the other's k-th ghost of that
\* rank, and every ghost of a rank is one of those it receives: what a ghost
\* update or an accumulation moves between two ranks is meant for each other.
Pairs(p, q) ==
  LET mine == IF q \in DOMAIN ghostRange[p] THEN GhostsAt(p, q) ELSE <<>>
      theirs == IF p \in DOMAIN ownedFor[q] THEN ownedFor[q][p] ELSE <<>>
  IN mine = [i \in DOMAIN theirs |-> owned[q][1] + theirs[i]]
PatternsPair ==
  \A p, q \in Ranks : Built(p) /\ Built(q) =>
    /\ Pairs(p, q)
    /\ \A i \in DOMAIN ghosts[p] : \E o \in DOMAIN ghostRange[p] :
         /\ Owns(owned, o, ghosts[p][i])
         /\ ghostRange[p][o][1] < i /\ i <= ghostRange[p][o][2]

Disjoint == \A p, q \in Ranks : p # q =>
  ~ \E g \in owned[p][1]..owned[p][2] : Owns(owned, p, g) /\ Owns(owned, q, g)
Partition == Disjoint /\ \A r \in Ranks : Size(owned[r]) > 0 => owned[r][2] <= NumGlobal(owned)
GhostsOwned ==
  \A r \in Ranks : \A i \in DOMAIN ghosts[r] : \E q \in Ranks : Owns(owned, q, ghosts[r][i])

\* "Throws exception if ... the locallyOwnedRange across all the processors are
\* not disjoint" or a ghost is no rank's (MPIPatternP2P.h): then no rank gets a
\* pattern.  None throws when the ranges partition the indices and every ghost
\* is one of them.  Overlaps are found whatever order a sort with
\* compareRangeMetaData, which is no strict weak order, leaves equal ends in.
ThrowsWhereItSays ==
  /\ AllIn("gather") /\ Partition /\ GhostsOwned /\ threw # {} =>
       \E r \in Ranks : PhaseNumber(pc[r]) > PhaseNumber("built")
  /\ ~Disjoint => \A r \in Ranks : ~Built(r)
  /\ \A r \in Ranks : Built(r) =>
       \A i \in DOMAIN ghosts[r] : \E q \in Ranks : Owns(owned, q, ghosts[r][i])
  /\ (\A r \in Ranks : pc[r] = "gather" /\ ghosts[r] = <<>>) =>
       \A rank \in {f \in [Ranks -> Ranks] : IsInjective(f)} :
         Disjoint <=> Overlapping(owned, rank) = {}

\* Local and global numbers of a rank's own indices and ghosts are each other's
\* inverse, and an index that is neither is not found.
NumbersInverse ==
  \A r \in Ranks : Built(r) =>
    LET known == {LocalToGlobal(owned[r], ghosts[r], l) :
                    l \in 0..(Size(owned[r]) + Len(ghosts[r]) - 1)}
    IN \A g \in 0..(NumGlobal(owned) + 1) :
         LET l == GlobalToLocal(owned[r], ghosts[r], g) IN
         IF {g} \in known THEN \E n \in l : LocalToGlobal(owned[r], ghosts[r], n) = {g}
                          ELSE l = {}
=============================================================================
