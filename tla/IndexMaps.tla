------------------------------ MODULE IndexMaps ------------------------------
(***************************************************************************)
(* The index arithmetic of MPIPatternP2P and OptimizedIndexSet: which rank *)
(* owns a global index, which owned ranges overlap, and where a global     *)
(* index sits among the local ones.                                        *)
(*                                                                         *)
(* owned is a function from ranks to half-open ranges <<first, last + 1>>, *)
(* which need not follow the order of the ranks and may be empty anywhere. *)
(***************************************************************************)
EXTENDS Naturals, Sequences, FiniteSets, SequencesExt

LeastOf(S) == CHOOSE x \in S : \A y \in S : x <= y
\* S in the order in which Before(x, y) says that x comes earlier.
InOrder(S, Before(_, _)) ==
  [i \in 1..Cardinality(S) |->
     CHOOSE x \in S : Cardinality({y \in S : Before(y, x)}) = i - 1]
Sorted(S) == InOrder(S, <)

Size(range) == range[2] - range[1]
NumGlobal(owned) == MapThenSumSet(LAMBDA r : Size(owned[r]), DOMAIN owned)
Owns(owned, r, g) == owned[r][1] <= g /\ g < owned[r][2]
-----------------------------------------------------------------------------
\* Mutant of EndOf: an empty range ends where it is said to.
EndAsGiven(owned, n, r) == owned[r][2]

\* The end of an empty range, which may be given anywhere, is moved behind the
\* last of the n indices.
EndOf(owned, n, r) == IF Size(owned[r]) = 0 THEN n + 1 + r ELSE owned[r][2]

\* std::upper_bound in the sorted ends: a rank whose range is the first to end
\* behind g.  Ranks with the same end may come in any order.
Finders(owned, n, g) ==
  {r \in DOMAIN owned :
     /\ EndOf(owned, n, r) > g
     /\ \A q \in DOMAIN owned :
          EndOf(owned, n, q) > g => EndOf(owned, n, r) <= EndOf(owned, n, q)}
-----------------------------------------------------------------------------
\* The ends of the ranges that are not empty, in the order of
\* compareRangeMetaData.  Where it leaves the order open (equal starts) or is no
\* order (equal ends), the sort may produce any: rank says which came first.
Marks(owned) ==
  {m \in [rank : DOMAIN owned, start : BOOLEAN] : Size(owned[m.rank]) > 0}
MarkAt(owned, m) == IF m.start THEN owned[m.rank][1] ELSE owned[m.rank][2]

\* Mutant of MarkBefore: at the same index a range starts before another ends.
MarkBeforeStarts(owned, rank, x, y) ==
  LET a == MarkAt(owned, x)  b == MarkAt(owned, y) IN
  \/ a < b
  \/ a = b /\ x.start /\ ~y.start
  \/ a = b /\ x.start = y.start /\ rank[x.rank] < rank[y.rank]

MarkBefore(owned, rank, x, y) ==
  LET a == MarkAt(owned, x)  b == MarkAt(owned, y) IN
  \/ a < b
  \/ a = b /\ ~x.start /\ y.start
  \/ a = b /\ x.start = y.start /\ rank[x.rank] < rank[y.rank]

MarksInOrder(owned, rank) ==
  InOrder(Marks(owned), LAMBDA x, y : MarkBefore(owned, rank, x, y))

\* getOverlappingRangeIds: one pass over the marks, that remembers the open range
\* which reaches furthest, and the ranges found to overlap.
Visit(owned, scan, m) ==
  IF m.start
    THEN [open |-> IF \A o \in scan.open : owned[m.rank][2] > owned[o][2]
                     THEN {m.rank} ELSE scan.open,
          found |-> IF scan.open = {} THEN scan.found
                    ELSE scan.found \cup scan.open \cup {m.rank}]
    ELSE [scan EXCEPT !.open = @ \ {m.rank}]
Overlapping(owned, rank) ==
  LET marks == MarksInOrder(owned, rank)
      scan[i \in 0..Len(marks)] ==
        IF i = 0 THEN [open |-> {}, found |-> {}] ELSE Visit(owned, scan[i - 1], marks[i])
  IN scan[Len(marks)].found
-----------------------------------------------------------------------------
\* OptimizedIndexSet keeps the set as contiguous ranges, one after another.
Boundaries(S) ==
  Sorted({x \in S : x = 0 \/ x - 1 \notin S} \cup {x + 1 : x \in {y \in S : y + 1 \notin S}})

\* Mutant of EntriesBefore: the range itself is counted.
EntriesUpTo(b, k) == MapThenSumSet(LAMBDA j : b[2 * j] - b[2 * j - 1], 1..k)

\* Entries in the ranges before the k-th.
EntriesBefore(b, k) == MapThenSumSet(LAMBDA j : b[2 * j] - b[2 * j - 1], 1..(k - 1))

\* getPosition: the set of the position found, if any.  The first boundary
\* behind x is an end exactly if x is in the set.
Position(S, x) ==
  LET b == Boundaries(S)
      up == {i \in DOMAIN b : b[i] > x}
      i == LeastOf(up)
  IN IF up = {} \/ i % 2 = 1 THEN {}
     ELSE {EntriesBefore(b, i \div 2) + x - b[i - 1]}

\* localToGlobal and globalToLocal of a rank with this range and these ghosts;
\* what they throw at has no value.
LocalToGlobal(range, ghosts, l) ==
  IF l < Size(range) THEN {range[1] + l}
  ELSE IF l < Size(range) + Len(ghosts) THEN {ghosts[l - Size(range) + 1]} ELSE {}
GlobalToLocal(range, ghosts, g) ==
  IF range[1] <= g /\ g < range[2] THEN {g - range[1]}
  ELSE {Size(range) + p : p \in Position(ToSet(ghosts), g)}
=============================================================================
