----------------------- MODULE OverlappedFilterProofs -----------------------
(***************************************************************************)
(* What holds of the overlapped filter for any ranks, any ghosts, any      *)
(* order of the polynomial and any number of calls, in both forms of the   *)
(* program.                                                                *)
(*                                                                         *)
(* The program counter is read as a stage and a degree per block: a block  *)
(* goes through the same nine stages in every degree, and only where the   *)
(* other block stands at that time is particular to the program.  IInv     *)
(* says what the vectors of a block hold in its stage, and numbers the     *)
(* exchanges: a receiver has got the first of a link's, the others are on  *)
(* their way in that order, so that the first message is of the exchange   *)
(* its receiver is in, however far its sender has gone on.                 *)
(*                                                                         *)
(* A step of the program is Working: it takes one block on by one stage,   *)
(* ends what that stage has open, begins what the next one opens, and      *)
(* leaves the data of the other block and of the other ranks alone.        *)
(***************************************************************************)
EXTENDS OverlappedFilter, SequenceTheorems, TLAPS

-----------------------------------------------------------------------------
(***************************************************************************)
(* Where a rank is.  A block goes through the same nine stages in every    *)
(* degree, whatever the other block does meanwhile.                        *)
(***************************************************************************)
\* The stage of each block at a position of the start of either form, of the
\* loop and of what follows it.
StartStage(v, b, i) ==
  IF v = "plain"
  THEN IF b = 1 THEN IF i <= 9 THEN i - 1 ELSE 0 ELSE IF i <= 10 THEN 0 ELSE i - 10
  ELSE IF b = 1
  THEN IF i <= 7 THEN i - 1 ELSE IF i = 8 THEN 6 ELSE IF i <= 10 THEN 7 ELSE 8
  ELSE IF i <= 7 THEN 0 ELSE IF i <= 9 THEN 1 ELSE IF i <= 11 THEN 2 ELSE 3

LoopStage(b, i) ==
  IF b = 1
  THEN IF i <= 16 THEN 0 ELSE IF i <= 18 THEN 1 ELSE IF i <= 20 THEN 2
       ELSE IF i <= 22 THEN 3 ELSE IF i = 23 THEN 4 ELSE IF i = 24 THEN 5
       ELSE IF i <= 26 THEN 6 ELSE IF i <= 28 THEN 7 ELSE 8
  ELSE IF i <= 16 THEN i - 10 ELSE IF i = 17 THEN 6 ELSE IF i <= 19 THEN 7
       ELSE IF i <= 21 THEN 8 ELSE IF i <= 25 THEN 0 ELSE IF i <= 27 THEN 1
       ELSE IF i <= 29 THEN 2 ELSE 3

LastStage(b, i) == IF b = 1 \/ i = 37 THEN 0 ELSE i - 28

StageAt(v, b, i) ==
  IF i = 0 THEN 0
  ELSE IF i <= 12 THEN StartStage(v, b, i)
  ELSE IF i <= 30 THEN LoopStage(b, i) ELSE LastStage(b, i)

Stage(p, b) == StageAt(variant, b, pc[p])

\* How many degrees a block is behind the loop variable.
BehindAt(v, b, i) ==
  IF i >= 31 THEN IF i = 37 THEN 0 ELSE b - 1
  ELSE IF b = 1 THEN IF v = "plain" /\ i \in 10..12 THEN 0 ELSE 1
  ELSE IF i \in 13..21 THEN 2 ELSE 1

Deg(p, b) == IF pc[p] = 0 THEN Order ELSE degree[p] - BehindAt(variant, b, pc[p])

Places ==
  /\ variant \in Variants
  /\ call \in [Ranks -> 0..MaxCalls] /\ pc \in [Ranks -> 0..37] /\ degree \in [Ranks -> 0..Order]
  /\ \A p \in Ranks :
       /\ call[p] = 0 => pc[p] = 0
       /\ pc[p] \in 1..12 => degree[p] = First + 1
       /\ pc[p] \in 13..30 => degree[p] >= First + 2
       /\ pc[p] \in 31..37 => degree[p] = Order

\* The position after i, as long as the loop is not entered again.
After(i) == IF i = 12 THEN 31 ELSE i + 1

\* The steps of a block, in the order of the stages they end.
Whats ==
  {"updateBegin", "updateEnd", "gather", "projectBegin", "projectScale", "projectEnd",
   "multiply", "addBegin", "addEnd"}

StageBefore(what) ==
  IF what = "updateBegin" THEN 0 ELSE IF what = "updateEnd" THEN 1 ELSE IF what = "gather" THEN 2
  ELSE IF what = "projectBegin" THEN 3 ELSE IF what = "projectScale" THEN 4
  ELSE IF what = "projectEnd" THEN 5 ELSE IF what = "multiply" THEN 6
  ELSE IF what = "addBegin" THEN 7 ELSE 8

\* From position i, block b goes on from stage k and the other block stays.
Moves(v, b, i, k) ==
  /\ StageAt(v, b, i) = k
  /\ StageAt(v, b, After(i)) = IF k = 8 THEN 0 ELSE k + 1
  /\ BehindAt(v, b, After(i)) = BehindAt(v, b, i) - IF k = 8 THEN 1 ELSE 0
  /\ StageAt(v, 3 - b, After(i)) = StageAt(v, 3 - b, i)
  /\ BehindAt(v, 3 - b, After(i)) = BehindAt(v, 3 - b, i)

(***************************************************************************)
(* The steps of the program and their positions.                           *)
(***************************************************************************)
PlainSpots(s, i) ==
  /\ s[1] = "updateBegin" => (s[2] = 1 /\ i \in {1, 16}) \/ (s[2] = 2 /\ i \in {10, 25})
  /\ s[1] = "updateEnd" => (s[2] = 1 /\ i \in {2, 18}) \/ (s[2] = 2 /\ i \in {11, 27})
  /\ s[1] = "gather" => (s[2] = 1 /\ i \in {3, 20}) \/ (s[2] = 2 /\ i \in {12, 29})
  /\ s[1] = "projectBegin" => (s[2] = 1 /\ i \in {4, 22}) \/ (s[2] = 2 /\ i \in {13, 31})
  /\ s[1] = "projectScale" => (s[2] = 1 /\ i \in {5, 23}) \/ (s[2] = 2 /\ i \in {14, 32})
  /\ s[1] = "projectEnd" => (s[2] = 1 /\ i \in {6, 24}) \/ (s[2] = 2 /\ i \in {15, 33})
  /\ s[1] = "multiply" => (s[2] = 1 /\ i \in {7, 26}) \/ (s[2] = 2 /\ i \in {17, 34})
  /\ s[1] = "addBegin" => (s[2] = 1 /\ i \in {8, 28}) \/ (s[2] = 2 /\ i \in {19, 35})
  /\ s[1] = "addEnd" => (s[2] = 1 /\ i \in {9, 30}) \/ (s[2] = 2 /\ i \in {21, 36})

ReformulatedSpots(s, i) ==
  /\ s[1] = "updateBegin" => (s[2] = 1 /\ i \in {1, 16}) \/ (s[2] = 2 /\ i \in {7, 25})
  /\ s[1] = "updateEnd" => (s[2] = 1 /\ i \in {2, 18}) \/ (s[2] = 2 /\ i \in {9, 27})
  /\ s[1] = "gather" => (s[2] = 1 /\ i \in {3, 20}) \/ (s[2] = 2 /\ i \in {11, 29})
  /\ s[1] = "projectBegin" => (s[2] = 1 /\ i \in {4, 22}) \/ (s[2] = 2 /\ i \in {13, 31})
  /\ s[1] = "projectScale" => (s[2] = 1 /\ i \in {5, 23}) \/ (s[2] = 2 /\ i \in {14, 32})
  /\ s[1] = "projectEnd" => (s[2] = 1 /\ i \in {6, 24}) \/ (s[2] = 2 /\ i \in {15, 33})
  /\ s[1] = "multiply" => (s[2] = 1 /\ i \in {8, 26}) \/ (s[2] = 2 /\ i \in {17, 34})
  /\ s[1] = "addBegin" => (s[2] = 1 /\ i \in {10, 28}) \/ (s[2] = 2 /\ i \in {19, 35})
  /\ s[1] = "addEnd" => (s[2] = 1 /\ i \in {12, 30}) \/ (s[2] = 2 /\ i \in {21, 36})

\* The steps of the plain form are at these positions.
LEMMA PlainSpotsExact ==
  ASSUME NEW i \in 1..36
  PROVE  LET prog == PlainStart \o OneDegree \o LastOfBlock2 IN Len(prog) = 36 /\ PlainSpots(prog[i], i)
BY DEF PlainSpots, OneDegree, OtherHalf, LastOfBlock2, Project, UpdateBegin, Multiply,
       UpdateEnd, AddBegin, Gather, AddEndSwap, PlainStart

\* And those of the reformulated form at these.
LEMMA ReformulatedSpotsExact ==
  ASSUME NEW i \in 1..36
  PROVE  LET prog == ReformulatedStart \o OneDegree \o LastOfBlock2 IN Len(prog) = 36 /\ ReformulatedSpots(prog[i], i)
BY DEF ReformulatedSpots, OneDegree, OtherHalf, LastOfBlock2, Project, UpdateBegin, Multiply,
       UpdateEnd, AddBegin, Gather, AddEndSwap, ReformulatedStart

\* Both programs have 36 steps, and the loop is at the same positions.
LEMMA Programs ==
  ASSUME ConstantsOK, variant \in Variants
  PROVE  /\ variant \in {"plain", "reformulated"} /\ First \in {0, 1} /\ Order \in Nat /\ Order >= 2
         /\ programs[variant] = IF variant = "plain" THEN PlainStart \o OneDegree \o LastOfBlock2
                                ELSE ReformulatedStart \o OneDegree \o LastOfBlock2
         /\ Length = 36 /\ LoopStart = 13 /\ LoopEnd = 30
<1>1. programs[variant] = IF variant = "plain" THEN PlainStart \o OneDegree \o LastOfBlock2
                           ELSE ReformulatedStart \o OneDegree \o LastOfBlock2
  BY DEF programs, starts
<1>2. 1 \in 1..36
  OBVIOUS
<1>3. Length = 36
  BY <1>1, <1>2, PlainSpotsExact, ReformulatedSpotsExact DEF Length
<1>4. Len(PlainStart) = 12 /\ Len(ReformulatedStart) = 12 /\ Len(OneDegree) = 18
  BY DEF OneDegree, OtherHalf, LastOfBlock2, Project, UpdateBegin, Multiply, UpdateEnd,
         AddBegin, Gather, AddEndSwap, PlainStart, ReformulatedStart
<1>5. Len(starts[variant]) = 12
  BY <1>4 DEF starts
<1>6. LoopStart = 13 /\ LoopEnd = 30
  BY <1>4, <1>5 DEF LoopStart, LoopEnd
<1>7. variant \in {"plain", "reformulated"} /\ First \in {0, 1} /\ Order \in Nat /\ Order >= 2
  BY DEF ConstantsOK, First
<1> QED BY <1>1, <1>3, <1>6, <1>7

\* In the plain form every step takes its block from a stage to the next.
LEMMA PlainSpotsMove ==
  ASSUME NEW s, NEW i \in 1..36, PlainSpots(s, i), s[1] \in Whats
  PROVE  s[2] \in Blocks /\ Moves("plain", s[2], i, StageBefore(s[1]))
<1>1. CASE s[1] = "updateBegin"
  <2>1. (s[2] = 1 /\ i \in {1, 16}) \/ (s[2] = 2 /\ i \in {10, 25})
    BY <1>1 DEF PlainSpots
  <2>2. Moves("plain", s[2], i, 0) /\ s[2] \in Blocks
    BY <2>1 DEF Moves, StageAt, StartStage, LoopStage, LastStage, BehindAt, After, Blocks
  <2>3. StageBefore(s[1]) = 0
    BY <1>1 DEF StageBefore
  <2> QED BY <2>2, <2>3
<1>2. CASE s[1] = "updateEnd"
  <2>1. (s[2] = 1 /\ i \in {2, 18}) \/ (s[2] = 2 /\ i \in {11, 27})
    BY <1>2 DEF PlainSpots
  <2>2. Moves("plain", s[2], i, 1) /\ s[2] \in Blocks
    BY <2>1 DEF Moves, StageAt, StartStage, LoopStage, LastStage, BehindAt, After, Blocks
  <2>3. StageBefore(s[1]) = 1
    BY <1>2 DEF StageBefore
  <2> QED BY <2>2, <2>3
<1>3. CASE s[1] = "gather"
  <2>1. (s[2] = 1 /\ i \in {3, 20}) \/ (s[2] = 2 /\ i \in {12, 29})
    BY <1>3 DEF PlainSpots
  <2>2. Moves("plain", s[2], i, 2) /\ s[2] \in Blocks
    BY <2>1 DEF Moves, StageAt, StartStage, LoopStage, LastStage, BehindAt, After, Blocks
  <2>3. StageBefore(s[1]) = 2
    BY <1>3 DEF StageBefore
  <2> QED BY <2>2, <2>3
<1>4. CASE s[1] = "projectBegin"
  <2>1. (s[2] = 1 /\ i \in {4, 22}) \/ (s[2] = 2 /\ i \in {13, 31})
    BY <1>4 DEF PlainSpots
  <2>2. Moves("plain", s[2], i, 3) /\ s[2] \in Blocks
    BY <2>1 DEF Moves, StageAt, StartStage, LoopStage, LastStage, BehindAt, After, Blocks
  <2>3. StageBefore(s[1]) = 3
    BY <1>4 DEF StageBefore
  <2> QED BY <2>2, <2>3
<1>5. CASE s[1] = "projectScale"
  <2>1. (s[2] = 1 /\ i \in {5, 23}) \/ (s[2] = 2 /\ i \in {14, 32})
    BY <1>5 DEF PlainSpots
  <2>2. Moves("plain", s[2], i, 4) /\ s[2] \in Blocks
    BY <2>1 DEF Moves, StageAt, StartStage, LoopStage, LastStage, BehindAt, After, Blocks
  <2>3. StageBefore(s[1]) = 4
    BY <1>5 DEF StageBefore
  <2> QED BY <2>2, <2>3
<1>6. CASE s[1] = "projectEnd"
  <2>1. (s[2] = 1 /\ i \in {6, 24}) \/ (s[2] = 2 /\ i \in {15, 33})
    BY <1>6 DEF PlainSpots
  <2>2. Moves("plain", s[2], i, 5) /\ s[2] \in Blocks
    BY <2>1 DEF Moves, StageAt, StartStage, LoopStage, LastStage, BehindAt, After, Blocks
  <2>3. StageBefore(s[1]) = 5
    BY <1>6 DEF StageBefore
  <2> QED BY <2>2, <2>3
<1>7. CASE s[1] = "multiply"
  <2>1. (s[2] = 1 /\ i \in {7, 26}) \/ (s[2] = 2 /\ i \in {17, 34})
    BY <1>7 DEF PlainSpots
  <2>2. Moves("plain", s[2], i, 6) /\ s[2] \in Blocks
    BY <2>1 DEF Moves, StageAt, StartStage, LoopStage, LastStage, BehindAt, After, Blocks
  <2>3. StageBefore(s[1]) = 6
    BY <1>7 DEF StageBefore
  <2> QED BY <2>2, <2>3
<1>8. CASE s[1] = "addBegin"
  <2>1. (s[2] = 1 /\ i \in {8, 28}) \/ (s[2] = 2 /\ i \in {19, 35})
    BY <1>8 DEF PlainSpots
  <2>2. Moves("plain", s[2], i, 7) /\ s[2] \in Blocks
    BY <2>1 DEF Moves, StageAt, StartStage, LoopStage, LastStage, BehindAt, After, Blocks
  <2>3. StageBefore(s[1]) = 7
    BY <1>8 DEF StageBefore
  <2> QED BY <2>2, <2>3
<1>9. CASE s[1] = "addEnd"
  <2>1. (s[2] = 1 /\ i \in {9, 30}) \/ (s[2] = 2 /\ i \in {21, 36})
    BY <1>9 DEF PlainSpots
  <2>2. Moves("plain", s[2], i, 8) /\ s[2] \in Blocks
    BY <2>1 DEF Moves, StageAt, StartStage, LoopStage, LastStage, BehindAt, After, Blocks
  <2>3. StageBefore(s[1]) = 8
    BY <1>9 DEF StageBefore
  <2> QED BY <2>2, <2>3
<1> QED BY <1>1, <1>2, <1>3, <1>4, <1>5, <1>6, <1>7, <1>8, <1>9 DEF Whats

\* And so it does in the reformulated form.
LEMMA ReformulatedSpotsMove ==
  ASSUME NEW s, NEW i \in 1..36, ReformulatedSpots(s, i), s[1] \in Whats
  PROVE  s[2] \in Blocks /\ Moves("reformulated", s[2], i, StageBefore(s[1]))
<1>1. CASE s[1] = "updateBegin"
  <2>1. (s[2] = 1 /\ i \in {1, 16}) \/ (s[2] = 2 /\ i \in {7, 25})
    BY <1>1 DEF ReformulatedSpots
  <2>2. Moves("reformulated", s[2], i, 0) /\ s[2] \in Blocks
    BY <2>1 DEF Moves, StageAt, StartStage, LoopStage, LastStage, BehindAt, After, Blocks
  <2>3. StageBefore(s[1]) = 0
    BY <1>1 DEF StageBefore
  <2> QED BY <2>2, <2>3
<1>2. CASE s[1] = "updateEnd"
  <2>1. (s[2] = 1 /\ i \in {2, 18}) \/ (s[2] = 2 /\ i \in {9, 27})
    BY <1>2 DEF ReformulatedSpots
  <2>2. Moves("reformulated", s[2], i, 1) /\ s[2] \in Blocks
    BY <2>1 DEF Moves, StageAt, StartStage, LoopStage, LastStage, BehindAt, After, Blocks
  <2>3. StageBefore(s[1]) = 1
    BY <1>2 DEF StageBefore
  <2> QED BY <2>2, <2>3
<1>3. CASE s[1] = "gather"
  <2>1. (s[2] = 1 /\ i \in {3, 20}) \/ (s[2] = 2 /\ i \in {11, 29})
    BY <1>3 DEF ReformulatedSpots
  <2>2. Moves("reformulated", s[2], i, 2) /\ s[2] \in Blocks
    BY <2>1 DEF Moves, StageAt, StartStage, LoopStage, LastStage, BehindAt, After, Blocks
  <2>3. StageBefore(s[1]) = 2
    BY <1>3 DEF StageBefore
  <2> QED BY <2>2, <2>3
<1>4. CASE s[1] = "projectBegin"
  <2>1. (s[2] = 1 /\ i \in {4, 22}) \/ (s[2] = 2 /\ i \in {13, 31})
    BY <1>4 DEF ReformulatedSpots
  <2>2. Moves("reformulated", s[2], i, 3) /\ s[2] \in Blocks
    BY <2>1 DEF Moves, StageAt, StartStage, LoopStage, LastStage, BehindAt, After, Blocks
  <2>3. StageBefore(s[1]) = 3
    BY <1>4 DEF StageBefore
  <2> QED BY <2>2, <2>3
<1>5. CASE s[1] = "projectScale"
  <2>1. (s[2] = 1 /\ i \in {5, 23}) \/ (s[2] = 2 /\ i \in {14, 32})
    BY <1>5 DEF ReformulatedSpots
  <2>2. Moves("reformulated", s[2], i, 4) /\ s[2] \in Blocks
    BY <2>1 DEF Moves, StageAt, StartStage, LoopStage, LastStage, BehindAt, After, Blocks
  <2>3. StageBefore(s[1]) = 4
    BY <1>5 DEF StageBefore
  <2> QED BY <2>2, <2>3
<1>6. CASE s[1] = "projectEnd"
  <2>1. (s[2] = 1 /\ i \in {6, 24}) \/ (s[2] = 2 /\ i \in {15, 33})
    BY <1>6 DEF ReformulatedSpots
  <2>2. Moves("reformulated", s[2], i, 5) /\ s[2] \in Blocks
    BY <2>1 DEF Moves, StageAt, StartStage, LoopStage, LastStage, BehindAt, After, Blocks
  <2>3. StageBefore(s[1]) = 5
    BY <1>6 DEF StageBefore
  <2> QED BY <2>2, <2>3
<1>7. CASE s[1] = "multiply"
  <2>1. (s[2] = 1 /\ i \in {8, 26}) \/ (s[2] = 2 /\ i \in {17, 34})
    BY <1>7 DEF ReformulatedSpots
  <2>2. Moves("reformulated", s[2], i, 6) /\ s[2] \in Blocks
    BY <2>1 DEF Moves, StageAt, StartStage, LoopStage, LastStage, BehindAt, After, Blocks
  <2>3. StageBefore(s[1]) = 6
    BY <1>7 DEF StageBefore
  <2> QED BY <2>2, <2>3
<1>8. CASE s[1] = "addBegin"
  <2>1. (s[2] = 1 /\ i \in {10, 28}) \/ (s[2] = 2 /\ i \in {19, 35})
    BY <1>8 DEF ReformulatedSpots
  <2>2. Moves("reformulated", s[2], i, 7) /\ s[2] \in Blocks
    BY <2>1 DEF Moves, StageAt, StartStage, LoopStage, LastStage, BehindAt, After, Blocks
  <2>3. StageBefore(s[1]) = 7
    BY <1>8 DEF StageBefore
  <2> QED BY <2>2, <2>3
<1>9. CASE s[1] = "addEnd"
  <2>1. (s[2] = 1 /\ i \in {12, 30}) \/ (s[2] = 2 /\ i \in {21, 36})
    BY <1>9 DEF ReformulatedSpots
  <2>2. Moves("reformulated", s[2], i, 8) /\ s[2] \in Blocks
    BY <2>1 DEF Moves, StageAt, StartStage, LoopStage, LastStage, BehindAt, After, Blocks
  <2>3. StageBefore(s[1]) = 8
    BY <1>9 DEF StageBefore
  <2> QED BY <2>2, <2>3
<1> QED BY <1>1, <1>2, <1>3, <1>4, <1>5, <1>6, <1>7, <1>8, <1>9 DEF Whats

\* The step at a position takes its block from the stage it belongs to, to the next.
LEMMA Does ==
  ASSUME ConstantsOK, Places, NEW p \in Ranks, NEW what \in Whats, Doing(p, what)
  PROVE  /\ pc[p] \in 1..36 /\ Block(p) \in Blocks /\ StageBefore(what) \in 0..8
         /\ Moves(variant, Block(p), pc[p], StageBefore(what))
<1> DEFINE s == programs[variant][pc[p]]
<1>1. pc[p] \in 1..36 /\ variant \in {"plain", "reformulated"}
  BY Programs DEF Doing, Places
<1>2. s[1] = what /\ Block(p) = s[2]
  BY DEF Doing, Block
<1>3. variant = "plain" => PlainSpots(s, pc[p])
  BY <1>1, PlainSpotsExact, Programs DEF Places
<1>4. variant = "reformulated" => ReformulatedSpots(s, pc[p])
  BY <1>1, ReformulatedSpotsExact, Programs DEF Places
<1> HIDE DEF s
<1>5. variant = "plain" => s[2] \in Blocks /\ Moves("plain", s[2], pc[p], StageBefore(s[1]))
  BY <1>1, <1>2, <1>3, PlainSpotsMove
<1>6. variant = "reformulated" => s[2] \in Blocks /\ Moves("reformulated", s[2], pc[p], StageBefore(s[1]))
  BY <1>1, <1>2, <1>4, ReformulatedSpotsMove
<1>7. StageBefore(what) \in 0..8
  BY DEF StageBefore
<1> QED BY <1>1, <1>2, <1>5, <1>6, <1>7

\* Where the next step finds the rank: in the next stage of the block, and in the
\* next degree after the last stage.
LEMMA Goes ==
  ASSUME ConstantsOK, Places, NEW p \in Ranks, NEW what \in Whats, Doing(p, what), Proceeds(p)
  PROVE  LET k == StageBefore(what) IN
         /\ Places' /\ Block(p) \in Blocks /\ call[p] >= 1 /\ call' = call /\ variant' = variant /\ First' = First
         /\ \A b \in Blocks :
              IF b = Block(p)
              THEN /\ Stage(p, b) = k /\ Stage(p, b)' = (IF k = 8 THEN 0 ELSE k + 1)
                   /\ Deg(p, b)' = Deg(p, b) + (IF k = 8 THEN 1 ELSE 0)
              ELSE Stage(p, b)' = Stage(p, b) /\ Deg(p, b)' = Deg(p, b)
         /\ \A q \in Ranks, b \in Blocks : q # p => Stage(q, b)' = Stage(q, b) /\ Deg(q, b)' = Deg(q, b)
<1>0. /\ pc[p] \in 1..36 /\ Block(p) \in Blocks /\ StageBefore(what) \in 0..8
      /\ Moves(variant, Block(p), pc[p], StageBefore(what))
  BY Does
<1>1. variant \in {"plain", "reformulated"} /\ First \in {0, 1} /\ Order \in Nat /\ Order >= 2
      /\ LoopStart = 13 /\ LoopEnd = 30
  BY Programs DEF Places
<1>2. variant' = variant /\ call' = call /\ First' = First
  BY DEF Proceeds, First
<1>3. \/ ~AtCondition(p) /\ pc'[p] = pc[p] + 1 /\ degree'[p] = degree[p]
      \/ AtCondition(p) /\ degree[p] < Order /\ pc'[p] = 13 /\ degree'[p] = degree[p] + 1
      \/ AtCondition(p) /\ degree[p] >= Order /\ pc'[p] = 31 /\ degree'[p] = degree[p]
  BY <1>1 DEF Proceeds, Places, MoreDegrees
<1>4. AtCondition(p) <=> pc[p] \in {12, 30}
  BY <1>1 DEF AtCondition
<1>5. \A q \in Ranks : q # p => pc'[q] = pc[q] /\ degree'[q] = degree[q]
  BY DEF Proceeds, Places
<1>6. pc' \in [Ranks -> 0..37] /\ degree' \in [Ranks -> 0..Order]
  BY <1>0, <1>1, <1>4 DEF Proceeds, Places, MoreDegrees
<1>7. call[p] >= 1 /\ degree[p] \in 0..Order
  BY <1>0 DEF Places
<1>8. Places'
  <2>1. ASSUME NEW q \in Ranks
        PROVE  /\ call'[q] = 0 => pc'[q] = 0
               /\ pc'[q] \in 1..12 => degree'[q] = First + 1
               /\ pc'[q] \in 13..30 => degree'[q] >= First + 2
               /\ pc'[q] \in 31..37 => degree'[q] = Order
    <3>1. CASE q # p
      BY <3>1, <1>2, <1>5 DEF Places
    <3>2. CASE q = p
      BY <3>2, <1>0, <1>1, <1>2, <1>3, <1>4, <1>7 DEF Places
    <3> QED BY <3>1, <3>2
  <2> QED BY <2>1, <1>2, <1>6 DEF Places
<1>9. ASSUME NEW b \in Blocks
      PROVE  /\ Stage(p, b)' = StageAt(variant, b, After(pc[p]))
             /\ degree'[p] - BehindAt(variant, b, pc'[p]) = degree[p] - BehindAt(variant, b, After(pc[p]))
             /\ pc'[p] # 0
  <2>1. StageAt(variant, b, 13) = StageAt(variant, b, 31)
    BY DEF StageAt, LoopStage, LastStage, Blocks
  <2>2. BehindAt(variant, b, 13) = BehindAt(variant, b, 31) + 1
    BY DEF BehindAt, Blocks
  <2>3. BehindAt(variant, b, 31) \in {0, 1}
    BY DEF BehindAt, Blocks
  <2>4. After(pc[p]) = IF AtCondition(p) THEN 31 ELSE pc[p] + 1
    BY <1>0, <1>4 DEF After
  <2>5. CASE ~AtCondition(p)
    <3>1. pc'[p] = pc[p] + 1 /\ After(pc[p]) = pc[p] + 1 /\ degree'[p] = degree[p]
      BY <2>4, <2>5, <1>3
    <3> QED BY <3>1, <1>0, <1>2 DEF Stage
  <2>6. CASE AtCondition(p)
    <3>1. After(pc[p]) = 31 /\ (pc'[p] = 13 \/ pc'[p] = 31)
      BY <2>4, <2>6, <1>3
    <3>2. Stage(p, b)' = StageAt(variant, b, 31) /\ pc'[p] # 0
      BY <3>1, <2>1, <1>2 DEF Stage
    <3>3. degree'[p] - BehindAt(variant, b, pc'[p]) = degree[p] - BehindAt(variant, b, 31)
      BY <2>2, <2>3, <2>6, <1>3, <1>7
    <3> QED BY <3>1, <3>2, <3>3
  <2> QED BY <2>5, <2>6
<1>10. ASSUME NEW b \in Blocks
       PROVE  /\ Deg(p, b)' = degree[p] - BehindAt(variant, b, After(pc[p]))
              /\ Deg(p, b) = degree[p] - BehindAt(variant, b, pc[p])
  BY <1>0, <1>2, <1>9 DEF Deg
<1>11. ASSUME NEW b \in Blocks, NEW i \in 1..37 PROVE BehindAt(variant, b, i) \in {0, 1, 2}
  BY DEF BehindAt, Blocks
<1>12. After(pc[p]) \in 1..37
  BY <1>0 DEF After
<1>13. \A b \in Blocks : b # Block(p) => b = 3 - Block(p)
  BY <1>0 DEF Blocks
<1>14. \A q \in Ranks, b \in Blocks : q # p => Stage(q, b)' = Stage(q, b) /\ Deg(q, b)' = Deg(q, b)
  BY <1>2, <1>5 DEF Stage, Deg
<1>15. \A b \in Blocks : b # Block(p) => Stage(p, b)' = Stage(p, b) /\ Deg(p, b)' = Deg(p, b)
  BY <1>0, <1>9, <1>10, <1>13 DEF Moves, Stage
<1>16. ASSUME NEW b \in Blocks, b = Block(p)
       PROVE  /\ Stage(p, b) = StageBefore(what)
              /\ Stage(p, b)' = (IF StageBefore(what) = 8 THEN 0 ELSE StageBefore(what) + 1)
              /\ Deg(p, b)' = Deg(p, b) + (IF StageBefore(what) = 8 THEN 1 ELSE 0)
  <2>1. Stage(p, b) = StageBefore(what)
    BY <1>0, <1>16 DEF Moves, Stage
  <2>2. Stage(p, b)' = (IF StageBefore(what) = 8 THEN 0 ELSE StageBefore(what) + 1)
    <3>1. Stage(p, b)' = StageAt(variant, b, After(pc[p]))
      BY <1>9
    <3> QED BY <3>1, <1>0, <1>16 DEF Moves
  <2>3. BehindAt(variant, b, After(pc[p]))
          = BehindAt(variant, b, pc[p]) - IF StageBefore(what) = 8 THEN 1 ELSE 0
    BY <1>0, <1>16 DEF Moves
  <2>4. /\ BehindAt(variant, b, After(pc[p])) \in Int /\ BehindAt(variant, b, pc[p]) \in Int
        /\ degree[p] \in Int
    BY <1>0, <1>7, <1>11, <1>12
  <2>5. /\ Deg(p, b)' = degree[p] - BehindAt(variant, b, After(pc[p]))
        /\ Deg(p, b) = degree[p] - BehindAt(variant, b, pc[p])
    BY <1>10
  <2> HIDE DEF Deg
  <2>6. Deg(p, b)' = Deg(p, b) + (IF StageBefore(what) = 8 THEN 1 ELSE 0)
    BY <2>3, <2>4, <2>5
  <2> QED BY <2>1, <2>2, <2>6
<1> HIDE DEF Stage, Deg
<1> QED BY <1>0, <1>2, <1>7, <1>8, <1>14, <1>15, <1>16
-----------------------------------------------------------------------------
(***************************************************************************)
(* The exchanges.  A rank begins two updates and two accumulations per     *)
(* block and degree, always in the same order, so that an exchange has a   *)
(* number on which the ranks agree.                                        *)
(***************************************************************************)
Turns(c) == (Order - First) * c

\* The number of exchange k = 1 or 2 of its kind, of block b, from degree d on,
\* in call c: the update of Y or the accumulation of the projections is the
\* first, that of the projections or of X is the second.
Exchange(c, d, b, k) == 4 * Turns(c - 1) + 4 * (d - First) + 2 * (b - 1) + k

BegunIn(tag, stage) ==
  IF tag = "scatter" THEN IF stage = 0 THEN 0 ELSE IF stage <= 4 THEN 1 ELSE 2
  ELSE IF stage <= 3 THEN 0 ELSE IF stage <= 7 THEN 1 ELSE 2

\* How many exchanges of a kind a rank has begun.
Begun(p, tag) ==
  IF call[p] = 0 THEN 0
  ELSE 4 * Turns(call[p] - 1) + 2 * (Deg(p, 1) - First) + BegunIn(tag, Stage(p, 1))
         + 2 * (Deg(p, 2) - First) + BegunIn(tag, Stage(p, 2))

\* Block b, in stage k, has the exchange of s begun and not ended.
OpenAt(p, b, k, tag, s) ==
  \/ tag = "scatter" /\ k = 1 /\ s = Y(p, b)
  \/ tag = "scatter" /\ k = 5 /\ s = Projections
  \/ tag = "gather" /\ k = 4 /\ s = Projections
  \/ tag = "gather" /\ k = 8 /\ s = X(p, b)

Open(p, tag, s) == \E b \in Blocks : OpenAt(p, b, Stage(p, b), tag, s)

\* What p sends in that exchange.
Content(p, tag, c, d, b, k) ==
  Value(b, c, IF tag = "gather" /\ k = 2 THEN d + 1 ELSE d, IF tag = "scatter" THEN Shares(p) ELSE {p})

Carries(p, tag, n, v) ==
  \E b \in Blocks, c \in 1..MaxCalls, d \in First..Order - 1, k \in {1, 2} :
    n = Exchange(c, d, b, k) /\ v = Content(p, tag, c, d, b, k)

Joins(l) == IF l[3] = "scatter" THEN l[2] \in Targets(l[1]) ELSE l[2] \in Ghosts[l[1]]

\* Of the exchanges of a link, the receiver has got the first ones, and what it
\* has not got of those begun is on its way in that order: only the last message
\* may still have to be copied, and is then of the exchange its sender is in.
Flows(l) ==
  /\ recvs[l] = <<>> \/ \E s \in Stores : recvs[l] = <<s>> /\ Open(l[2], l[3], s)
  /\ msgs[l] \in Seq([store : Stores, copy : {<<>>} \cup {<<v>> : v \in Values}])
  /\ Begun(l[1], l[3]) - Len(msgs[l]) = Begun(l[2], l[3]) - Len(recvs[l])
  /\ \A i \in 1..Len(msgs[l]) :
       IF msgs[l][i].copy = <<>>
       THEN i = Len(msgs[l]) /\ Open(l[1], l[3], msgs[l][i].store)
       ELSE Carries(l[1], l[3], Begun(l[1], l[3]) - Len(msgs[l]) + i, msgs[l][i].copy[1])

LinkInv == \A l \in Links : IF Joins(l) THEN Flows(l) ELSE msgs[l] = <<>> /\ recvs[l] = <<>>

(***************************************************************************)
(* The data.  What the vectors of a block hold is told by its stage.       *)
(***************************************************************************)
\* p has what q sends it in the exchange it is in.
Got(p, q, tag, v, w) == recvs[<<q, p, tag>>] # <<>> \/ v = w

\* A vector's owned entry and its ghost entries, all of one degree.
VectorY(p, b) == LET y == Y(p, b) d == Deg(p, b) stage == Stage(p, b)
                     of(k, ranks) == Value(b, call[p], k, ranks) IN
  /\ own[p][y] = of(d, Shares(p))
  /\ \A q \in Ghosts[p] :
       /\ stage \notin {1, 2, 3} => ghost[p][y][q] = Zero
       /\ stage = 1 => Got(p, q, "scatter", ghost[p][y][q], of(d, Shares(q)))
       /\ stage \in {2, 3} => ghost[p][y][q] = of(d, Shares(q))
  /\ stage = 1 => \A q \in Targets(p) : buf[p][y][q] = own[p][y]

VectorX(p, b) == LET x == X(p, b) d == Deg(p, b) stage == Stage(p, b)
                     of(k, ranks) == Value(b, call[p], k, ranks) IN
  /\ stage <= 4 /\ d > First => own[p][x] = of(d - 1, Shares(p))
  /\ stage \in {5, 6} => own[p][x] = of(d + 1, {})
  /\ stage \in {7, 8} => own[p][x] = of(d + 1, {p})
  /\ \A q \in Ghosts[p] : ghost[p][x][q] = IF stage \in {7, 8} THEN of(d + 1, {p}) ELSE Zero
  /\ stage = 8 => \A q \in Targets(p) : Got(p, q, "gather", buf[p][x][q], of(d + 1, {q}))

\* The cell values and their projections belong to one block at a time.
Shared(p, b) == LET d == Deg(p, b) stage == Stage(p, b)
                    of(k, ranks) == Value(b, call[p], k, ranks) IN
  /\ stage \in 3..6 => cells[p] = of(d, {p})
  /\ stage = 4 =>
       /\ own[p][Projections] = of(d, {p})
       /\ \A q \in Ghosts[p] : ghost[p][Projections][q] = of(d, {p})
       /\ \A q \in Targets(p) : Got(p, q, "gather", buf[p][Projections][q], of(d, {q}))
  /\ stage = 5 =>
       /\ own[p][Projections] = of(d, Shares(p))
       /\ \A q \in Ghosts[p] : Got(p, q, "scatter", ghost[p][Projections][q], of(d, Shares(q)))
       /\ \A q \in Targets(p) : buf[p][Projections][q] = of(d, Shares(p))

Holds(p) ==
  IF call[p] = 0 THEN \A s \in Stores, q \in Ghosts[p] : ghost[p][s][q] = Zero
  ELSE \A b \in Blocks : VectorY(p, b) /\ VectorX(p, b) /\ Shared(p, b)

DataTypes ==
  /\ own \in [Ranks -> [Stores -> Values]]
  /\ ghost = [p \in Ranks |-> ghost[p]] /\ buf = [p \in Ranks |-> buf[p]]
  /\ \A p \in Ranks : /\ ghost[p] \in [Stores -> [Ghosts[p] -> Values]]
                      /\ buf[p] \in [Stores -> [Targets(p) -> Values]]
  /\ cells \in [Ranks -> Values]
  /\ swapped \in [Ranks -> [Blocks -> BOOLEAN]]
  /\ DOMAIN msgs = Links /\ DOMAIN recvs = Links
  /\ msgs = [l \in Links |-> msgs[l]] /\ recvs = [l \in Links |-> recvs[l]]

IInv == Places /\ DataTypes /\ LinkInv /\ \A p \in Ranks : Holds(p)
-----------------------------------------------------------------------------
(***************************************************************************)
(* Where the two blocks can be at a time.                                  *)
(***************************************************************************)
\* Block 1 is in stage j and block 2, gap degrees behind, in stage k.
Together(gap, j, k) ==
  \/ gap = 0 /\ (k = 0 \/ (j = 6 /\ k = 1) \/ (j = 7 /\ k \in {1, 2}) \/ (j = 8 /\ k \in {2, 3}))
  \/ gap = 1 /\ (j = 0 \/ (j = 1 /\ k \in {6, 7}) \/ (j = 2 /\ k \in {7, 8}) \/ (j = 3 /\ k = 8))

\* What the tables of stages and degrees say of all positions.
LEMMA Tables ==
  ASSUME NEW v, NEW i \in 0..37
  PROVE  /\ StageAt(v, 1, i) \in 0..8 /\ StageAt(v, 2, i) \in 0..8
         /\ i # 0 => Together(BehindAt(v, 2, i) - BehindAt(v, 1, i), StageAt(v, 1, i), StageAt(v, 2, i))
         /\ i \in {0, 37} => StageAt(v, 1, i) = 0 /\ StageAt(v, 2, i) = 0
         /\ i = 37 => BehindAt(v, 1, i) = 0 /\ BehindAt(v, 2, i) = 0
         /\ i \in 31..36 => BehindAt(v, 1, i) = 0 /\ BehindAt(v, 2, i) = 1 /\ StageAt(v, 1, i) = 0
         /\ i \in 1..12 => BehindAt(v, 1, i) \in {0, 1} /\ BehindAt(v, 2, i) = 1
         /\ i \in 13..30 => BehindAt(v, 1, i) = 1 /\ BehindAt(v, 2, i) \in {1, 2}
         /\ i \in 10..12 /\ v = "plain" => StageAt(v, 1, i) = 0
         /\ i \in 1..12 /\ ~(i \in 10..12 /\ v = "plain") => BehindAt(v, 1, i) = 1
<1>1. CASE i \in 0..12
  BY <1>1 DEF StageAt, StartStage, BehindAt, Together
<1>2. CASE i \in 13..30
  BY <1>2 DEF StageAt, LoopStage, BehindAt, Together
<1>3. CASE i \in 31..37
  BY <1>3 DEF StageAt, LastStage, BehindAt, Together
<1> QED BY <1>1, <1>2, <1>3

\* The stage and the degree of a block, as far as the program counter tells them.
LEMMA Where ==
  ASSUME ConstantsOK, Places, NEW p \in Ranks, NEW b \in Blocks
  PROVE  /\ call[p] \in Nat /\ Order \in Nat /\ First \in {0, 1} /\ First < Order
         /\ Stage(p, b) \in 0..8 /\ Deg(p, b) \in First..Order
         /\ Stage(p, b) # 0 => Deg(p, b) < Order /\ call[p] >= 1
         /\ pc[p] \in {0, 37} => Stage(p, b) = 0 /\ Deg(p, b) = Order
         /\ pc[p] \notin {0, 37} => Deg(p, 2) < Order /\ call[p] >= 1
         /\ Together(Deg(p, 1) - Deg(p, 2), Stage(p, 1), Stage(p, 2))
<1>1. First \in {0, 1} /\ Order \in Nat /\ Order >= 2
  BY Programs DEF Places
<1>2. pc[p] \in 0..37 /\ call[p] \in Nat /\ degree[p] \in 0..Order /\ (call[p] = 0 => pc[p] = 0)
      /\ (pc[p] \in 1..12 => degree[p] = First + 1) /\ (pc[p] \in 13..30 => degree[p] >= First + 2)
      /\ (pc[p] \in 31..37 => degree[p] = Order)
  BY <1>1 DEF Places, ConstantsOK
<1> DEFINE i == pc[p]  v == variant
<1>3. /\ Stage(p, 1) \in 0..8 /\ Stage(p, 2) \in 0..8
      /\ i \in {0, 37} => Stage(p, 1) = 0 /\ Stage(p, 2) = 0
  BY <1>2, Tables DEF Stage
<1>4. CASE i = 0
  <2>1. Deg(p, 1) = Order /\ Deg(p, 2) = Order
    BY <1>4 DEF Deg
  <2> QED BY <2>1, <1>1, <1>2, <1>3, <1>4 DEF Blocks, Together
<1>5. CASE i # 0
  <2>1. /\ i \in 1..12 => BehindAt(v, 1, i) \in {0, 1} /\ BehindAt(v, 2, i) = 1
        /\ i \in 13..30 => BehindAt(v, 1, i) = 1 /\ BehindAt(v, 2, i) \in {1, 2}
        /\ i \in 31..36 => BehindAt(v, 1, i) = 0 /\ BehindAt(v, 2, i) = 1 /\ Stage(p, 1) = 0
        /\ i = 37 => BehindAt(v, 1, i) = 0 /\ BehindAt(v, 2, i) = 0
        /\ i \in 1..12 /\ BehindAt(v, 1, i) = 0 => Stage(p, 1) = 0
        /\ Together(BehindAt(v, 2, i) - BehindAt(v, 1, i), Stage(p, 1), Stage(p, 2))
    BY <1>2, <1>5, Tables DEF Stage
  <2>2. Deg(p, 1) = degree[p] - BehindAt(v, 1, i) /\ Deg(p, 2) = degree[p] - BehindAt(v, 2, i)
    BY <1>5 DEF Deg
  <2> HIDE DEF i, v, Deg, Stage
  <2>3. Deg(p, 1) - Deg(p, 2) = BehindAt(v, 2, i) - BehindAt(v, 1, i)
    BY <2>1, <2>2, <1>2, <1>5 DEF i
  <2>4. /\ Deg(p, 1) \in First..Order /\ Deg(p, 2) \in First..Order
        /\ i # 37 => Deg(p, 2) < Order
        /\ Stage(p, 1) # 0 => Deg(p, 1) < Order
        /\ Stage(p, 2) # 0 => i # 37
        /\ i = 37 => Deg(p, 1) = Order /\ Deg(p, 2) = Order
    BY <2>1, <2>2, <1>1, <1>2, <1>3, <1>5 DEF i
  <2> QED BY <2>1, <2>3, <2>4, <1>1, <1>2, <1>3, <1>5 DEF Blocks, i
<1> QED BY <1>4, <1>5

\* No two exchanges are open, and the cells are of one block.
LEMMA OneAtATime ==
  ASSUME ConstantsOK, Places, NEW p \in Ranks, NEW b \in Blocks, NEW o \in Blocks, b # o
  PROVE  /\ Stage(p, b) \in {1, 4, 5, 8} => Stage(p, o) \notin {1, 4, 5, 8}
         /\ Stage(p, b) \in 3..6 => Stage(p, o) \notin 3..6
BY Where DEF Together, Blocks

(***************************************************************************)
(* The numbers of the exchanges.                                           *)
(***************************************************************************)
\* The exchanges of the calls before are a growing number.
LEMMA TurnsGrow ==
  ASSUME First \in {0, 1}, Order \in Nat, Order >= 2, NEW c \in Nat, NEW e \in Nat
  PROVE  /\ Turns(c) \in Nat /\ Turns(0) = 0 /\ Turns(c + 1) = Turns(c) + (Order - First)
         /\ c < e => Turns(e) >= Turns(c) + (Order - First)
         /\ c <= e => Turns(e) >= Turns(c)
<1> DEFINE n == Order - First
<1>1. n \in Nat /\ n >= 1
  OBVIOUS
<1> HIDE DEF n
<1>2. n * c \in Nat /\ n * 0 = 0 /\ n * (c + 1) = n * c + n
  BY <1>1
<1>3. ASSUME c <= e PROVE n * c <= n * e
  <2>1. e - c \in Nat /\ n * (e - c) \in Nat
    BY <1>1, <1>3
  <2>2. n * e = n * c + n * (e - c)
    BY <1>1, <2>1
  <2>3. n * e \in Nat
    BY <1>1
  <2> QED BY <2>1, <2>2, <2>3, <1>2
<1>4. ASSUME c < e PROVE n * c + n <= n * e
  <2>1. e - c - 1 \in Nat /\ n * (e - c - 1) \in Nat
    BY <1>1, <1>4
  <2>2. n * e = n * c + n + n * (e - c - 1)
    BY <1>1, <2>1
  <2>3. n * e \in Nat
    BY <1>1
  <2> QED BY <2>1, <2>2, <2>3, <1>1, <1>2
<1> QED BY <1>2, <1>3, <1>4 DEF Turns, n

\* An exchange has one number, and a number one exchange.
LEMMA OneExchange ==
  ASSUME First \in {0, 1}, Order \in Nat, Order >= 2,
         NEW c \in Nat \ {0}, NEW d \in First..Order - 1, NEW b \in Blocks, NEW k \in {1, 2},
         NEW c2 \in Nat \ {0}, NEW d2 \in First..Order - 1, NEW b2 \in Blocks, NEW k2 \in {1, 2},
         Exchange(c, d, b, k) = Exchange(c2, d2, b2, k2)
  PROVE  c = c2 /\ d = d2 /\ b = b2 /\ k = k2
<1>1. c - 1 \in Nat /\ c2 - 1 \in Nat
  OBVIOUS
<1>2. /\ Turns(c - 1) \in Nat /\ Turns(c2 - 1) \in Nat
      /\ c < c2 => Turns(c2 - 1) >= Turns(c - 1) + (Order - First)
      /\ c2 < c => Turns(c - 1) >= Turns(c2 - 1) + (Order - First)
  BY <1>1, TurnsGrow
<1> DEFINE t == Turns(c - 1)  t2 == Turns(c2 - 1)
<1>3. t + (d - First) = t2 + (d2 - First) /\ b = b2 /\ k = k2
  <2>1. 4 * t + 4 * (d - First) + 2 * (b - 1) + k = 4 * t2 + 4 * (d2 - First) + 2 * (b2 - 1) + k2
    BY DEF Exchange
  <2>2. t \in Nat /\ t2 \in Nat
    BY <1>2
  <2> HIDE DEF t, t2
  <2>3. \E m, m2 \in Nat : m = t + (d - First) /\ m2 = t2 + (d2 - First)
    BY <2>2
  <2>4. PICK m \in Nat, m2 \in Nat : m = t + (d - First) /\ m2 = t2 + (d2 - First)
    BY <2>3
  <2>5. \E r, r2 \in 1..4 : r = 2 * (b - 1) + k /\ r2 = 2 * (b2 - 1) + k2
    BY DEF Blocks
  <2>6. PICK r \in 1..4, r2 \in 1..4 : r = 2 * (b - 1) + k /\ r2 = 2 * (b2 - 1) + k2
    BY <2>5
  <2>7. 4 * m + r = 4 * m2 + r2
    BY <2>1, <2>2, <2>4, <2>6 DEF Blocks
  <2>8. m = m2 /\ r = r2
    BY <2>7
  <2> QED BY <2>4, <2>6, <2>8 DEF Blocks
<1>4. c = c2
  BY <1>2, <1>3
<1> QED BY <1>2, <1>3, <1>4

\* The number of the exchange a rank is in, and bounds on how many it has begun.
LEMMA Counted ==
  ASSUME ConstantsOK, Places, NEW p \in Ranks, NEW b \in Blocks, call[p] >= 1
  PROVE  LET of(k) == Exchange(call[p], Deg(p, b), b, k) IN
         /\ Stage(p, b) = 1 => Begun(p, "scatter") = of(1)
         /\ Stage(p, b) = 5 => Begun(p, "scatter") = of(2)
         /\ Stage(p, b) = 4 => Begun(p, "gather") = of(1)
         /\ Stage(p, b) = 8 => Begun(p, "gather") = of(2) /\ Begun(p, "scatter") >= of(2)
         /\ \A tag \in {"scatter", "gather"} :
              /\ Begun(p, tag) \in Nat /\ Begun(p, tag) <= 4 * Turns(call[p])
              /\ Begun(p, tag) < Exchange(call[p], Deg(p, b) + 1, b, 2)
<1>1. /\ call[p] \in Nat /\ Order \in Nat /\ First \in {0, 1} /\ First < Order
      /\ Stage(p, 1) \in 0..8 /\ Deg(p, 1) \in First..Order
      /\ Stage(p, 1) # 0 => Deg(p, 1) < Order
      /\ Stage(p, 2) \in 0..8 /\ Deg(p, 2) \in First..Order
      /\ Stage(p, 2) # 0 => Deg(p, 2) < Order
      /\ Together(Deg(p, 1) - Deg(p, 2), Stage(p, 1), Stage(p, 2))
  BY Where DEF Blocks
<1>2. /\ call[p] - 1 \in Nat /\ Turns(call[p] - 1) \in Nat
      /\ Turns(call[p]) = Turns(call[p] - 1) + (Order - First)
  <2>1. call[p] - 1 \in Nat /\ call[p] - 1 + 1 = call[p] /\ Order >= 2
    BY <1>1, Programs DEF Places
  <2>2. Turns(call[p] - 1) \in Nat /\ Turns(call[p] - 1 + 1) = Turns(call[p] - 1) + (Order - First)
    BY <1>1, <2>1, TurnsGrow
  <2> QED BY <2>1, <2>2
<1> DEFINE t == Turns(call[p] - 1)  j == Stage(p, 1)  k == Stage(p, 2)  d == Deg(p, 1)  e == Deg(p, 2)
<1>3. \A tag : Begun(p, tag) = 4 * t + 2 * (d - First) + BegunIn(tag, j) + 2 * (e - First) + BegunIn(tag, k)
  BY <1>1 DEF Begun
<1>4. t \in Nat /\ j \in 0..8 /\ k \in 0..8 /\ d \in First..Order /\ e \in First..Order
      /\ Together(d - e, j, k) /\ (j # 0 => d < Order) /\ (k # 0 => e < Order)
      /\ Turns(call[p]) = t + (Order - First)
  BY <1>1, <1>2
<1> HIDE DEF t, j, k, d, e
<1>5. /\ b = 1 => j = Stage(p, b) /\ d = Deg(p, b)
      /\ b = 2 => k = Stage(p, b) /\ e = Deg(p, b)
  BY DEF d, e, j, k
<1>6. \A tag \in {"scatter", "gather"} :
        /\ Begun(p, tag) \in Nat /\ Begun(p, tag) <= 4 * Turns(call[p])
        /\ b = 1 => Begun(p, tag) < 4 * t + 4 * (d + 1 - First) + 2
        /\ b = 2 => Begun(p, tag) < 4 * t + 4 * (e + 1 - First) + 4
  BY <1>1, <1>3, <1>4 DEF BegunIn, Together
<1>7. CASE b = 1
  <2>1. /\ j = 1 => Begun(p, "scatter") = 4 * t + 4 * (d - First) + 1
        /\ j = 5 => Begun(p, "scatter") = 4 * t + 4 * (d - First) + 2
        /\ j = 4 => Begun(p, "gather") = 4 * t + 4 * (d - First) + 1
        /\ j = 8 => Begun(p, "gather") = 4 * t + 4 * (d - First) + 2
        /\ j = 8 => Begun(p, "scatter") >= 4 * t + 4 * (d - First) + 2
    BY <1>1, <1>3, <1>4 DEF BegunIn, Together
  <2> DEFINE of(m) == Exchange(call[p], Deg(p, b), b, m)
  <2>2. d = Deg(p, b) /\ j = Stage(p, b) /\ d \in Nat /\ d + 1 \in Nat
    BY <1>1, <1>4, <1>5, <1>7
  <2>3. /\ of(1) = 4 * t + 4 * (d - First) + 1 /\ of(2) = 4 * t + 4 * (d - First) + 2
        /\ Exchange(call[p], Deg(p, b) + 1, b, 2) = 4 * t + 4 * (d + 1 - First) + 2
    <3> DEFINE f == d + 1
    <3> HIDE DEF f
    <3>1. /\ Exchange(call[p], d, b, 1) = 4 * t + 4 * (d - First) + 2 * (b - 1) + 1
          /\ Exchange(call[p], d, b, 2) = 4 * t + 4 * (d - First) + 2 * (b - 1) + 2
          /\ Exchange(call[p], f, b, 2) = 4 * t + 4 * (f - First) + 2 * (b - 1) + 2
      BY DEF Exchange, t
    <3>2. f = Deg(p, b) + 1
      BY <2>2 DEF f
    <3>3. /\ 4 * t + 4 * (d - First) + 2 * (b - 1) + 1 = 4 * t + 4 * (d - First) + 1
          /\ 4 * t + 4 * (d - First) + 2 * (b - 1) + 2 = 4 * t + 4 * (d - First) + 2
          /\ 4 * t + 4 * (f - First) + 2 * (b - 1) + 2 = 4 * t + 4 * (d + 1 - First) + 2
      BY <1>1, <1>4, <2>2, <1>7 DEF f
    <3>4. Exchange(call[p], d, b, 1) = of(1) /\ Exchange(call[p], d, b, 2) = of(2)
      BY <2>2
    <3> QED BY <3>1, <3>2, <3>3, <3>4
  <2> HIDE DEF of, Deg, Stage, Begun, Exchange, Turns
  <2> QED BY <2>1, <2>2, <2>3, <1>6, <1>7 DEF of
<1>8. CASE b = 2
  <2>1. /\ k = 1 => Begun(p, "scatter") = 4 * t + 4 * (e - First) + 3
        /\ k = 5 => Begun(p, "scatter") = 4 * t + 4 * (e - First) + 4
        /\ k = 4 => Begun(p, "gather") = 4 * t + 4 * (e - First) + 3
        /\ k = 8 => Begun(p, "gather") = 4 * t + 4 * (e - First) + 4
        /\ k = 8 => Begun(p, "scatter") >= 4 * t + 4 * (e - First) + 4
    BY <1>1, <1>3, <1>4 DEF BegunIn, Together
  <2> DEFINE of(m) == Exchange(call[p], Deg(p, b), b, m)
  <2>2. e = Deg(p, b) /\ k = Stage(p, b) /\ e \in Nat /\ e + 1 \in Nat
    BY <1>1, <1>4, <1>5, <1>8
  <2>3. /\ of(1) = 4 * t + 4 * (e - First) + 3 /\ of(2) = 4 * t + 4 * (e - First) + 4
        /\ Exchange(call[p], Deg(p, b) + 1, b, 2) = 4 * t + 4 * (e + 1 - First) + 4
    <3> DEFINE f == e + 1
    <3> HIDE DEF f
    <3>1. /\ Exchange(call[p], e, b, 1) = 4 * t + 4 * (e - First) + 2 * (b - 1) + 1
          /\ Exchange(call[p], e, b, 2) = 4 * t + 4 * (e - First) + 2 * (b - 1) + 2
          /\ Exchange(call[p], f, b, 2) = 4 * t + 4 * (f - First) + 2 * (b - 1) + 2
      BY DEF Exchange, t
    <3>2. f = Deg(p, b) + 1
      BY <2>2 DEF f
    <3>3. /\ 4 * t + 4 * (e - First) + 2 * (b - 1) + 1 = 4 * t + 4 * (e - First) + 3
          /\ 4 * t + 4 * (e - First) + 2 * (b - 1) + 2 = 4 * t + 4 * (e - First) + 4
          /\ 4 * t + 4 * (f - First) + 2 * (b - 1) + 2 = 4 * t + 4 * (e + 1 - First) + 4
      BY <1>1, <1>4, <2>2, <1>8 DEF f
    <3>4. Exchange(call[p], e, b, 1) = of(1) /\ Exchange(call[p], e, b, 2) = of(2)
      BY <2>2
    <3> QED BY <3>1, <3>2, <3>3, <3>4
  <2> HIDE DEF of, Deg, Stage, Begun, Exchange, Turns
  <2> QED BY <2>1, <2>2, <2>3, <1>6, <1>8 DEF of
<1> QED BY <1>7, <1>8 DEF Blocks

\* A rank has begun a number of exchanges.
LEMMA BegunNat ==
  ASSUME ConstantsOK, Places, NEW p \in Ranks, NEW tag \in {"scatter", "gather"}
  PROVE  Begun(p, tag) \in Nat
<1>1. CASE call[p] = 0
  BY <1>1 DEF Begun
<1>2. CASE call[p] # 0
  <2>1. call[p] >= 1 /\ 1 \in Blocks
    BY <1>2, Where DEF Blocks
  <2> QED BY <2>1, Counted
<1> QED BY <1>1, <1>2

(***************************************************************************)
(* What a step of the program changes of this.                             *)
(***************************************************************************)
\* p takes block b from stage k to the next; nothing else moves.
Going(p, b, k) ==
  /\ Places' /\ call[p] >= 1 /\ call' = call /\ variant' = variant /\ First' = First
  /\ Stage(p, b) = k /\ Stage(p, b)' = (IF k = 8 THEN 0 ELSE k + 1)
  /\ Deg(p, b)' = Deg(p, b) + (IF k = 8 THEN 1 ELSE 0)
  /\ \A o \in Blocks : o # b => Stage(p, o)' = Stage(p, o) /\ Deg(p, o)' = Deg(p, o)
  /\ \A q \in Ranks, o \in Blocks : q # p => Stage(q, o)' = Stage(q, o) /\ Deg(q, o)' = Deg(q, o)

\* What Goes says, for the block of the step.
LEMMA GoesOn ==
  ASSUME ConstantsOK, Places, NEW p \in Ranks, NEW what \in Whats, Doing(p, what), Proceeds(p),
         NEW b \in Blocks, b = Block(p)
  PROVE  Going(p, b, StageBefore(what)) /\ StageBefore(what) \in 0..8
<1> HIDE DEF Stage, Deg, Places, First
<1>1. StageBefore(what) \in 0..8
  BY DEF StageBefore
<1> QED BY <1>1, Goes DEF Going

\* A rank whose blocks stay where they are begins no exchange.
LEMMA BegunStays ==
  ASSUME NEW p \in Ranks, NEW tag, call'[p] = call[p], First' = First,
         \A o \in Blocks : Stage(p, o)' = Stage(p, o) /\ Deg(p, o)' = Deg(p, o)
  PROVE  Begun(p, tag)' = Begun(p, tag)
<1>1. Stage(p, 1)' = Stage(p, 1) /\ Deg(p, 1)' = Deg(p, 1) /\ Stage(p, 2)' = Stage(p, 2) /\ Deg(p, 2)' = Deg(p, 2)
  BY DEF Blocks
<1> QED BY <1>1 DEF Begun, Turns

\* An exchange begins with the stage that opens it.
LEMMA BegunMoves ==
  ASSUME ConstantsOK, Places, NEW p \in Ranks, NEW b \in Blocks, NEW k \in 0..8, Going(p, b, k)
  PROVE  /\ Begun(p, "scatter")' = Begun(p, "scatter") + (IF k \in {0, 4} THEN 1 ELSE 0)
         /\ Begun(p, "gather")' = Begun(p, "gather") + (IF k \in {3, 7} THEN 1 ELSE 0)
         /\ \A q \in Ranks, tag \in {"scatter", "gather"} : q # p => Begun(q, tag)' = Begun(q, tag)
<1>1. /\ call[p] >= 1 /\ call[p] - 1 \in Nat /\ First \in {0, 1} /\ Order \in Nat /\ Order >= 2
      /\ Deg(p, 1) \in Nat /\ Deg(p, 2) \in Nat /\ call' = call /\ First' = First
      /\ Stage(p, 1) \in 0..8 /\ Stage(p, 2) \in 0..8
  BY Where, Programs DEF Going, Places, Blocks
<1>2. Turns(call[p] - 1) \in Nat /\ (Turns(call[p] - 1))' = Turns(call[p] - 1)
  BY <1>1, TurnsGrow DEF Turns
<1> DEFINE t == Turns(call[p] - 1)
<1>3. ASSUME NEW tag \in {"scatter", "gather"}
      PROVE /\ Begun(p, tag) = 4 * t + 2 * (Deg(p, 1) - First) + BegunIn(tag, Stage(p, 1))
                                 + 2 * (Deg(p, 2) - First) + BegunIn(tag, Stage(p, 2))
            /\ Begun(p, tag)' = 4 * t + 2 * (Deg(p, 1)' - First) + BegunIn(tag, Stage(p, 1)')
                                 + 2 * (Deg(p, 2)' - First) + BegunIn(tag, Stage(p, 2)')
  BY <1>1, <1>2 DEF Begun, BegunIn
<1>4. \A q \in Ranks, tag \in {"scatter", "gather"} : q # p => Begun(q, tag)' = Begun(q, tag)
  BY <1>1, BegunStays DEF Going
<1>5. t \in Nat
  BY <1>2
<1> HIDE DEF t, Stage, Deg, Begun
<1>6. CASE b = 1
  <2>1. /\ Stage(p, 1) = k /\ Stage(p, 1)' = (IF k = 8 THEN 0 ELSE k + 1) /\ Deg(p, 1)' = Deg(p, 1) + (IF k = 8 THEN 1 ELSE 0)
        /\ Stage(p, 2)' = Stage(p, 2) /\ Deg(p, 2)' = Deg(p, 2)
    BY <1>6 DEF Going, Blocks
  <2>2. Begun(p, "scatter")' = Begun(p, "scatter") + (IF k \in {0, 4} THEN 1 ELSE 0)
    BY <1>1, <1>3, <1>5, <2>1 DEF BegunIn
  <2>3. Begun(p, "gather")' = Begun(p, "gather") + (IF k \in {3, 7} THEN 1 ELSE 0)
    BY <1>1, <1>3, <1>5, <2>1 DEF BegunIn
  <2> QED BY <1>4, <2>2, <2>3
<1>7. CASE b = 2
  <2>1. /\ Stage(p, 2) = k /\ Stage(p, 2)' = (IF k = 8 THEN 0 ELSE k + 1) /\ Deg(p, 2)' = Deg(p, 2) + (IF k = 8 THEN 1 ELSE 0)
        /\ Stage(p, 1)' = Stage(p, 1) /\ Deg(p, 1)' = Deg(p, 1)
    BY <1>7 DEF Going, Blocks
  <2>2. Begun(p, "scatter")' = Begun(p, "scatter") + (IF k \in {0, 4} THEN 1 ELSE 0)
    BY <1>1, <1>3, <1>5, <2>1 DEF BegunIn
  <2>3. Begun(p, "gather")' = Begun(p, "gather") + (IF k \in {3, 7} THEN 1 ELSE 0)
    BY <1>1, <1>3, <1>5, <2>1 DEF BegunIn
  <2> QED BY <1>4, <2>2, <2>3
<1> QED BY <1>4, <1>6, <1>7 DEF Blocks

(***************************************************************************)
(* The vectors.                                                            *)
(***************************************************************************)
\* The vectors of a block, of the other block and the projections are distinct.
LEMMA Vectors ==
  ASSUME NEW p, NEW b \in Blocks
  PROVE  /\ X(p, b) \in Stores /\ Y(p, b) \in Stores /\ Projections \in Stores
         /\ X(p, b) # Y(p, b) /\ X(p, b) # Projections /\ Y(p, b) # Projections
         /\ X(p, b)[1] = b /\ Y(p, b)[1] = b
         /\ \A o \in Blocks : o # b => X(p, b) # X(p, o) /\ X(p, b) # Y(p, o) /\ Y(p, b) # Y(p, o)
BY DEF X, Y, Stores, Projections, Blocks

InTurn ==
  \A p \in Ranks, b, o \in Blocks : b # o =>
    /\ Stage(p, b) \in {1, 4, 5, 8} => Stage(p, o) \notin {1, 4, 5, 8}
    /\ Stage(p, b) \in 3..6 => Stage(p, o) \notin 3..6

\* OneAtATime, of all ranks.
LEMMA Apart == Places => InTurn
BY OneAtATime, ConstantsOK DEF InTurn

\* A rank has one exchange open at most.
LEMMA OneOpen ==
  ASSUME ConstantsOK, Places, NEW p \in Ranks, NEW tag, NEW s, Open(p, tag, s)
  PROVE  /\ s \in Stores /\ call[p] >= 1
         /\ \A t, r : Open(p, t, r) => t = tag /\ r = s
<1>1. PICK b \in Blocks : OpenAt(p, b, Stage(p, b), tag, s)
  BY DEF Open
<1>2. Stage(p, b) \in {1, 4, 5, 8}
  BY <1>1 DEF OpenAt
<1>3. s \in Stores /\ call[p] >= 1
  BY <1>1, <1>2, Vectors, Where DEF OpenAt
<1>4. ASSUME NEW t, NEW r, Open(p, t, r) PROVE t = tag /\ r = s
  <2>1. PICK o \in Blocks : OpenAt(p, o, Stage(p, o), t, r)
    BY <1>4 DEF Open
  <2>2. Stage(p, o) \in {1, 4, 5, 8}
    BY <2>1 DEF OpenAt
  <2>3. o = b
    BY <1>2, <2>2, OneAtATime
  <2> HIDE DEF Stage
  <2> QED BY <1>1, <1>2, <2>1, <2>3 DEF OpenAt
<1> QED BY <1>3, <1>4

\* The step from stage k opens the exchange of stage k + 1; only the one of
\* stage k is closed, and an exchange is opened when no other is open.
LEMMA Opens ==
  ASSUME ConstantsOK, Places, NEW p \in Ranks, NEW b \in Blocks, NEW k \in 0..8, Going(p, b, k),
         swapped \in [Ranks -> [Blocks -> BOOLEAN]],
         \/ UNCHANGED swapped
         \/ k = 8 /\ swapped' = [swapped EXCEPT ![p][b] = ~@]
  PROVE  /\ \A tag, s : Open(p, tag, s) => OpenAt(p, b, k, tag, s) \/ Open(p, tag, s)'
         /\ k < 8 => \A tag, s : OpenAt(p, b, k + 1, tag, s) => Open(p, tag, s)'
         /\ k \in {0, 3, 4, 7} => \A tag, s : Open(p, tag, s) => OpenAt(p, b, k, tag, s)
         /\ \A q \in Ranks : \A tag, s : q # p => (Open(q, tag, s)' <=> Open(q, tag, s))
         /\ \A o \in Blocks : o # b => X(p, o)' = X(p, o) /\ Y(p, o)' = Y(p, o)
         /\ \A q \in Ranks, o \in Blocks : q # p => X(q, o)' = X(q, o) /\ Y(q, o)' = Y(q, o)
         /\ k # 8 => X(p, b)' = X(p, b) /\ Y(p, b)' = Y(p, b)
<1>0. /\ call' = call /\ Stage(p, b) = k /\ Stage(p, b)' = (IF k = 8 THEN 0 ELSE k + 1) /\ Places'
      /\ \A o \in Blocks : o # b => Stage(p, o)' = Stage(p, o)
      /\ \A q \in Ranks, o \in Blocks : q # p => Stage(q, o)' = Stage(q, o)
  BY DEF Going
<1>1. \A o \in Blocks : o # b => swapped'[p][o] = swapped[p][o]
  OBVIOUS
<1>2. \A q \in Ranks : q # p => swapped'[q] = swapped[q]
  OBVIOUS
<1>3. /\ \A o \in Blocks : o # b => X(p, o)' = X(p, o) /\ Y(p, o)' = Y(p, o)
      /\ \A q \in Ranks, o \in Blocks : q # p => X(q, o)' = X(q, o) /\ Y(q, o)' = Y(q, o)
      /\ k # 8 => X(p, b)' = X(p, b) /\ Y(p, b)' = Y(p, b)
  BY <1>1, <1>2 DEF X, Y
<1> HIDE DEF Stage, X, Y, Places
<1>4. ASSUME NEW tag, NEW s, Open(p, tag, s), ~OpenAt(p, b, k, tag, s) PROVE Open(p, tag, s)'
  <2>1. PICK o \in Blocks : OpenAt(p, o, Stage(p, o), tag, s)
    BY <1>4 DEF Open
  <2>2. o # b
    BY <1>0, <1>4, <2>1
  <2>3. OpenAt(p, o, Stage(p, o), tag, s)'
    BY <1>0, <1>3, <2>1, <2>2 DEF OpenAt
  <2> QED BY <2>3 DEF Open
<1>5. ASSUME k < 8, NEW tag, NEW s, OpenAt(p, b, k + 1, tag, s) PROVE Open(p, tag, s)'
  <2>1. OpenAt(p, b, Stage(p, b), tag, s)'
    BY <1>0, <1>3, <1>5 DEF OpenAt
  <2> QED BY <2>1 DEF Open
<1>6. ASSUME k \in {0, 3, 4, 7}, NEW tag, NEW s, Open(p, tag, s) PROVE OpenAt(p, b, k, tag, s)
  <2>1. PICK o \in Blocks : OpenAt(p, o, Stage(p, o), tag, s)
    BY <1>6 DEF Open
  <2>2. Stage(p, o) \in {1, 4, 5, 8}
    BY <2>1 DEF OpenAt
  <2>3. ASSUME o # b PROVE FALSE
    <3>1. Stage(p, b)' \in {1, 4, 5, 8} /\ Stage(p, o)' \in {1, 4, 5, 8}
      BY <1>0, <1>6, <2>2, <2>3
    <3>2. Places' => InTurn'
      BY Apart, PTL
    <3> QED BY <1>0, <2>3, <3>1, <3>2 DEF InTurn
  <2> QED BY <1>0, <2>1, <2>3
<1>7. ASSUME NEW q \in Ranks, NEW tag, NEW s, q # p PROVE Open(q, tag, s)' <=> Open(q, tag, s)
  BY <1>0, <1>3, <1>7 DEF Open, OpenAt
<1> QED BY <1>3, <1>4, <1>5, <1>6, <1>7

(***************************************************************************)
(* Values and sums of them.                                                *)
(***************************************************************************)
\* The parts of a value and what replacing them makes of it.
LEMMA ValueFields ==
  ASSUME NEW b, NEW c, NEW k, NEW ranks
  PROVE  /\ Value(b, c, k, ranks).parts = ranks /\ Value(b, c, k, ranks).deg = k
         /\ \A o : [Value(b, c, k, ranks) EXCEPT !.parts = o] = Value(b, c, k, o)
         /\ \A o : [Value(b, c, k, ranks) EXCEPT !.deg = o] = Value(b, c, o, ranks)
         /\ b \in Blocks => Value(b, c, k, ranks) # Zero
BY DEF Value, Zero, Blocks

\* The values are of their type, and sharing an entry is mutual.
LEMMA ValuesAre ==
  ASSUME ConstantsOK
  PROVE  /\ Zero \in Values /\ Garbage \in Values
         /\ \A b \in Blocks, c \in 1..MaxCalls, k \in 0..Order, ranks \in SUBSET Ranks : Value(b, c, k, ranks) \in Values
         /\ \A p \in Ranks : Shares(p) \subseteq Ranks /\ Targets(p) \subseteq Ranks /\ Ghosts[p] \subseteq Ranks
                             /\ p \notin Ghosts[p] /\ p \notin Targets(p) /\ p \in Shares(p)
         /\ \A p, q \in Ranks : q \in Targets(p) <=> p \in Ghosts[q]
BY DEF Values, Shares, Targets, ConstantsOK

\* Contributions of distinct ranks to one value add up to it.
LEMMA SumOfShares ==
  ASSUME NEW D, NEW i0 \in D, NEW vs, DOMAIN vs = D, NEW b \in Blocks, NEW c, NEW k, NEW of,
         \A i \in D : vs[i] = Value(b, c, k, of[i]) \/ (vs[i] = Zero /\ of[i] = {}),
         vs[i0] = Value(b, c, k, of[i0]),
         \A i, j \in D : i # j => of[i] \cap of[j] = {}
  PROVE  SumOf(vs) = Value(b, c, k, UNION {of[i] : i \in D})
<1> DEFINE there == {i \in DOMAIN vs : vs[i] # Zero}
           one == vs[CHOOSE i \in there : TRUE]
<1>1. i0 \in there
  BY ValueFields
<1>2. \A i \in there : vs[i] = Value(b, c, k, of[i]) /\ i \in D
  OBVIOUS
<1>3. \A i, j \in there : /\ [vs[i] EXCEPT !.parts = {}] = [vs[j] EXCEPT !.parts = {}]
                          /\ i # j => vs[i].parts \cap vs[j].parts = {}
  <2>1. \A i \in there : [vs[i] EXCEPT !.parts = {}] = Value(b, c, k, {}) /\ vs[i].parts = of[i] /\ i \in D
    <3> SUFFICES ASSUME NEW i \in there
                 PROVE  [vs[i] EXCEPT !.parts = {}] = Value(b, c, k, {}) /\ vs[i].parts = of[i] /\ i \in D
      OBVIOUS
    <3>1. vs[i] = Value(b, c, k, of[i]) /\ i \in D
      BY <1>2
    <3>2. [Value(b, c, k, of[i]) EXCEPT !.parts = {}] = Value(b, c, k, {}) /\ Value(b, c, k, of[i]).parts = of[i]
      BY ValueFields
    <3> QED BY <3>1, <3>2
  <2> HIDE DEF there
  <2>2. ASSUME NEW i \in there, NEW j \in there
        PROVE  [vs[i] EXCEPT !.parts = {}] = [vs[j] EXCEPT !.parts = {}]
    BY <2>1
  <2>3. ASSUME NEW i \in there, NEW j \in there, i # j
        PROVE  vs[i].parts \cap vs[j].parts = {}
    <3>1. vs[i].parts = of[i] /\ vs[j].parts = of[j] /\ i \in D /\ j \in D
      BY <2>1
    <3>2. of[i] \cap of[j] = {}
      BY <3>1, <2>3
    <3> QED BY <3>1, <3>2
  <2> QED BY <2>2, <2>3
<1>4. PICK j \in there : one = vs[j]
  BY <1>1
<1>5. [one EXCEPT !.parts = UNION {vs[i].parts : i \in there}] = Value(b, c, k, UNION {vs[i].parts : i \in there})
  <2>1. one = Value(b, c, k, of[j])
    BY <1>2, <1>4
  <2> HIDE DEF one, there
  <2> DEFINE all == UNION {vs[i].parts : i \in there}
  <2>2. [Value(b, c, k, of[j]) EXCEPT !.parts = all] = Value(b, c, k, all)
    <3> HIDE DEF all
    <3> QED BY ValueFields
  <2> QED BY <2>1, <2>2
<1>6. UNION {vs[i].parts : i \in there} = UNION {of[i] : i \in D}
  <2>1. \A i \in D : i \notin there => of[i] = {}
    BY ValueFields
  <2>2. \A i \in there : vs[i].parts = of[i] /\ i \in D
    BY <1>2, ValueFields
  <2> HIDE DEF there
  <2> QED BY <2>1, <2>2
<1>7. SumOf(vs) = [one EXCEPT !.parts = UNION {vs[i].parts : i \in there}]
  <2>1. there # {}
    BY <1>1
  <2> QED BY <1>3, <2>1 DEF SumOf
<1> QED BY <1>5, <1>6, <1>7

\* A contribution added to nothing, or to an entry with no contribution, stays itself.
LEMMA SumOfTwo ==
  ASSUME NEW b \in Blocks, NEW c, NEW k, NEW ranks, NEW x, x = Zero \/ x = Value(b, c, k, {})
  PROVE  SumOf(<<x, Value(b, c, k, ranks)>>) = Value(b, c, k, ranks)
<1> DEFINE vs == <<x, Value(b, c, k, ranks)>>
           of == <<{}, ranks>>
<1>1. DOMAIN vs = {1, 2} /\ vs[1] = x /\ vs[2] = Value(b, c, k, ranks) /\ of[1] = {} /\ of[2] = ranks
  <2>1. DOMAIN vs = {1, 2}
    OBVIOUS
  <2> QED BY <2>1
<1> HIDE DEF vs, of
<1>2. SumOf(vs) = Value(b, c, k, UNION {of[i] : i \in {1, 2}})
  <2>1. /\ \A i \in {1, 2} : vs[i] = Value(b, c, k, of[i]) \/ (vs[i] = Zero /\ of[i] = {})
        /\ \A i, j \in {1, 2} : i # j => of[i] \cap of[j] = {}
    BY <1>1
  <2>2. 2 \in {1, 2} /\ vs[2] = Value(b, c, k, of[2])
    BY <1>1
  <2> QED BY <1>1, <2>1, <2>2, SumOfShares
<1>3. UNION {of[i] : i \in {1, 2}} = ranks
  BY <1>1
<1> QED BY <1>2, <1>3 DEF vs

\* The contributions of all that share an entry make it complete.
LEMMA AccumulatedAll ==
  ASSUME NEW p \in Ranks, NEW s, NEW b \in Blocks, NEW c, NEW k,
         own[p][s] = Value(b, c, k, {p}), \A q \in Targets(p) : buf[p][s][q] = Value(b, c, k, {q})
  PROVE  Accumulated(p, s) = Value(b, c, k, Shares(p))
<1> DEFINE vs == [q \in Shares(p) |-> IF q = p THEN own[p][s] ELSE buf[p][s][q]]
           of == [q \in Shares(p) |-> {q}]
<1>1. DOMAIN vs = Shares(p) /\ p \in Shares(p) /\ (\A q \in Shares(p) : vs[q] = Value(b, c, k, of[q]))
      /\ \A q \in Shares(p) : of[q] = {q}
  BY DEF Shares
<1>2. Accumulated(p, s) = SumOf(vs)
  BY DEF Accumulated
<1> HIDE DEF vs, of
<1>3. \A i, j \in Shares(p) : i # j => of[i] \cap of[j] = {}
  BY <1>1
<1>4. SumOf(vs) = Value(b, c, k, UNION {of[i] : i \in Shares(p)})
  BY <1>1, <1>3, SumOfShares
<1>5. UNION {of[i] : i \in Shares(p)} = Shares(p)
  BY <1>1
<1> QED BY <1>2, <1>4, <1>5

\* The entry a scaled vector begins with.
LEMMA NextDegree ==
  ASSUME NEW b, NEW c, NEW k, NEW ranks
  PROVE  [Value(b, c, k, ranks) EXCEPT !.deg = @ + 1, !.parts = {}] = Value(b, c, k + 1, {})
<1>1. [Value(b, c, k, ranks) EXCEPT !.deg = @ + 1, !.parts = {}]
        = [[Value(b, c, k, ranks) EXCEPT !.deg = Value(b, c, k, ranks).deg + 1] EXCEPT !.parts = {}]
  OBVIOUS
<1> DEFINE e == k + 1
<1> HIDE DEF e
<1>2. /\ [Value(b, c, k, ranks) EXCEPT !.deg = e] = Value(b, c, e, ranks)
      /\ Value(b, c, k, ranks).deg = k
      /\ [Value(b, c, e, ranks) EXCEPT !.parts = {}] = Value(b, c, e, {})
  BY ValueFields
<1> QED BY <1>1, <1>2 DEF e

(***************************************************************************)
(* The links.                                                              *)
(***************************************************************************)
\* A link joins two ranks, one of which has a ghost of the other.
LEMMA LinkParts ==
  ASSUME ConstantsOK, NEW l \in Links
  PROVE  /\ l[1] \in Ranks /\ l[2] \in Ranks /\ l[3] \in {"scatter", "gather"}
         /\ l = <<l[1], l[2], l[3]>>
         /\ Joins(l) => l[1] # l[2]
         /\ Joins(l) /\ l[3] = "scatter" => l[1] \in Ghosts[l[2]] /\ l[2] \in Targets(l[1])
         /\ Joins(l) /\ l[3] = "gather" => l[1] \in Targets(l[2]) /\ l[2] \in Ghosts[l[1]]
<1>1. PICK p \in Ranks, q \in Ranks, tag \in {"scatter", "gather"} : l = <<p, q, tag>>
  BY DEF Links
<1>2. l[1] = p /\ l[2] = q /\ l[3] = tag
  BY <1>1
<1> QED BY <1>1, <1>2, ValuesAre DEF Joins

\* A message that was not copied yet, and one that was.
Uncopied(l, s) == \E i \in 1..Len(msgs[l]) : msgs[l][i].copy = <<>> /\ msgs[l][i].store = s

\* A send in flight whose message is still in the buffer is of the open exchange.
LEMMA UncopiedIsPosted ==
  ASSUME NEW l \in Links, Flows(l), NEW s
  PROVE  /\ Uncopied(l, s) <=> Contains(msgs[l], Posted(s))
         /\ Uncopied(l, s) => Open(l[1], l[3], s)
<1>1. \A i \in 1..Len(msgs[l]) : msgs[l][i] \in [store : Stores, copy : {<<>>} \cup {<<v>> : v \in Values}]
  BY ElementOfSeq DEF Flows
<1>2. \A i \in 1..Len(msgs[l]) : msgs[l][i].copy = <<>> => msgs[l][i] = Posted(msgs[l][i].store)
  BY <1>1 DEF Posted
<1>3. Posted(s).copy = <<>> /\ Posted(s).store = s
  BY DEF Posted
<1>4. Uncopied(l, s) <=> Contains(msgs[l], Posted(s))
  BY <1>2, <1>3 DEF Uncopied, Contains
<1>5. Uncopied(l, s) => Open(l[1], l[3], s)
  BY DEF Uncopied, Flows
<1> QED BY <1>4, <1>5

\* A link at rest stays as it is, as long as what it still has to do stays open.
LEMMA LinkRests ==
  ASSUME NEW l \in Links, Flows(l), First' = First, msgs'[l] = msgs[l], recvs'[l] = recvs[l],
         Begun(l[1], l[3])' = Begun(l[1], l[3]), Begun(l[2], l[3])' = Begun(l[2], l[3]),
         \A s : recvs[l] = <<s>> /\ Open(l[2], l[3], s) => Open(l[2], l[3], s)',
         \A s : Uncopied(l, s) /\ Open(l[1], l[3], s) => Open(l[1], l[3], s)'
  PROVE  Flows(l)'
<1>1. (recvs[l] = <<>> \/ \E s \in Stores : recvs[l] = <<s>> /\ Open(l[2], l[3], s))'
  BY DEF Flows
<1>2. \A n, v : Carries(l[1], l[3], n, v) => Carries(l[1], l[3], n, v)'
  BY DEF Carries, Exchange, Turns, Content, Shares, Targets
<1>3. ASSUME NEW i \in 1..Len(msgs[l]), msgs[l][i].copy = <<>>
      PROVE  i = Len(msgs[l]) /\ Open(l[1], l[3], msgs[l][i].store)'
  <2>1. PICK s : s = msgs[l][i].store
    OBVIOUS
  <2>2. i = Len(msgs[l]) /\ Open(l[1], l[3], s) /\ Uncopied(l, s)
    BY <1>3, <2>1 DEF Flows, Uncopied
  <2>3. Open(l[1], l[3], s)'
    BY <2>2
  <2> QED BY <2>1, <2>2, <2>3
<1> QED BY <1>1, <1>2, <1>3 DEF Flows

\* After the wait the rank has got everything and all it sent is copied.
LEMMA Ended ==
  ASSUME ConstantsOK, Places, LinkInv, NEW p \in Ranks, NEW tag, NEW s, Open(p, tag, s),
         Waited(p, s, tag), NEW l \in Links, l[3] = tag
  PROVE  /\ l[2] = p => recvs[l] = <<>>
         /\ l[1] = p => \A r : ~Uncopied(l, r)
<1>1. CASE Joins(l)
  <2>1. Flows(l)
    BY <1>1 DEF LinkInv
  <2>2. ASSUME l[2] = p PROVE recvs[l] = <<>>
    <3> SUFFICES ASSUME NEW r \in Stores, recvs[l] = <<r>>, Open(l[2], l[3], r) PROVE FALSE
      BY <2>1 DEF Flows
    <3>1. r = s
      BY <2>2, OneOpen
    <3>2. Contains(recvs[l], s)
      BY <3>1 DEF Contains
    <3> QED BY <2>2, <3>2 DEF Waited
  <2>3. ASSUME l[1] = p, NEW r PROVE ~Uncopied(l, r)
    <3> SUFFICES ASSUME Uncopied(l, r) PROVE FALSE
      OBVIOUS
    <3>1. r = s
      BY <2>1, <2>3, UncopiedIsPosted, OneOpen
    <3> QED BY <2>1, <2>3, <3>1, UncopiedIsPosted DEF Waited
  <2> QED BY <2>2, <2>3
<1>2. CASE ~Joins(l)
  <2>1. msgs[l] = <<>> /\ recvs[l] = <<>>
    BY <1>2 DEF LinkInv
  <2> QED BY <2>1 DEF Uncopied
<1> QED BY <1>1, <1>2

\* A message is added to a link on which the others have been copied.
LEMMA LinkSends ==
  ASSUME NEW l \in Links, Flows(l), First' = First, NEW s \in Stores,
         msgs'[l] = Append(msgs[l], Posted(s)), recvs'[l] = recvs[l],
         \A r : ~Uncopied(l, r), Open(l[1], l[3], s)',
         Begun(l[1], l[3]) \in Nat, Begun(l[2], l[3]) \in Nat,
         Begun(l[1], l[3])' = Begun(l[1], l[3]) + 1, Begun(l[2], l[3])' = Begun(l[2], l[3]),
         \A r : recvs[l] = <<r>> /\ Open(l[2], l[3], r) => Open(l[2], l[3], r)'
  PROVE  Flows(l)'
<1> DEFINE S == [store : Stores, copy : {<<>>} \cup {<<v>> : v \in Values}]
<1> DEFINE n == Len(msgs[l])
<1>1. (recvs[l] = <<>> \/ \E r \in Stores : recvs[l] = <<r>> /\ Open(l[2], l[3], r))'
  BY DEF Flows
<1>2. \A m, v : Carries(l[1], l[3], m, v) => Carries(l[1], l[3], m, v)'
  BY DEF Carries, Exchange, Turns, Content, Shares, Targets
<1>3. msgs[l] \in Seq(S) /\ Posted(s) \in S /\ n \in Nat
  BY DEF Flows, Posted
<1>4. /\ msgs'[l] \in Seq(S) /\ Len(msgs'[l]) = n + 1 /\ msgs'[l][n + 1] = Posted(s)
      /\ \A i \in 1..n : msgs'[l][i] = msgs[l][i]
  <2> HIDE DEF S
  <2> QED BY <1>3
<1>5. Len(recvs[l]) \in Nat /\ Len(recvs[l])' = Len(recvs[l])
  BY DEF Flows
<1>6. (Begun(l[1], l[3]) - Len(msgs[l]) = Begun(l[2], l[3]) - Len(recvs[l]))'
  <2>1. Begun(l[1], l[3]) - n = Begun(l[2], l[3]) - Len(recvs[l])
    BY DEF Flows
  <2> HIDE DEF n, Begun
  <2> QED BY <2>1, <1>3, <1>4, <1>5
<1>7. ASSUME NEW i \in 1..Len(msgs'[l])
      PROVE  (IF msgs[l][i].copy = <<>>
              THEN i = Len(msgs[l]) /\ Open(l[1], l[3], msgs[l][i].store)
              ELSE Carries(l[1], l[3], Begun(l[1], l[3]) - Len(msgs[l]) + i, msgs[l][i].copy[1]))'
  <2>1. CASE i = n + 1
    <3>1. msgs'[l][i].copy = <<>> /\ msgs'[l][i].store = s
      BY <1>4, <2>1 DEF Posted
    <3> QED BY <3>1, <2>1, <1>4
  <2>2. CASE i \in 1..n
    <3>1. msgs[l][i].copy # <<>>
      BY <2>2 DEF Uncopied
    <3>2. Carries(l[1], l[3], Begun(l[1], l[3]) - n + i, msgs[l][i].copy[1])
      BY <2>2, <3>1 DEF Flows
    <3>3. Begun(l[1], l[3])' - (n + 1) + i = Begun(l[1], l[3]) - n + i
      BY <1>3, <2>2
    <3>4. PICK m, v : m = Begun(l[1], l[3]) - n + i /\ v = msgs[l][i].copy[1]
      OBVIOUS
    <3>5. Carries(l[1], l[3], m, v)'
      BY <1>2, <3>2, <3>4
    <3>6. m = Begun(l[1], l[3])' - Len(msgs'[l]) + i /\ v = msgs'[l][i].copy[1] /\ msgs'[l][i].copy # <<>>
      BY <1>4, <2>2, <3>1, <3>3, <3>4
    <3> HIDE DEF Carries, n
    <3> QED BY <3>5, <3>6
  <2> QED BY <1>3, <1>4, <2>1, <2>2
<1> QED BY <1>1, <1>4, <1>6, <1>7 DEF Flows

\* A receive is posted on a link on which none is.
LEMMA LinkAwaits ==
  ASSUME NEW l \in Links, Flows(l), First' = First, NEW s \in Stores,
         msgs'[l] = msgs[l], recvs[l] = <<>>, recvs'[l] = Append(recvs[l], s),
         Open(l[2], l[3], s)',
         Begun(l[1], l[3]) \in Nat, Begun(l[2], l[3]) \in Nat,
         Begun(l[2], l[3])' = Begun(l[2], l[3]) + 1, Begun(l[1], l[3])' = Begun(l[1], l[3]),
         \A r : Uncopied(l, r) /\ Open(l[1], l[3], r) => Open(l[1], l[3], r)'
  PROVE  Flows(l)'
<1>1. recvs'[l] = <<s>>
  OBVIOUS
<1>2. \A n, v : Carries(l[1], l[3], n, v) => Carries(l[1], l[3], n, v)'
  BY DEF Carries, Exchange, Turns, Content, Shares, Targets
<1>3. ASSUME NEW i \in 1..Len(msgs[l]), msgs[l][i].copy = <<>>
      PROVE  i = Len(msgs[l]) /\ Open(l[1], l[3], msgs[l][i].store)'
  <2>1. PICK r : r = msgs[l][i].store
    OBVIOUS
  <2>2. i = Len(msgs[l]) /\ Open(l[1], l[3], r) /\ Uncopied(l, r)
    BY <1>3, <2>1 DEF Flows, Uncopied
  <2>3. Open(l[1], l[3], r)'
    BY <2>2
  <2> QED BY <2>1, <2>2, <2>3
<1>4. (Begun(l[1], l[3]) - Len(msgs[l]) = Begun(l[2], l[3]) - Len(recvs[l]))'
  <2>1. Len(recvs[l]) = 0 /\ Len(recvs'[l]) = 1 /\ Len(msgs[l]) \in Nat
    BY <1>1 DEF Flows
  <2>2. Begun(l[1], l[3]) - Len(msgs[l]) = Begun(l[2], l[3]) - Len(recvs[l])
    BY DEF Flows
  <2> HIDE DEF Begun
  <2> QED BY <2>1, <2>2
<1>5. (recvs[l] = <<>> \/ \E r \in Stores : recvs[l] = <<r>> /\ Open(l[2], l[3], r))'
  BY <1>1
<1> QED BY <1>2, <1>3, <1>4, <1>5 DEF Flows

\* The links of a tag on which p sends, and on which it receives.
Out(p, tag) == {l \in Links : l[1] = p /\ l[3] = tag /\ Joins(l)}
In(p, tag) == {l \in Links : l[2] = p /\ l[3] = tag /\ Joins(l)}

\* The exchanges of p after it has taken block b on from stage k.
Exchanging(p, b, k) ==
  /\ UNCHANGED swapped \/ (k = 8 /\ swapped' = [swapped EXCEPT ![p][b] = ~@])
  /\ \A tag, s : OpenAt(p, b, k, tag, s) => Waited(p, s, tag)
  /\ IF k \in {0, 3, 4, 7}
     THEN \E tag \in {"scatter", "gather"}, s \in Stores :
            OpenAt(p, b, k + 1, tag, s) /\ Posts(s, Out(p, tag), In(p, tag))
     ELSE UNCHANGED wires

\* The links stay in order through every step of the program.
LEMMA LinksKept ==
  ASSUME ConstantsOK, Places, DataTypes, LinkInv, NEW p \in Ranks, NEW b \in Blocks, NEW k \in 0..8,
         Going(p, b, k), Exchanging(p, b, k)
  PROVE  /\ LinkInv' /\ msgs' = [l \in Links |-> msgs'[l]] /\ recvs' = [l \in Links |-> recvs'[l]]
         /\ \A l \in Links : /\ recvs[l] # <<>> => recvs'[l] # <<>>
                             /\ l[2] # p => recvs'[l] = recvs[l]
         /\ \A tag \in {"scatter", "gather"} : \A s : k \in {0, 3, 4, 7} /\ OpenAt(p, b, k + 1, tag, s) =>
              \A l \in In(p, tag) : recvs'[l] # <<>>
<1>0. First' = First /\ Places' /\ call[p] >= 1 /\ call' = call
  BY DEF Going
<1>1. /\ \A tag, s : Open(p, tag, s) => OpenAt(p, b, k, tag, s) \/ Open(p, tag, s)'
      /\ k < 8 => \A tag, s : OpenAt(p, b, k + 1, tag, s) => Open(p, tag, s)'
      /\ k \in {0, 3, 4, 7} => \A tag, s : Open(p, tag, s) => OpenAt(p, b, k, tag, s)
      /\ \A q \in Ranks : \A tag, s : q # p => (Open(q, tag, s)' <=> Open(q, tag, s))
  <2>1. swapped \in [Ranks -> [Blocks -> BOOLEAN]]
    BY DEF DataTypes
  <2> HIDE DEF Places, Open, OpenAt, Going
  <2> QED BY <2>1, Opens DEF Exchanging
<1>2. /\ Begun(p, "scatter")' = Begun(p, "scatter") + (IF k \in {0, 4} THEN 1 ELSE 0)
      /\ Begun(p, "gather")' = Begun(p, "gather") + (IF k \in {3, 7} THEN 1 ELSE 0)
      /\ \A q \in Ranks, tag \in {"scatter", "gather"} : q # p => Begun(q, tag)' = Begun(q, tag)
  BY BegunMoves
<1>3. \A q \in Ranks, tag \in {"scatter", "gather"} : Begun(q, tag) \in Nat
  BY BegunNat
\* What was open and is not any more has come to its end.
<1>4. ASSUME NEW l \in Links, NEW s, Open(l[2], l[3], s), recvs[l] = <<s>>
      PROVE  Open(l[2], l[3], s)'
  <2>1. CASE l[2] # p
    BY <2>1, <1>1, <1>4, LinkParts
  <2>2. CASE l[2] = p
    <3>1. Waited(p, s, l[3]) => recvs[l] = <<>>
      BY <1>4, <2>2, Ended
    <3>2. ~Waited(p, s, l[3])
      BY <1>4, <3>1
    <3> QED BY <3>2, <1>1, <1>4, <2>2 DEF Exchanging
  <2> QED BY <2>1, <2>2
<1>5. ASSUME NEW l \in Links, NEW s, Open(l[1], l[3], s), Uncopied(l, s)
      PROVE  Open(l[1], l[3], s)'
  <2>1. CASE l[1] # p
    BY <2>1, <1>1, <1>5, LinkParts
  <2>2. CASE l[1] = p
    <3>1. ~Waited(p, s, l[3])
      BY <1>5, <2>2, Ended
    <3> QED BY <3>1, <1>1, <1>5, <2>2 DEF Exchanging
  <2> QED BY <2>1, <2>2
<1>6. CASE k \notin {0, 3, 4, 7}
  <2>1. UNCHANGED wires
    BY <1>6 DEF Exchanging
  <2>2. \A q \in Ranks, tag \in {"scatter", "gather"} : Begun(q, tag)' = Begun(q, tag)
    BY <1>2, <1>3, <1>6
  <2>3. ASSUME NEW l \in Links, Joins(l) PROVE Flows(l)'
    BY <1>0, <1>4, <1>5, <2>1, <2>2, <2>3, LinkRests, LinkParts DEF LinkInv, wires
  <2>4. LinkInv'
    BY <2>1, <2>3 DEF LinkInv, wires, Joins, Targets
  <2> QED BY <1>6, <2>1, <2>4 DEF wires, DataTypes
<1>7. CASE k \in {0, 3, 4, 7}
  <2>1. PICK tag \in {"scatter", "gather"}, s \in Stores :
          OpenAt(p, b, k + 1, tag, s) /\ Posts(s, Out(p, tag), In(p, tag))
    BY <1>7 DEF Exchanging
  <2>2. Begun(p, tag)' = Begun(p, tag) + 1 /\ \A t \in {"scatter", "gather"} : t # tag => Begun(p, t)' = Begun(p, t)
    BY <1>2, <1>3, <1>7, <2>1 DEF OpenAt
  <2>3. Open(p, tag, s)'
    BY <1>1, <1>7, <2>1
  <2>4. \A r : ~Open(p, tag, r)
    BY <1>1, <1>7, <2>1 DEF OpenAt
  <2>5. ASSUME NEW l \in Links, Joins(l) PROVE Flows(l)'
    <3>1. Flows(l) /\ l[1] \in Ranks /\ l[2] \in Ranks /\ l[3] \in {"scatter", "gather"} /\ l[1] # l[2]
      BY <2>5, LinkParts DEF LinkInv
    <3>2. CASE l \in Out(p, tag)
      <4>1. l[1] = p /\ l[3] = tag /\ l \notin In(p, tag)
        BY <3>1, <3>2 DEF Out, In
      <4>2. msgs'[l] = Append(msgs[l], Posted(s)) /\ recvs'[l] = recvs[l]
        BY <2>1, <3>2, <4>1 DEF Posts
      <4>3. \A r : ~Uncopied(l, r)
        BY <2>4, <3>1, <4>1, UncopiedIsPosted
      <4> QED BY <1>0, <1>2, <1>3, <1>4, <2>2, <2>3, <3>1, <4>1, <4>2, <4>3, LinkSends
    <3>3. CASE l \in In(p, tag)
      <4>1. l[2] = p /\ l[3] = tag /\ l \notin Out(p, tag)
        BY <3>1, <3>3 DEF Out, In
      <4>2. msgs'[l] = msgs[l] /\ recvs'[l] = Append(recvs[l], s)
        BY <2>1, <3>3, <4>1 DEF Posts
      <4>3. recvs[l] = <<>>
        BY <2>4, <3>1, <4>1 DEF Flows
      <4> QED BY <1>0, <1>2, <1>3, <1>5, <2>2, <2>3, <3>1, <4>1, <4>2, <4>3, LinkAwaits
    <3>4. CASE l \notin Out(p, tag) /\ l \notin In(p, tag)
      <4>1. msgs'[l] = msgs[l] /\ recvs'[l] = recvs[l]
        BY <2>1, <3>4 DEF Posts
      <4>2. l[3] = tag => l[1] # p /\ l[2] # p
        BY <2>5, <3>4 DEF Out, In
      <4>3. Begun(l[1], l[3])' = Begun(l[1], l[3]) /\ Begun(l[2], l[3])' = Begun(l[2], l[3])
        BY <1>2, <2>2, <3>1, <4>2
      <4> QED BY <1>0, <1>4, <1>5, <3>1, <4>1, <4>3, LinkRests
    <3> QED BY <3>2, <3>3, <3>4
  <2>6. ASSUME NEW l \in Links, ~Joins(l) PROVE msgs'[l] = <<>> /\ recvs'[l] = <<>>
    BY <2>1, <2>6 DEF Posts, Out, In, LinkInv
  <2>7. LinkInv'
    <3>1. \A l \in Links : Joins(l)' <=> Joins(l)
      BY DEF Joins, Targets
    <3> QED BY <2>5, <2>6, <3>1 DEF LinkInv
  <2>8. msgs' = [l \in Links |-> msgs'[l]] /\ recvs' = [l \in Links |-> recvs'[l]]
    BY <2>1 DEF Posts
  <2>9. \A l \in Links : l[2] # p => recvs'[l] = recvs[l]
    BY <2>1 DEF Posts, In
  <2>10. ASSUME NEW l \in Links PROVE (recvs[l] # <<>> => recvs'[l] # <<>>) /\ (l \in In(p, tag) => recvs'[l] # <<>>)
    <3>1. CASE l \in In(p, tag)
      <4>1. recvs'[l] = Append(recvs[l], s) /\ Joins(l)
        BY <2>1, <3>1 DEF Posts, In
      <4>2. recvs[l] = <<>> \/ \E r \in Stores : recvs[l] = <<r>>
        BY <4>1 DEF LinkInv, Flows
      <4> QED BY <4>1, <4>2
    <3>2. CASE l \notin In(p, tag)
      BY <2>1, <3>2 DEF Posts
    <3> QED BY <3>1, <3>2
  <2>11. \A t \in {"scatter", "gather"} : \A r : OpenAt(p, b, k + 1, t, r) => t = tag
    BY <1>7, <2>1 DEF OpenAt
  <2>12. ASSUME NEW t \in {"scatter", "gather"}, NEW r, OpenAt(p, b, k + 1, t, r), NEW l \in In(p, t)
         PROVE  recvs'[l] # <<>>
    <3>1. t = tag
      BY <2>11, <2>12
    <3>2. l \in Links /\ l \in In(p, tag)
      BY <2>12, <3>1 DEF In
    <3> QED BY <3>2, <2>10
  <2> HIDE DEF LinkInv, OpenAt, In
  <2> QED BY <2>7, <2>8, <2>9, <2>10, <2>12
<1> QED BY <1>6, <1>7

\* The begin of an exchange posts on all links of its kind at the rank.
LEMMA PostsOf ==
  ASSUME ConstantsOK, NEW p \in Ranks, NEW s
  PROVE  /\ PostsUpdate(p, s) => Posts(s, Out(p, "scatter"), In(p, "scatter"))
         /\ PostsAdd(p, s) => Posts(s, Out(p, "gather"), In(p, "gather"))
         /\ \A q \in Ghosts[p] : <<q, p, "scatter">> \in In(p, "scatter")
         /\ \A q \in Targets(p) : <<q, p, "gather">> \in In(p, "gather")
<1>1. Targets(p) \subseteq Ranks /\ Ghosts[p] \subseteq Ranks
  BY ValuesAre
<1>2. \A q \in Ranks : (p \in Targets(q) <=> q \in Ghosts[p]) /\ (p \in Ghosts[q] <=> q \in Targets(p))
  BY ValuesAre
<1>3. /\ Out(p, "scatter") = {<<p, q, "scatter">> : q \in Targets(p)}
      /\ Out(p, "gather") = {<<p, q, "gather">> : q \in Ghosts[p]}
  BY <1>1 DEF Out, Links, Joins
<1>4. /\ In(p, "scatter") = {<<q, p, "scatter">> : q \in Ghosts[p]}
      /\ In(p, "gather") = {<<q, p, "gather">> : q \in Targets(p)}
  BY <1>1, <1>2 DEF In, Links, Joins
<1> QED BY <1>3, <1>4 DEF PostsUpdate, PostsAdd

(***************************************************************************)
(* What a rank holds.                                                      *)
(***************************************************************************)
HoldsBlock(p, b) == VectorY(p, b) /\ VectorX(p, b) /\ Shared(p, b)

\* The data of a vector at p.
SameVector(p, s) == own'[p][s] = own[p][s] /\ ghost'[p][s] = ghost[p][s] /\ buf'[p][s] = buf[p][s]

\* A receive that is awaited stays awaited.
StillAwaited(p) ==
  \A q \in Ghosts[p] \cup Targets(p), tag \in {"scatter", "gather"} :
    recvs[<<q, p, tag>>] # <<>> => recvs'[<<q, p, tag>>] # <<>>

\* A block keeps what it holds through a step that leaves its vectors alone.
LEMMA BlockStays ==
  ASSUME NEW p, NEW o \in Blocks, HoldsBlock(p, o), call'[p] = call[p], First' = First,
         Stage(p, o)' = Stage(p, o), Deg(p, o)' = Deg(p, o), X(p, o)' = X(p, o), Y(p, o)' = Y(p, o),
         SameVector(p, X(p, o)), SameVector(p, Y(p, o)),
         Stage(p, o) \in 3..6 => cells'[p] = cells[p] /\ SameVector(p, Projections),
         StillAwaited(p) \/ Stage(p, o) \notin {1, 4, 5, 8}
  PROVE  HoldsBlock(p, o)'
<1>1. Shares(p)' = Shares(p) /\ Targets(p)' = Targets(p) /\ \A q : Shares(q)' = Shares(q)
  BY DEF Shares, Targets
<1>2. Stage(p, o) \in {1, 4, 5, 8} =>
        \A q \in Ghosts[p] : \A v, w : Got(p, q, "scatter", v, w) => Got(p, q, "scatter", v, w)'
  BY DEF Got, StillAwaited
<1>3. Stage(p, o) \in {1, 4, 5, 8} =>
        \A q \in Targets(p) : \A v, w : Got(p, q, "gather", v, w) => Got(p, q, "gather", v, w)'
  BY DEF Got, StillAwaited
<1> HIDE DEF Stage, Deg, X, Y
<1>4. VectorY(p, o)'
  BY <1>1, <1>2 DEF HoldsBlock, VectorY, SameVector
<1>5. VectorX(p, o)'
  BY <1>1, <1>3 DEF HoldsBlock, VectorX, SameVector
<1>6. Shared(p, o)'
  <2> DEFINE of(k, ranks) == Value(o, call[p], k, ranks)
             d == Deg(p, o)
  <2>1. Shared(p, o)
    BY DEF HoldsBlock
  <2>2. /\ Stage(p, o)' = Stage(p, o) /\ Deg(p, o)' = Deg(p, o) /\ call'[p] = call[p]
        /\ Stage(p, o) \in 3..6 => cells'[p] = cells[p] /\ own'[p][Projections] = own[p][Projections]
             /\ ghost'[p][Projections] = ghost[p][Projections] /\ buf'[p][Projections] = buf[p][Projections]
    BY DEF SameVector, Projections
  <2>3. (Stage(p, o) \in 3..6 => cells[p] = of(d, {p}))'
    BY <2>1, <2>2 DEF Shared
  <2>4. ASSUME Stage(p, o)' = 4
        PROVE  /\ (own[p][Projections] = of(d, {p}))'
               /\ (\A q \in Ghosts[p] : ghost[p][Projections][q] = of(d, {p}))'
               /\ (\A q \in Targets(p) : Got(p, q, "gather", buf[p][Projections][q], of(d, {q})))'
    <3>1. Stage(p, o) = 4
      BY <2>2, <2>4
    <3>2. /\ own[p][Projections] = of(d, {p})
          /\ \A q \in Ghosts[p] : ghost[p][Projections][q] = of(d, {p})
          /\ \A q \in Targets(p) : Got(p, q, "gather", buf[p][Projections][q], of(d, {q}))
      BY <2>1, <3>1 DEF Shared
    <3> QED BY <2>2, <3>1, <3>2, <1>1, <1>3
  <2>5. ASSUME Stage(p, o)' = 5
        PROVE  /\ (own[p][Projections] = of(d, Shares(p)))'
               /\ (\A q \in Ghosts[p] : Got(p, q, "scatter", ghost[p][Projections][q], of(d, Shares(q))))'
               /\ (\A q \in Targets(p) : buf[p][Projections][q] = of(d, Shares(p)))'
    <3>1. Stage(p, o) = 5
      BY <2>2, <2>5
    <3>2. /\ own[p][Projections] = of(d, Shares(p))
          /\ \A q \in Ghosts[p] : Got(p, q, "scatter", ghost[p][Projections][q], of(d, Shares(q)))
          /\ \A q \in Targets(p) : buf[p][Projections][q] = of(d, Shares(p))
      BY <2>1, <3>1 DEF Shared
    <3> QED BY <2>2, <3>1, <3>2, <1>1, <1>2
  <2> QED BY <2>3, <2>4, <2>5 DEF Shared
<1> QED BY <1>4, <1>5, <1>6 DEF HoldsBlock

(***************************************************************************)
(* A step of the program, whichever it is.                                 *)
(***************************************************************************)
\* p takes block b on from stage k; it changes the vectors of b and, in the
\* stages of the projections, these.
Working(p, b, k) ==
  /\ Going(p, b, k) /\ Exchanging(p, b, k)
  /\ \A q \in Ranks : q # p => own'[q] = own[q] /\ ghost'[q] = ghost[q] /\ buf'[q] = buf[q] /\ cells'[q] = cells[q]
  /\ \A s \in Stores : s \notin {X(p, b), Y(p, b)} /\ (s = Projections => k \notin {3, 4}) => SameVector(p, s)
  /\ k \notin {2, 5} => cells'[p] = cells[p]

\* Within a call a rank holds what its blocks hold.
LEMMA HoldsIsPerBlock ==
  ASSUME NEW p \in Ranks, Holds(p), call[p] >= 1, NEW b \in Blocks
  PROVE  HoldsBlock(p, b)
BY DEF Holds, HoldsBlock

\* A step of the program disturbs only the block it works on.
LEMMA AllElseHolds ==
  ASSUME ConstantsOK, IInv, NEW p \in Ranks, NEW b \in Blocks, NEW k \in 0..8, Working(p, b, k)
  PROVE  /\ Places' /\ LinkInv' /\ call[p] >= 1 /\ call' = call /\ First' = First
         /\ \A q \in Ranks : q # p => Holds(q)'
         /\ \A o \in Blocks : o # b => HoldsBlock(p, o)'
         /\ HoldsBlock(p, b)
<1>1. Places /\ DataTypes /\ LinkInv /\ (\A q \in Ranks : Holds(q)) /\ Going(p, b, k) /\ Exchanging(p, b, k)
  BY DEF IInv, Working
<1>2. /\ Places' /\ call[p] >= 1 /\ call' = call /\ First' = First
      /\ \A o \in Blocks : o # b => Stage(p, o)' = Stage(p, o) /\ Deg(p, o)' = Deg(p, o)
      /\ \A q \in Ranks, o \in Blocks : q # p => Stage(q, o)' = Stage(q, o) /\ Deg(q, o)' = Deg(q, o)
      /\ Stage(p, b) = k /\ Stage(p, b)' = (IF k = 8 THEN 0 ELSE k + 1)
  BY <1>1 DEF Going
<1>3. /\ LinkInv'
      /\ \A l \in Links : (recvs[l] # <<>> => recvs'[l] # <<>>) /\ (l[2] # p => recvs'[l] = recvs[l])
  <2> HIDE DEF Places, DataTypes, LinkInv, Going, Exchanging
  <2> QED BY <1>1, LinksKept
<1>4. \A q \in Ranks : StillAwaited(q)
  <2> SUFFICES ASSUME NEW q \in Ranks, NEW r \in Ghosts[q] \cup Targets(q), NEW tag \in {"scatter", "gather"},
                      recvs[<<r, q, tag>>] # <<>>
               PROVE  recvs'[<<r, q, tag>>] # <<>>
    BY DEF StillAwaited
  <2>1. <<r, q, tag>> \in Links
    BY ValuesAre DEF Links
  <2> QED BY <1>3, <2>1
<1>5. /\ \A o \in Blocks : o # b => X(p, o)' = X(p, o) /\ Y(p, o)' = Y(p, o)
      /\ \A q \in Ranks, o \in Blocks : q # p => X(q, o)' = X(q, o) /\ Y(q, o)' = Y(q, o)
  <2>1. swapped \in [Ranks -> [Blocks -> BOOLEAN]]
    BY <1>1 DEF DataTypes
  <2> HIDE DEF X, Y, Going, Places
  <2> QED BY <1>1, <2>1, Opens DEF Exchanging
<1>6. ASSUME NEW q \in Ranks, q # p PROVE Holds(q)'
  <2>1. \A s : SameVector(q, s)
    BY <1>6 DEF Working, SameVector
  <2>2. cells'[q] = cells[q] /\ ghost'[q] = ghost[q] /\ call'[q] = call[q] /\ StillAwaited(q) /\ First' = First
    BY <1>2, <1>4, <1>6 DEF Working
  <2>3. CASE call[q] = 0
    BY <1>1, <2>2, <2>3 DEF Holds
  <2>4. CASE call[q] # 0
    <3>1. call[q] >= 1
      BY <1>1, <2>4, Where DEF Blocks
    <3>2. ASSUME NEW o \in Blocks PROVE HoldsBlock(q, o)'
      <4>1. HoldsBlock(q, o)
        BY <1>1, <3>1, HoldsIsPerBlock
      <4>2. Stage(q, o)' = Stage(q, o) /\ Deg(q, o)' = Deg(q, o) /\ X(q, o)' = X(q, o) /\ Y(q, o)' = Y(q, o)
        BY <1>2, <1>5, <1>6
      <4> HIDE DEF HoldsBlock, Stage, Deg, X, Y, SameVector, StillAwaited
      <4> QED BY <4>1, <4>2, <2>1, <2>2, BlockStays
    <3> QED BY <3>2, <2>2, <2>4 DEF Holds, HoldsBlock
  <2> QED BY <2>3, <2>4
<1>7. HoldsBlock(p, b)
  BY <1>1, <1>2, HoldsIsPerBlock
<1>8. ASSUME NEW o \in Blocks, o # b PROVE HoldsBlock(p, o)'
  <2>1. HoldsBlock(p, o)
    BY <1>1, <1>2, HoldsIsPerBlock
  <2>2. Stage(p, o)' = Stage(p, o) /\ Deg(p, o)' = Deg(p, o) /\ X(p, o)' = X(p, o) /\ Y(p, o)' = Y(p, o)
    BY <1>2, <1>5, <1>8
  <2>3. SameVector(p, X(p, o)) /\ SameVector(p, Y(p, o))
    <3>1. /\ X(p, o) \in Stores /\ Y(p, o) \in Stores /\ X(p, o) # Projections /\ Y(p, o) # Projections
          /\ X(p, o) \notin {X(p, b), Y(p, b)} /\ Y(p, o) \notin {X(p, b), Y(p, b)}
      BY <1>8, Vectors
    <3> QED BY <3>1 DEF Working
  <2>4. ASSUME Stage(p, o) \in 3..6 PROVE cells'[p] = cells[p] /\ SameVector(p, Projections)
    <3>1. Stage(p, b) \notin 3..6 /\ Stage(p, b)' \notin 3..6
      <4>1. InTurn /\ InTurn'
        BY <1>1, <1>2, Apart, PTL
      <4> HIDE DEF Stage
      <4> QED BY <4>1, <2>2, <2>4, <1>8 DEF InTurn
    <3>2. k \notin {2, 3, 4, 5}
      BY <1>2, <3>1
    <3>3. Projections \in Stores /\ Projections \notin {X(p, b), Y(p, b)}
      BY Vectors
    <3> QED BY <3>2, <3>3 DEF Working
  <2> HIDE DEF HoldsBlock, Stage, Deg, X, Y, SameVector, StillAwaited
  <2> QED BY <1>2, <1>4, <2>1, <2>2, <2>3, <2>4, BlockStays
<1> QED BY <1>2, <1>3, <1>6, <1>7, <1>8

\* What is left to show of a step: the block it works on, and the types.
LEMMA WorkDone ==
  ASSUME ConstantsOK, IInv, NEW p \in Ranks, NEW b \in Blocks, NEW k \in 0..8, Working(p, b, k),
         HoldsBlock(p, b)', DataTypes'
  PROVE  IInv'
<1>1. /\ Places' /\ LinkInv' /\ call[p] >= 1 /\ call' = call
      /\ \A q \in Ranks : q # p => Holds(q)'
      /\ \A o \in Blocks : HoldsBlock(p, o)'
  BY AllElseHolds
<1>2. Holds(p)'
  BY <1>1 DEF Holds, HoldsBlock
<1>3. \A q \in Ranks : Holds(q)'
  BY <1>1, <1>2
<1> QED BY <1>1, <1>3 DEF IInv

Underway == \A p \in Ranks, b \in Blocks : Stage(p, b) # 0 => Deg(p, b) < Order

\* A block that is under way has not reached the full order.
LEMMA UnderwayThere == Places => Underway
BY Where, ConstantsOK DEF Underway

\* What a step of the program starts from and what it leaves of it.
LEMMA WorkOn ==
  ASSUME ConstantsOK, IInv, NEW p \in Ranks, NEW b \in Blocks, NEW k \in 0..8, Going(p, b, k), Exchanging(p, b, k)
  PROVE  /\ Stage(p, b) = k /\ Stage(p, b)' = (IF k = 8 THEN 0 ELSE k + 1)
         /\ Deg(p, b)' = Deg(p, b) + (IF k = 8 THEN 1 ELSE 0)
         /\ k # 8 => X(p, b)' = X(p, b) /\ Y(p, b)' = Y(p, b)
         /\ call'[p] = call[p] /\ First' = First /\ HoldsBlock(p, b)
         /\ Deg(p, b) \in First..Order - 1 /\ call[p] \in 1..MaxCalls
         /\ \A ranks \in SUBSET Ranks : /\ Value(b, call[p], Deg(p, b), ranks) \in Values
                                        /\ Value(b, call[p], Deg(p, b) + 1, ranks) \in Values
         /\ \A q : Targets(q)' = Targets(q) /\ Shares(q)' = Shares(q)
<1>1. Places /\ DataTypes /\ Holds(p)
  BY DEF IInv
<1>2. /\ Stage(p, b) = k /\ Stage(p, b)' = (IF k = 8 THEN 0 ELSE k + 1)
      /\ Deg(p, b)' = Deg(p, b) + (IF k = 8 THEN 1 ELSE 0)
      /\ call' = call /\ First' = First /\ call[p] >= 1 /\ Places'
  BY DEF Going
<1>3. k # 8 => X(p, b)' = X(p, b) /\ Y(p, b)' = Y(p, b)
  BY <1>1, Opens DEF DataTypes, Exchanging
<1>4. call[p] \in 1..MaxCalls
  BY <1>1, <1>2 DEF Places, ConstantsOK
<1>5. Deg(p, b) \in First..Order - 1 /\ First \in {0, 1} /\ Order \in Nat
  <2>1. Deg(p, b) \in First..Order /\ First \in {0, 1} /\ Order \in Nat /\ (k # 0 => Deg(p, b) < Order)
    BY <1>1, <1>2, Where
  <2>2. k = 0 => Deg(p, b)' < Order
    <3>1. Underway'
      BY <1>2, UnderwayThere, PTL
    <3> QED BY <3>1, <1>2 DEF Underway
  <2> QED BY <2>1, <2>2, <1>2
<1>6. HoldsBlock(p, b)
  BY <1>1, <1>2, HoldsIsPerBlock
<1>7. \A d \in 0..Order, ranks \in SUBSET Ranks : Value(b, call[p], d, ranks) \in Values
  BY <1>4, ValuesAre
<1>8. \A q : Targets(q)' = Targets(q) /\ Shares(q)' = Shares(q)
  BY DEF Targets, Shares
<1> HIDE DEF Stage, Deg, X, Y, HoldsBlock
<1> QED BY <1>2, <1>3, <1>4, <1>5, <1>6, <1>7, <1>8

(***************************************************************************)
(* The steps, one by one.                                                  *)
(***************************************************************************)
\* The update of Y begins: its ghosts are awaited and its entry is in the buffer.
LEMMA UpdateBegun ==
  ASSUME ConstantsOK, IInv, NEW p \in Ranks, UpdateGhostValuesBegin(p)
  PROVE  IInv' /\ \E b \in Blocks, k \in 0..8 : Working(p, b, k)
<1>1. "updateBegin" \in Whats /\ StageBefore("updateBegin") = 0
  BY DEF Whats, StageBefore
<1>2. Places /\ DataTypes
  BY DEF IInv
<1>3. PICK b \in Blocks : b = Block(p)
  BY <1>1, <1>2, Does DEF UpdateGhostValuesBegin
<1> DEFINE y == Y(p, b)
<1>4. Going(p, b, 0)
  BY <1>1, <1>2, <1>3, GoesOn DEF UpdateGhostValuesBegin
<1>5. /\ buf' = [buf EXCEPT ![p][y] = SendBuffer(p, y)] /\ PostsUpdate(p, y)
      /\ UNCHANGED <<own, ghost, cells, swapped>>
  BY <1>3 DEF UpdateGhostValuesBegin
<1>6. y \in Stores /\ X(p, b) # y /\ y # Projections
  BY Vectors
<1>7. Exchanging(p, b, 0)
  <2>1. Posts(y, Out(p, "scatter"), In(p, "scatter"))
    BY <1>5, PostsOf
  <2>2. OpenAt(p, b, 0 + 1, "scatter", y) /\ \A tag, s : ~OpenAt(p, b, 0, tag, s)
    BY DEF OpenAt
  <2> QED BY <1>5, <1>6, <2>1, <2>2 DEF Exchanging
<1>8. Working(p, b, 0)
  BY <1>2, <1>4, <1>5, <1>7 DEF Working, DataTypes, SameVector
<1>9. /\ Stage(p, b) = 0 /\ Stage(p, b)' = 1 /\ Deg(p, b)' = Deg(p, b) /\ X(p, b)' = X(p, b) /\ Y(p, b)' = y
      /\ call'[p] = call[p] /\ First' = First /\ HoldsBlock(p, b)
      /\ \A q : Targets(q)' = Targets(q) /\ Shares(q)' = Shares(q)
  BY <1>4, <1>7, WorkOn
<1>10. \A s \in Stores : /\ own'[p][s] = own[p][s] /\ ghost'[p][s] = ghost[p][s]
                         /\ s # y => buf'[p][s] = buf[p][s]
  BY <1>2, <1>5 DEF DataTypes
<1>11. buf'[p][y] = [q \in Targets(p) |-> own[p][y]]
  BY <1>2, <1>5, <1>6 DEF DataTypes, SendBuffer
<1>12. HoldsBlock(p, b)'
  <2>1. \A q \in Ghosts[p] : recvs'[<<q, p, "scatter">>] # <<>>
    <3>1. \A l \in In(p, "scatter") : recvs'[l] # <<>>
      <4>1. OpenAt(p, b, 0 + 1, "scatter", y)
        BY DEF OpenAt
      <4> QED BY <1>2, <1>4, <1>7, <4>1, LinksKept DEF IInv
    <3> QED BY <3>1, PostsOf
  <2> HIDE DEF Stage, Deg, X, Y
  <2>2. VectorY(p, b)'
    BY <1>5, <1>6, <1>9, <1>10, <1>11, <2>1 DEF HoldsBlock, VectorY, Got
  <2>3. VectorX(p, b)'
    BY <1>5, <1>9 DEF HoldsBlock, VectorX
  <2>4. Shared(p, b)'
    BY <1>9 DEF HoldsBlock, Shared
  <2> QED BY <2>2, <2>3, <2>4 DEF HoldsBlock
<1>13. DataTypes'
  <2>1. buf'[p] \in [Stores -> [Targets(p) -> Values]] /\ \A q \in Ranks : q # p => buf'[q] = buf[q]
    BY <1>2, <1>5, <1>6 DEF DataTypes, SendBuffer
  <2>2. msgs' = [l \in Links |-> msgs'[l]] /\ recvs' = [l \in Links |-> recvs'[l]]
    BY <1>2, <1>4, <1>7, LinksKept DEF IInv
  <2> QED BY <1>2, <1>5, <1>9, <2>1, <2>2 DEF DataTypes
<1> QED BY <1>8, <1>12, <1>13, WorkDone

\* What the wait for an exchange has brought.
LEMMA AllGot ==
  ASSUME ConstantsOK, IInv, NEW p \in Ranks, NEW b \in Blocks, NEW tag \in {"scatter", "gather"}, NEW s,
         OpenAt(p, b, Stage(p, b), tag, s), Waited(p, s, tag)
  PROVE  \A q \in Ranks : <<q, p, tag>> \in Links /\ recvs[<<q, p, tag>>] = <<>>
<1>1. Open(p, tag, s) /\ Places /\ LinkInv
  BY DEF Open, IInv
<1>2. \A q \in Ranks : <<q, p, tag>> \in Links
  BY DEF Links
<1>3. ASSUME NEW q \in Ranks PROVE recvs[<<q, p, tag>>] = <<>>
  <2> DEFINE l == <<q, p, tag>>
  <2>1. l \in Links /\ l[2] = p /\ l[3] = tag
    BY <1>2
  <2> HIDE DEF l
  <2>2. recvs[l] = <<>>
    BY <1>1, <2>1, Ended
  <2> QED BY <2>2 DEF l
<1> QED BY <1>2, <1>3

\* The update of Y ends: its ghosts are those of their owners.
LEMMA UpdateEnded ==
  ASSUME ConstantsOK, IInv, NEW p \in Ranks, UpdateGhostValuesEnd(p)
  PROVE  IInv' /\ \E b \in Blocks, k \in 0..8 : Working(p, b, k)
<1>1. "updateEnd" \in Whats /\ StageBefore("updateEnd") = 1
  BY DEF Whats, StageBefore
<1>2. Places /\ DataTypes
  BY DEF IInv
<1>3. PICK b \in Blocks : b = Block(p)
  BY <1>1, <1>2, Does DEF UpdateGhostValuesEnd
<1>4. Going(p, b, 1)
  BY <1>1, <1>2, <1>3, GoesOn DEF UpdateGhostValuesEnd
<1>5. UNCHANGED <<own, ghost, buf, cells, swapped, msgs, recvs>> /\ Waited(p, Y(p, b), "scatter")
  BY <1>3 DEF UpdateGhostValuesEnd, data, wires
<1>6. Exchanging(p, b, 1)
  BY <1>5 DEF Exchanging, OpenAt, wires
<1>7. Working(p, b, 1)
  BY <1>4, <1>5, <1>6 DEF Working, SameVector
<1>8. /\ Stage(p, b) = 1 /\ Stage(p, b)' = 2 /\ Deg(p, b)' = Deg(p, b) /\ X(p, b)' = X(p, b) /\ Y(p, b)' = Y(p, b)
      /\ call'[p] = call[p] /\ First' = First /\ HoldsBlock(p, b)
      /\ \A q : Targets(q)' = Targets(q) /\ Shares(q)' = Shares(q)
  BY <1>4, <1>6, WorkOn
<1>9. \A q \in Ghosts[p] : recvs[<<q, p, "scatter">>] = <<>>
  BY <1>5, <1>8, AllGot, ValuesAre DEF OpenAt
<1>10. HoldsBlock(p, b)'
  <2> HIDE DEF Stage, Deg, X, Y
  <2>1. VectorY(p, b)'
    BY <1>5, <1>8, <1>9 DEF HoldsBlock, VectorY, Got
  <2>2. VectorX(p, b)'
    BY <1>5, <1>8 DEF HoldsBlock, VectorX
  <2>3. Shared(p, b)'
    BY <1>8 DEF HoldsBlock, Shared
  <2> QED BY <2>1, <2>2, <2>3 DEF HoldsBlock
<1>11. DataTypes'
  BY <1>2, <1>5, <1>8 DEF DataTypes
<1> QED BY <1>7, <1>10, <1>11, WorkDone

\* The cells take the values of a coherent Y.
LEMMA Gathered ==
  ASSUME ConstantsOK, IInv, NEW p \in Ranks, GatherCells(p)
  PROVE  IInv' /\ \E b \in Blocks, k \in 0..8 : Working(p, b, k)
<1>1. "gather" \in Whats /\ StageBefore("gather") = 2
  BY DEF Whats, StageBefore
<1>2. Places /\ DataTypes
  BY DEF IInv
<1>3. PICK b \in Blocks : b = Block(p)
  BY <1>1, <1>2, Does DEF GatherCells
<1>4. Going(p, b, 2)
  BY <1>1, <1>2, <1>3, GoesOn DEF GatherCells
<1> DEFINE y == Y(p, b)
           of(ranks) == Value(b, call[p], Deg(p, b), ranks)
<1>5. /\ UNCHANGED <<own, ghost, buf, swapped, msgs, recvs>>
      /\ cells' = [cells EXCEPT ![p] = IF Coherent(p, y) THEN [own[p][y] EXCEPT !.parts = {p}] ELSE Garbage]
  BY <1>3 DEF GatherCells, wires
<1>6. Exchanging(p, b, 2)
  BY <1>5 DEF Exchanging, OpenAt, wires
<1>7. Working(p, b, 2)
  BY <1>2, <1>4, <1>5, <1>6 DEF Working, SameVector, DataTypes
<1>8. /\ Stage(p, b) = 2 /\ Stage(p, b)' = 3 /\ Deg(p, b)' = Deg(p, b) /\ X(p, b)' = X(p, b) /\ Y(p, b)' = Y(p, b)
      /\ call'[p] = call[p] /\ First' = First /\ HoldsBlock(p, b)
      /\ \A q : Targets(q)' = Targets(q) /\ Shares(q)' = Shares(q)
      /\ \A ranks \in SUBSET Ranks : of(ranks) \in Values
  BY <1>4, <1>6, WorkOn
<1>9. own[p][y] = of(Shares(p)) /\ \A q \in Ghosts[p] : ghost[p][y][q] = of(Shares(q))
  BY <1>8 DEF HoldsBlock, VectorY
<1> HIDE DEF y
<1>10. cells'[p] = of({p})
  <2>1. /\ of(Shares(p)).parts = Shares(p)
        /\ \A ranks : [of(Shares(p)) EXCEPT !.parts = ranks] = of(ranks)
    BY ValueFields
  <2> HIDE DEF of
  <2>2. Coherent(p, y)
    BY <1>9, <2>1 DEF Coherent
  <2>3. [own[p][y] EXCEPT !.parts = {p}] = of({p})
    BY <1>9, <2>1
  <2> QED BY <1>2, <1>5, <2>2, <2>3 DEF DataTypes
<1>11. HoldsBlock(p, b)'
  <2> HIDE DEF Stage, Deg, X, Y
  <2>1. VectorY(p, b)'
    BY <1>5, <1>8 DEF HoldsBlock, VectorY, Got
  <2>2. VectorX(p, b)'
    BY <1>5, <1>8 DEF HoldsBlock, VectorX
  <2>3. Shared(p, b)'
    BY <1>8, <1>10 DEF Shared
  <2> QED BY <2>1, <2>2, <2>3 DEF HoldsBlock
<1>12. DataTypes'
  <2>1. {p} \in SUBSET Ranks
    OBVIOUS
  <2>2. cells'[p] \in Values
    BY <1>8, <1>10, <2>1
  <2>3. cells' \in [Ranks -> Values]
    BY <1>2, <1>5, <2>2 DEF DataTypes
  <2> QED BY <1>2, <1>5, <1>8, <2>3 DEF DataTypes
<1> QED BY <1>7, <1>11, <1>12, WorkDone

\* The rank's share of the projections is made and their accumulation begins.
LEMMA ProjectBegun ==
  ASSUME ConstantsOK, IInv, NEW p \in Ranks, ProjectBegin(p)
  PROVE  IInv' /\ \E b \in Blocks, k \in 0..8 : Working(p, b, k)
<1>1. "projectBegin" \in Whats /\ StageBefore("projectBegin") = 3
  BY DEF Whats, StageBefore
<1>2. Places /\ DataTypes
  BY DEF IInv
<1>3. PICK b \in Blocks : b = Block(p)
  BY <1>1, <1>2, Does DEF ProjectBegin
<1>4. Going(p, b, 3)
  BY <1>1, <1>2, <1>3, GoesOn DEF ProjectBegin
<1> DEFINE y == Y(p, b)
           of(ranks) == Value(b, call[p], Deg(p, b), ranks)
<1>5. /\ own' = [own EXCEPT ![p][Projections] = cells[p]]
      /\ ghost' = [ghost EXCEPT ![p] = [@ EXCEPT ![Projections] = [q \in Ghosts[p] |-> cells[p]],
                                                 ![y] = ZeroOutGhosts(p, y)]]
      /\ PostsAdd(p, Projections) /\ UNCHANGED <<buf, cells, swapped>>
  BY <1>3 DEF ProjectBegin
<1>6. y \in Stores /\ X(p, b) # y /\ y # Projections /\ X(p, b) \in Stores /\ X(p, b) # Projections /\ Projections \in Stores
  BY Vectors
<1>7. Exchanging(p, b, 3)
  <2>1. Posts(Projections, Out(p, "gather"), In(p, "gather"))
    BY <1>5, PostsOf
  <2>2. OpenAt(p, b, 3 + 1, "gather", Projections) /\ \A tag, s : ~OpenAt(p, b, 3, tag, s)
    BY DEF OpenAt
  <2> QED BY <1>5, <1>6, <2>1, <2>2 DEF Exchanging
<1>8. /\ own'[p][Projections] = cells[p] /\ own'[p] \in [Stores -> Values]
      /\ \A s \in Stores : s # Projections => own'[p][s] = own[p][s]
      /\ \A q \in Ranks : q # p => own'[q] = own[q]
  BY <1>2, <1>5, <1>6 DEF DataTypes
<1>9. /\ ghost'[p][Projections] = [q \in Ghosts[p] |-> cells[p]]
      /\ ghost'[p][y] = [q \in Ghosts[p] |-> Zero]
      /\ \A s \in Stores : s # Projections /\ s # y => ghost'[p][s] = ghost[p][s]
      /\ \A q \in Ranks : q # p => ghost'[q] = ghost[q]
      /\ ghost'[p] = [s \in Stores |-> ghost'[p][s]] /\ ghost' = [q \in Ranks |-> ghost'[q]]
  <2>1. ghost'[p] = [ghost[p] EXCEPT ![Projections] = [q \in Ghosts[p] |-> cells[p]], ![y] = ZeroOutGhosts(p, y)]
    BY <1>2, <1>5 DEF DataTypes
  <2>2. ghost[p] = [s \in Stores |-> ghost[p][s]]
    BY <1>2 DEF DataTypes
  <2>3. \A q \in Ranks : q # p => ghost'[q] = ghost[q]
    BY <1>2, <1>5 DEF DataTypes
  <2>4. ghost' = [q \in Ranks |-> ghost'[q]]
    BY <1>2, <1>5 DEF DataTypes
  <2> HIDE DEF y
  <2> QED BY <1>6, <2>1, <2>2, <2>3, <2>4 DEF ZeroOutGhosts
<1>10. Working(p, b, 3)
  BY <1>2, <1>4, <1>5, <1>7, <1>8, <1>9 DEF Working, SameVector, DataTypes
<1>11. /\ Stage(p, b) = 3 /\ Stage(p, b)' = 4 /\ Deg(p, b)' = Deg(p, b) /\ X(p, b)' = X(p, b) /\ Y(p, b)' = y
       /\ call'[p] = call[p] /\ First' = First /\ HoldsBlock(p, b)
       /\ \A q : Targets(q)' = Targets(q) /\ Shares(q)' = Shares(q)
  BY <1>4, <1>7, WorkOn
<1>12. cells[p] = of({p})
  BY <1>11 DEF HoldsBlock, Shared
<1>13. \A q \in Targets(p) : recvs'[<<q, p, "gather">>] # <<>>
  <2>1. \A l \in In(p, "gather") : recvs'[l] # <<>>
    <3>1. OpenAt(p, b, 3 + 1, "gather", Projections)
      BY DEF OpenAt
    <3> QED BY <1>2, <1>4, <1>7, <3>1, LinksKept DEF IInv
  <2> QED BY <2>1, PostsOf
<1>14. HoldsBlock(p, b)'
  <2> HIDE DEF Stage, Deg, X, Y
  <2>1. VectorY(p, b)'
    BY <1>6, <1>8, <1>9, <1>11 DEF HoldsBlock, VectorY
  <2>2. VectorX(p, b)'
    BY <1>6, <1>8, <1>9, <1>11 DEF HoldsBlock, VectorX
  <2>3. Shared(p, b)'
    <3>1. cells'[p] = of({p}) /\ own'[p][Projections] = of({p})
      BY <1>5, <1>8, <1>12
    <3>2. \A q \in Ghosts[p] : ghost'[p][Projections][q] = of({p})
      BY <1>9, <1>12
    <3>3. (\A q \in Targets(p) : Got(p, q, "gather", buf[p][Projections][q], of({q})))'
      BY <1>11, <1>13 DEF Got
    <3>4. (cells[p] = of({p}) /\ own[p][Projections] = of({p}))'
      BY <1>11, <3>1
    <3>5. (\A q \in Ghosts[p] : ghost[p][Projections][q] = of({p}))'
      BY <1>11, <3>2
    <3>6. (Stage(p, b) = 4)'
      BY <1>11
    <3>7. (Stage(p, b) \in 3..6 => cells[p] = of({p}))'
      BY <3>4
    <3>8. (Stage(p, b) = 4 =>
             /\ own[p][Projections] = of({p})
             /\ \A q \in Ghosts[p] : ghost[p][Projections][q] = of({p})
             /\ \A q \in Targets(p) : Got(p, q, "gather", buf[p][Projections][q], of({q})))'
      BY <3>3, <3>4, <3>5
    <3>9. (Stage(p, b) # 5)'
      BY <3>6
    <3> QED BY <3>7, <3>8, <3>9 DEF Shared
  <2> QED BY <2>1, <2>2, <2>3 DEF HoldsBlock
<1>15. DataTypes'
  <2>1. ghost'[p] \in [Stores -> [Ghosts[p] -> Values]]
    <3>1. \A s \in Stores : ghost'[p][s] \in [Ghosts[p] -> Values]
      <4> SUFFICES ASSUME NEW s \in Stores PROVE ghost'[p][s] \in [Ghosts[p] -> Values]
        OBVIOUS
      <4>1. Zero \in Values /\ cells[p] \in Values /\ ghost[p][s] \in [Ghosts[p] -> Values]
        BY <1>2, ValuesAre DEF DataTypes
      <4> QED BY <4>1, <1>9
    <3> QED BY <3>1, <1>9
  <2>2. own' \in [Ranks -> [Stores -> Values]]
    BY <1>2, <1>5, <1>6 DEF DataTypes
  <2>3. msgs' = [l \in Links |-> msgs'[l]] /\ recvs' = [l \in Links |-> recvs'[l]]
    BY <1>2, <1>4, <1>7, LinksKept DEF IInv
  <2> QED BY <1>2, <1>5, <1>9, <1>11, <2>1, <2>2, <2>3 DEF DataTypes
<1> QED BY <1>10, <1>14, <1>15, WorkDone

\* X, of one degree less than Y or of the first, is scaled to the entry of the next.
LEMMA ScaledX ==
  ASSUME ConstantsOK, NEW p \in Ranks, NEW b \in Blocks, HoldsBlock(p, b), Stage(p, b) \in 0..4,
         Deg(p, b) \in First..Order, First \in {0, 1}
  PROVE  Scaled(p, b) = Value(b, call[p], Deg(p, b) + 1, {})
<1> DEFINE x == own[p][X(p, b)]  y == own[p][Y(p, b)]  c == call[p]  d == Deg(p, b)  e == d - 1  ranks == Shares(p)
<1>1. y = Value(b, c, d, ranks)
  BY DEF HoldsBlock, VectorY
<1>2. d > First => x = Value(b, c, e, ranks)
  BY DEF HoldsBlock, VectorX
<1>3. d > First \/ d = First
  BY Programs
<1> HIDE DEF x, y, c, d, e, ranks
<1>4. y.parts = ranks /\ y.deg = d /\ [y EXCEPT !.deg = e] = Value(b, c, e, ranks)
      /\ [y EXCEPT !.deg = @ + 1, !.parts = {}] = Value(b, c, d + 1, {})
  <2>1. /\ Value(b, c, d, ranks).parts = ranks /\ Value(b, c, d, ranks).deg = d
        /\ [Value(b, c, d, ranks) EXCEPT !.deg = e] = Value(b, c, e, ranks)
    BY ValueFields
  <2>2. [Value(b, c, d, ranks) EXCEPT !.deg = @ + 1, !.parts = {}] = Value(b, c, d + 1, {})
    BY NextDegree
  <2> QED BY <1>1, <2>1, <2>2
<1>5. [y EXCEPT !.deg = @ - 1] = [y EXCEPT !.deg = e]
  BY <1>1, <1>4 DEF e
<1>6. y.deg = First \/ x = [y EXCEPT !.deg = @ - 1]
  BY <1>2, <1>3, <1>4, <1>5
<1>7. Scaled(p, b) = IF y.parts = ranks /\ (y.deg = First \/ x = [y EXCEPT !.deg = @ - 1])
                     THEN [y EXCEPT !.deg = @ + 1, !.parts = {}] ELSE Garbage
  BY DEF Scaled, x, y, ranks
<1> QED BY <1>4, <1>6, <1>7 DEF c, d

\* The projections are complete, their update begins, and X is scaled.
LEMMA ProjectScaled ==
  ASSUME ConstantsOK, IInv, NEW p \in Ranks, ProjectScale(p)
  PROVE  IInv' /\ \E b \in Blocks, k \in 0..8 : Working(p, b, k)
<1>1. "projectScale" \in Whats /\ StageBefore("projectScale") = 4
  BY DEF Whats, StageBefore
<1>2. Places /\ DataTypes
  BY DEF IInv
<1>3. PICK b \in Blocks : b = Block(p)
  BY <1>1, <1>2, Does DEF ProjectScale
<1>4. Going(p, b, 4)
  BY <1>1, <1>2, <1>3, GoesOn DEF ProjectScale
<1> DEFINE x == X(p, b)
           of(ranks) == Value(b, call[p], Deg(p, b), ranks)
           total == Accumulated(p, Projections)
<1>5. /\ own' = [own EXCEPT ![p] = [@ EXCEPT ![Projections] = total, ![x] = Scaled(p, b)]]
      /\ buf' = [buf EXCEPT ![p][Projections] = [q \in Targets(p) |-> total]]
      /\ Waited(p, Projections, "gather")
      /\ PostsUpdate(p, Projections) /\ UNCHANGED <<ghost, cells, swapped>>
  BY <1>3 DEF ProjectScale
<1>6. x \in Stores /\ Y(p, b) \in Stores /\ x # Y(p, b) /\ Y(p, b) # Projections /\ x # Projections
      /\ Projections \in Stores
  BY Vectors
<1>7. Exchanging(p, b, 4)
  <2>1. Posts(Projections, Out(p, "scatter"), In(p, "scatter"))
    BY <1>5, PostsOf
  <2>2. /\ OpenAt(p, b, 4 + 1, "scatter", Projections)
        /\ \A tag, s : OpenAt(p, b, 4, tag, s) => tag = "gather" /\ s = Projections
    BY DEF OpenAt
  <2> QED BY <1>5, <1>6, <2>1, <2>2 DEF Exchanging
<1>8. /\ Stage(p, b) = 4 /\ Stage(p, b)' = 5 /\ Deg(p, b)' = Deg(p, b) /\ X(p, b)' = x /\ Y(p, b)' = Y(p, b)
      /\ call'[p] = call[p] /\ First' = First /\ HoldsBlock(p, b)
      /\ \A q : Targets(q)' = Targets(q) /\ Shares(q)' = Shares(q)
      /\ \A ranks \in SUBSET Ranks : of(ranks) \in Values /\ Value(b, call[p], Deg(p, b) + 1, ranks) \in Values
      /\ Deg(p, b) \in First..Order - 1
  BY <1>4, <1>7, WorkOn
<1>9. total = of(Shares(p))
  <2>1. own[p][Projections] = of({p}) /\ \A q \in Targets(p) : Got(p, q, "gather", buf[p][Projections][q], of({q}))
    BY <1>8 DEF HoldsBlock, Shared
  <2>2. \A q \in Targets(p) : recvs[<<q, p, "gather">>] = <<>>
    BY <1>5, <1>8, AllGot, ValuesAre DEF OpenAt
  <2>3. \A q \in Targets(p) : buf[p][Projections][q] = of({q})
    BY <2>1, <2>2 DEF Got
  <2> QED BY <2>1, <2>3, AccumulatedAll
<1>10. Scaled(p, b) = Value(b, call[p], Deg(p, b) + 1, {})
  <2>1. First \in {0, 1} /\ Order \in Nat
    BY <1>2, Programs DEF Places
  <2>2. Deg(p, b) \in First..Order
    BY <1>8, <2>1
  <2> QED BY <1>8, <2>1, <2>2, ScaledX
<1> HIDE DEF x, total
<1>11. total \in Values /\ Scaled(p, b) \in Values
  <2>1. Shares(p) \in SUBSET Ranks /\ {} \in SUBSET Ranks
    BY ValuesAre
  <2> QED BY <1>8, <1>9, <1>10, <2>1
<1>12. /\ own'[p][Projections] = total /\ own'[p][x] = Scaled(p, b) /\ own'[p] \in [Stores -> Values]
       /\ \A s \in Stores : s # Projections /\ s # x => own'[p][s] = own[p][s]
       /\ \A q \in Ranks : q # p => own'[q] = own[q]
       /\ own' = [q \in Ranks |-> own'[q]]
  <2>1. own'[p] = [own[p] EXCEPT ![Projections] = total, ![x] = Scaled(p, b)]
    BY <1>2, <1>5 DEF DataTypes
  <2>2. own[p] \in [Stores -> Values]
    BY <1>2 DEF DataTypes
  <2>3. (\A q \in Ranks : q # p => own'[q] = own[q]) /\ own' = [q \in Ranks |-> own'[q]]
    BY <1>2, <1>5 DEF DataTypes
  <2> QED BY <1>6, <1>11, <2>1, <2>2, <2>3
<1>13. /\ buf'[p][Projections] = [q \in Targets(p) |-> total]
       /\ \A s \in Stores : s # Projections => buf'[p][s] = buf[p][s]
       /\ \A q \in Ranks : q # p => buf'[q] = buf[q]
       /\ buf'[p] \in [Stores -> [Targets(p) -> Values]] /\ buf' = [q \in Ranks |-> buf'[q]]
  BY <1>2, <1>5, <1>6, <1>11 DEF DataTypes
<1>14. Working(p, b, 4)
  BY <1>2, <1>4, <1>5, <1>7, <1>12, <1>13 DEF Working, SameVector, DataTypes, x
<1>15. HoldsBlock(p, b)'
  <2> HIDE DEF Stage, Deg, X, Y
  <2>1. VectorY(p, b)'
    BY <1>5, <1>6, <1>8, <1>12 DEF HoldsBlock, VectorY
  <2>2. VectorX(p, b)'
    BY <1>5, <1>6, <1>8, <1>10, <1>12 DEF HoldsBlock, VectorX, x
  <2>3. Shared(p, b)'
    <3>1. (Stage(p, b) \in 3..6 => cells[p] = of({p}))'
      BY <1>5, <1>8 DEF HoldsBlock, Shared
    <3>2. \A q \in Ghosts[p] : recvs'[<<q, p, "scatter">>] # <<>>
      <4>1. \A l \in In(p, "scatter") : recvs'[l] # <<>>
        <5>1. OpenAt(p, b, 4 + 1, "scatter", Projections)
          BY DEF OpenAt
        <5> QED BY <1>2, <1>4, <1>7, <5>1, LinksKept DEF IInv
      <4> QED BY <4>1, PostsOf
    <3>3. (\A q \in Ghosts[p] : Got(p, q, "scatter", ghost[p][Projections][q], of(Shares(q))))'
      BY <3>2 DEF Got
    <3>4. (own[p][Projections] = of(Shares(p)))'
      BY <1>8, <1>9, <1>12
    <3>5. (\A q \in Targets(p) : buf[p][Projections][q] = of(Shares(p)))'
      BY <1>8, <1>9, <1>13
    <3>6. (Stage(p, b) # 4)'
      BY <1>8
    <3>7. (Stage(p, b) = 5 =>
             /\ own[p][Projections] = of(Shares(p))
             /\ \A q \in Ghosts[p] : Got(p, q, "scatter", ghost[p][Projections][q], of(Shares(q)))
             /\ \A q \in Targets(p) : buf[p][Projections][q] = of(Shares(p)))'
      BY <3>3, <3>4, <3>5
    <3> QED BY <3>1, <3>6, <3>7 DEF Shared
  <2> QED BY <2>1, <2>2, <2>3 DEF HoldsBlock
<1>16. DataTypes'
  <2>1. own' \in [Ranks -> [Stores -> Values]]
    <3>1. \A q \in Ranks : own'[q] \in [Stores -> Values]
      BY <1>2, <1>12 DEF DataTypes
    <3> QED BY <3>1, <1>12
  <2>2. msgs' = [l \in Links |-> msgs'[l]] /\ recvs' = [l \in Links |-> recvs'[l]]
    BY <1>2, <1>4, <1>7, LinksKept DEF IInv
  <2> QED BY <1>2, <1>5, <1>8, <1>13, <2>1, <2>2 DEF DataTypes
<1> QED BY <1>14, <1>15, <1>16, WorkDone

\* The projections are coherent when the coupling is applied to the cells.
LEMMA ProjectEnded ==
  ASSUME ConstantsOK, IInv, NEW p \in Ranks, ProjectEnd(p)
  PROVE  IInv' /\ \E b \in Blocks, k \in 0..8 : Working(p, b, k)
<1>1. "projectEnd" \in Whats /\ StageBefore("projectEnd") = 5
  BY DEF Whats, StageBefore
<1>2. Places /\ DataTypes
  BY DEF IInv
<1>3. PICK b \in Blocks : b = Block(p)
  BY <1>1, <1>2, Does DEF ProjectEnd
<1>4. Going(p, b, 5)
  BY <1>1, <1>2, <1>3, GoesOn DEF ProjectEnd
<1> DEFINE of(ranks) == Value(b, call[p], Deg(p, b), ranks)
<1>5. /\ UNCHANGED <<own, ghost, buf, swapped, msgs, recvs>> /\ Waited(p, Projections, "scatter")
      /\ cells' = [cells EXCEPT ![p] =
            IF Coherent(p, Projections) /\ own[p][Projections] = [@ EXCEPT !.parts = Shares(p)]
            THEN @ ELSE Garbage]
  BY <1>3 DEF ProjectEnd, wires
<1>6. Exchanging(p, b, 5)
  BY <1>5 DEF Exchanging, OpenAt, wires
<1>7. Working(p, b, 5)
  BY <1>2, <1>4, <1>5, <1>6 DEF Working, SameVector, DataTypes
<1>8. /\ Stage(p, b) = 5 /\ Stage(p, b)' = 6 /\ Deg(p, b)' = Deg(p, b) /\ X(p, b)' = X(p, b) /\ Y(p, b)' = Y(p, b)
      /\ call'[p] = call[p] /\ First' = First /\ HoldsBlock(p, b)
      /\ \A q : Targets(q)' = Targets(q) /\ Shares(q)' = Shares(q)
  BY <1>4, <1>6, WorkOn
<1>9. \A q \in Ghosts[p] : recvs[<<q, p, "scatter">>] = <<>>
  BY <1>5, <1>8, AllGot, ValuesAre DEF OpenAt
<1>10. /\ own[p][Projections] = of(Shares(p)) /\ cells[p] = of({p})
       /\ \A q \in Ghosts[p] : ghost[p][Projections][q] = of(Shares(q))
  <2>1. /\ own[p][Projections] = of(Shares(p)) /\ cells[p] = of({p})
        /\ \A q \in Ghosts[p] : Got(p, q, "scatter", ghost[p][Projections][q], of(Shares(q)))
    BY <1>8 DEF HoldsBlock, Shared
  <2> QED BY <2>1, <1>9 DEF Got
<1>11. cells' = cells
  <2>1. /\ of(Shares(p)).parts = Shares(p)
        /\ \A ranks : [of(Shares(p)) EXCEPT !.parts = ranks] = of(ranks)
        /\ [of({p}) EXCEPT !.parts = Shares(p)] = of(Shares(p))
    BY ValueFields
  <2> HIDE DEF of
  <2>2. Coherent(p, Projections)
    BY <1>10, <2>1 DEF Coherent
  <2>3. own[p][Projections] = [cells[p] EXCEPT !.parts = Shares(p)]
    BY <1>10, <2>1
  <2>4. cells' = [cells EXCEPT ![p] = cells[p]]
    BY <1>5, <2>2, <2>3
  <2> QED BY <1>2, <2>4 DEF DataTypes
<1>12. HoldsBlock(p, b)'
  <2> HIDE DEF Stage, Deg, X, Y
  <2>1. VectorY(p, b)'
    BY <1>5, <1>8 DEF HoldsBlock, VectorY
  <2>2. VectorX(p, b)'
    BY <1>5, <1>8 DEF HoldsBlock, VectorX
  <2>3. Shared(p, b)'
    BY <1>8, <1>10, <1>11 DEF Shared
  <2> QED BY <2>1, <2>2, <2>3 DEF HoldsBlock
<1>13. DataTypes'
  BY <1>2, <1>5, <1>8, <1>11 DEF DataTypes
<1> QED BY <1>7, <1>12, <1>13, WorkDone

\* The rank's share of the next degree is added to X.
LEMMA Multiplied ==
  ASSUME ConstantsOK, IInv, NEW p \in Ranks, MultiplyCells(p)
  PROVE  IInv' /\ \E b \in Blocks, k \in 0..8 : Working(p, b, k)
<1>1. "multiply" \in Whats /\ StageBefore("multiply") = 6
  BY DEF Whats, StageBefore
<1>2. Places /\ DataTypes
  BY DEF IInv
<1>3. PICK b \in Blocks : b = Block(p)
  BY <1>1, <1>2, Does DEF MultiplyCells
<1>4. Going(p, b, 6)
  BY <1>1, <1>2, <1>3, GoesOn DEF MultiplyCells
<1> DEFINE s == X(p, b)
           x == own[p][s]
           c == [cells[p] EXCEPT !.deg = @ + 1]
           part == IF [x EXCEPT !.parts = {p}] = c THEN c ELSE Garbage
           of(ranks) == Value(b, call[p], Deg(p, b) + 1, ranks)
<1>5. /\ own' = [own EXCEPT ![p][s] = SumOf(<<x, part>>)]
      /\ ghost' = [ghost EXCEPT ![p][s] = [q \in Ghosts[p] |-> SumOf(<<@[q], part>>)]]
      /\ UNCHANGED <<buf, cells, swapped, msgs, recvs>>
  BY <1>3 DEF MultiplyCells, wires
<1>6. s \in Stores /\ s # Y(p, b) /\ s # Projections /\ Y(p, b) \in Stores
  BY Vectors
<1>7. Exchanging(p, b, 6)
  BY <1>5 DEF Exchanging, OpenAt, wires
<1>8. /\ Stage(p, b) = 6 /\ Stage(p, b)' = 7 /\ Deg(p, b)' = Deg(p, b) /\ X(p, b)' = s /\ Y(p, b)' = Y(p, b)
      /\ call'[p] = call[p] /\ First' = First /\ HoldsBlock(p, b)
      /\ \A q : Targets(q)' = Targets(q) /\ Shares(q)' = Shares(q)
      /\ \A ranks \in SUBSET Ranks : of(ranks) \in Values
  BY <1>4, <1>7, WorkOn
<1>9. x = of({}) /\ cells[p] = Value(b, call[p], Deg(p, b), {p}) /\ \A q \in Ghosts[p] : ghost[p][s][q] = Zero
  BY <1>8 DEF HoldsBlock, VectorX, Shared
<1>10. part = of({p})
  <2> DEFINE e == Deg(p, b) + 1
             d == Deg(p, b)
  <2> HIDE DEF e, d
  <2>1. x = Value(b, call[p], e, {}) /\ cells[p] = Value(b, call[p], d, {p})
    BY <1>9 DEF e, d
  <2>2. \A r, z : /\ Value(b, call[p], d, r).deg = d
                  /\ [Value(b, call[p], d, r) EXCEPT !.deg = e] = Value(b, call[p], e, r)
                  /\ [Value(b, call[p], e, z) EXCEPT !.parts = r] = Value(b, call[p], e, r)
    BY ValueFields
  <2>3. c = [cells[p] EXCEPT !.deg = cells[p].deg + 1]
    OBVIOUS
  <2>4. cells[p].deg + 1 = e
    BY <2>1, <2>2 DEF e, d
  <2> HIDE DEF c, x
  <2>5. c = Value(b, call[p], e, {p})
    BY <2>1, <2>2, <2>3, <2>4
  <2>6. part = Value(b, call[p], e, {p})
    BY <2>1, <2>2, <2>5
  <2> QED BY <2>6 DEF e
<1> HIDE DEF part, x
<1>11. SumOf(<<x, part>>) = of({p}) /\ \A q \in Ghosts[p] : SumOf(<<ghost[p][s][q], part>>) = of({p})
  <2> DEFINE e == Deg(p, b) + 1
  <2>1. x = Value(b, call[p], e, {}) /\ part = Value(b, call[p], e, {p}) /\ \A q \in Ghosts[p] : ghost[p][s][q] = Zero
    BY <1>9, <1>10
  <2>2. ASSUME NEW z, z = Zero \/ z = Value(b, call[p], e, {})
        PROVE  SumOf(<<z, Value(b, call[p], e, {p})>>) = Value(b, call[p], e, {p})
    <3> HIDE DEF e
    <3> QED BY <2>2, SumOfTwo
  <2> HIDE DEF e
  <2>3. SumOf(<<x, part>>) = Value(b, call[p], e, {p}) /\ \A q \in Ghosts[p] : SumOf(<<ghost[p][s][q], part>>) = Value(b, call[p], e, {p})
    BY <2>1, <2>2
  <2> QED BY <2>3 DEF e
<1> HIDE DEF s
<1>12. /\ own'[p][s] = of({p}) /\ own'[p] \in [Stores -> Values]
       /\ \A r \in Stores : r # s => own'[p][r] = own[p][r]
       /\ \A q \in Ranks : q # p => own'[q] = own[q]
       /\ own' \in [Ranks -> [Stores -> Values]]
  <2>1. {p} \in SUBSET Ranks
    OBVIOUS
  <2>2. of({p}) \in Values
    BY <1>8, <2>1
  <2> HIDE DEF of
  <2> QED BY <1>2, <1>5, <1>6, <1>11, <2>2 DEF DataTypes
<1>13. /\ ghost'[p][s] = [q \in Ghosts[p] |-> of({p})]
       /\ \A r \in Stores : r # s => ghost'[p][r] = ghost[p][r]
       /\ \A q \in Ranks : q # p => ghost'[q] = ghost[q]
       /\ ghost'[p] \in [Stores -> [Ghosts[p] -> Values]] /\ ghost' = [q \in Ranks |-> ghost'[q]]
  <2> DEFINE g == [q \in Ghosts[p] |-> of({p})]
  <2>1. {p} \in SUBSET Ranks
    OBVIOUS
  <2>2. g \in [Ghosts[p] -> Values]
    BY <1>8, <2>1
  <2>3. [q \in Ghosts[p] |-> SumOf(<<ghost[p][s][q], part>>)] = g
    BY <1>11
  <2>4. ghost' = [ghost EXCEPT ![p][s] = g]
    BY <1>5, <2>3
  <2> HIDE DEF g
  <2>5. /\ ghost'[p][s] = g
        /\ \A r \in Stores : r # s => ghost'[p][r] = ghost[p][r]
        /\ \A q \in Ranks : q # p => ghost'[q] = ghost[q]
        /\ ghost'[p] \in [Stores -> [Ghosts[p] -> Values]] /\ ghost' = [q \in Ranks |-> ghost'[q]]
    BY <1>2, <1>6, <2>2, <2>4 DEF DataTypes
  <2> QED BY <2>5 DEF g
<1>14. Working(p, b, 6)
  BY <1>2, <1>4, <1>5, <1>7, <1>12, <1>13 DEF Working, SameVector, DataTypes, s
<1>15. HoldsBlock(p, b)'
  <2> HIDE DEF Stage, Deg, X, Y
  <2>1. VectorY(p, b)'
    BY <1>5, <1>6, <1>8, <1>12, <1>13 DEF HoldsBlock, VectorY
  <2>2. VectorX(p, b)'
    <3> DEFINE e == Deg(p, b) + 1
    <3>1. (Stage(p, b) = 7)'
      BY <1>8
    <3>2. (own[p][X(p, b)] = Value(b, call[p], e, {p}))'
      BY <1>8, <1>12
    <3>3. (\A q \in Ghosts[p] : ghost[p][X(p, b)][q] = Value(b, call[p], e, {p}))'
      BY <1>8, <1>13
    <3>4. (~(Stage(p, b) <= 4) /\ Stage(p, b) \notin {5, 6} /\ Stage(p, b) \in {7, 8} /\ Stage(p, b) # 8)'
      BY <3>1
    <3> HIDE DEF e
    <3>5. (\A q \in Ghosts[p] : ghost[p][X(p, b)][q] =
             IF Stage(p, b) \in {7, 8} THEN Value(b, call[p], Deg(p, b) + 1, {p}) ELSE Zero)'
      BY <3>3, <3>4 DEF e
    <3>6. (Stage(p, b) \in {7, 8} => own[p][X(p, b)] = Value(b, call[p], Deg(p, b) + 1, {p}))'
      BY <3>2 DEF e
    <3> QED BY <3>4, <3>5, <3>6 DEF VectorX
  <2>3. Shared(p, b)'
    BY <1>8 DEF Shared
  <2> QED BY <2>1, <2>2, <2>3 DEF HoldsBlock
<1>16. DataTypes'
  BY <1>2, <1>5, <1>8, <1>12, <1>13 DEF DataTypes
<1> QED BY <1>14, <1>15, <1>16, WorkDone

\* The accumulation of X begins: the shares of the other ranks are awaited.
LEMMA AddBegun ==
  ASSUME ConstantsOK, IInv, NEW p \in Ranks, AccumulateAddBegin(p)
  PROVE  IInv' /\ \E b \in Blocks, k \in 0..8 : Working(p, b, k)
<1>1. "addBegin" \in Whats /\ StageBefore("addBegin") = 7
  BY DEF Whats, StageBefore
<1>2. Places /\ DataTypes
  BY DEF IInv
<1>3. PICK b \in Blocks : b = Block(p)
  BY <1>1, <1>2, Does DEF AccumulateAddBegin
<1> DEFINE x == X(p, b)
<1>4. Going(p, b, 7)
  BY <1>1, <1>2, <1>3, GoesOn DEF AccumulateAddBegin
<1>5. PostsAdd(p, x) /\ UNCHANGED <<own, ghost, buf, cells, swapped>>
  BY <1>3 DEF AccumulateAddBegin, data
<1>6. x \in Stores
  BY Vectors
<1>7. Exchanging(p, b, 7)
  <2>1. Posts(x, Out(p, "gather"), In(p, "gather"))
    BY <1>5, PostsOf
  <2>2. OpenAt(p, b, 7 + 1, "gather", x) /\ \A tag, s : ~OpenAt(p, b, 7, tag, s)
    BY DEF OpenAt
  <2> QED BY <1>5, <1>6, <2>1, <2>2 DEF Exchanging
<1>8. Working(p, b, 7)
  BY <1>4, <1>5, <1>7 DEF Working, SameVector
<1>9. /\ Stage(p, b) = 7 /\ Stage(p, b)' = 8 /\ Deg(p, b)' = Deg(p, b) /\ X(p, b)' = x /\ Y(p, b)' = Y(p, b)
      /\ call'[p] = call[p] /\ First' = First /\ HoldsBlock(p, b)
      /\ \A q : Targets(q)' = Targets(q) /\ Shares(q)' = Shares(q)
  BY <1>4, <1>7, WorkOn
<1>10. \A q \in Targets(p) : recvs'[<<q, p, "gather">>] # <<>>
  <2>1. \A l \in In(p, "gather") : recvs'[l] # <<>>
    <3>1. OpenAt(p, b, 7 + 1, "gather", x)
      BY DEF OpenAt
    <3> QED BY <1>2, <1>4, <1>7, <3>1, LinksKept DEF IInv
  <2> QED BY <2>1, PostsOf
<1>11. HoldsBlock(p, b)'
  <2> HIDE DEF Stage, Deg, X, Y
  <2>1. VectorY(p, b)'
    BY <1>5, <1>9 DEF HoldsBlock, VectorY
  <2>2. VectorX(p, b)'
    <3> DEFINE e == Deg(p, b) + 1
    <3>1. own[p][x] = Value(b, call[p], e, {p}) /\ \A q \in Ghosts[p] : ghost[p][x][q] = Value(b, call[p], e, {p})
      BY <1>9 DEF HoldsBlock, VectorX
    <3>2. (Stage(p, b) = 8)'
      BY <1>9
    <3>3. (own[p][X(p, b)] = Value(b, call[p], e, {p}) /\ \A q \in Ghosts[p] : ghost[p][X(p, b)][q] = Value(b, call[p], e, {p}))'
      BY <1>5, <1>9, <3>1
    <3>4. (\A q \in Targets(p) : Got(p, q, "gather", buf[p][X(p, b)][q], Value(b, call[p], e, {q})))'
      BY <1>9, <1>10 DEF Got
    <3> HIDE DEF e
    <3>5. (~(Stage(p, b) <= 4) /\ Stage(p, b) \notin {5, 6} /\ Stage(p, b) \in {7, 8})'
      BY <3>2
    <3>6. (\A q \in Ghosts[p] : ghost[p][X(p, b)][q] =
             IF Stage(p, b) \in {7, 8} THEN Value(b, call[p], Deg(p, b) + 1, {p}) ELSE Zero)'
      BY <3>3, <3>5 DEF e
    <3>7. (Stage(p, b) \in {7, 8} => own[p][X(p, b)] = Value(b, call[p], Deg(p, b) + 1, {p}))'
      BY <3>3 DEF e
    <3>8. (Stage(p, b) = 8 => \A q \in Targets(p) : Got(p, q, "gather", buf[p][X(p, b)][q], Value(b, call[p], Deg(p, b) + 1, {q})))'
      BY <3>4 DEF e
    <3> QED BY <3>5, <3>6, <3>7, <3>8 DEF VectorX
  <2>3. Shared(p, b)'
    BY <1>9 DEF HoldsBlock, Shared
  <2> QED BY <2>1, <2>2, <2>3 DEF HoldsBlock
<1>12. DataTypes'
  <2>1. msgs' = [l \in Links |-> msgs'[l]] /\ recvs' = [l \in Links |-> recvs'[l]]
    BY <1>2, <1>4, <1>7, LinksKept DEF IInv
  <2> QED BY <1>2, <1>5, <1>9, <2>1 DEF DataTypes
<1> QED BY <1>8, <1>11, <1>12, WorkDone

\* X is complete, of the next degree, and becomes Y.
LEMMA AddEnded ==
  ASSUME ConstantsOK, IInv, NEW p \in Ranks, AccumulateAddEnd(p)
  PROVE  IInv' /\ \E b \in Blocks, k \in 0..8 : Working(p, b, k)
<1>1. "addEnd" \in Whats /\ StageBefore("addEnd") = 8
  BY DEF Whats, StageBefore
<1>2. Places /\ DataTypes
  BY DEF IInv
<1>3. PICK b \in Blocks : b = Block(p)
  BY <1>1, <1>2, Does DEF AccumulateAddEnd
<1> DEFINE x == X(p, b)  y == Y(p, b)
           of(k, ranks) == Value(b, call[p], k, ranks)
<1>4. Going(p, b, 8)
  BY <1>1, <1>2, <1>3, GoesOn DEF AccumulateAddEnd
<1>5. /\ Waited(p, x, "gather")
      /\ own' = [own EXCEPT ![p][x] = Accumulated(p, x)]
      /\ ghost' = [ghost EXCEPT ![p][x] = ZeroOutGhosts(p, x)]
      /\ swapped' = [swapped EXCEPT ![p][b] = ~@]
      /\ UNCHANGED <<buf, cells, msgs, recvs>>
  BY <1>3 DEF AccumulateAddEnd, wires
<1>6. x \in Stores /\ y \in Stores /\ x # y /\ x # Projections
  BY Vectors
<1>7. Exchanging(p, b, 8)
  <2>1. \A tag, s : OpenAt(p, b, 8, tag, s) => tag = "gather" /\ s = x
    BY DEF OpenAt
  <2> QED BY <1>5, <2>1 DEF Exchanging, wires
<1>8. /\ Stage(p, b) = 8 /\ Stage(p, b)' = 0 /\ Deg(p, b)' = Deg(p, b) + 1
      /\ call'[p] = call[p] /\ First' = First /\ HoldsBlock(p, b)
      /\ \A q : Targets(q)' = Targets(q) /\ Shares(q)' = Shares(q)
      /\ Deg(p, b) \in First..Order - 1
      /\ \A ranks \in SUBSET Ranks : of(Deg(p, b) + 1, ranks) \in Values
  BY <1>4, <1>7, WorkOn
<1>9. X(p, b)' = y /\ Y(p, b)' = x
  BY <1>2, <1>5 DEF DataTypes, X, Y
<1>10. Accumulated(p, x) = of(Deg(p, b) + 1, Shares(p))
  <2> DEFINE e == Deg(p, b) + 1
  <2>1. own[p][x] = of(e, {p}) /\ \A q \in Targets(p) : Got(p, q, "gather", buf[p][x][q], of(e, {q}))
    BY <1>8 DEF HoldsBlock, VectorX
  <2>2. \A q \in Targets(p) : recvs[<<q, p, "gather">>] = <<>>
    BY <1>5, <1>8, AllGot, ValuesAre DEF OpenAt
  <2>3. \A q \in Targets(p) : buf[p][x][q] = of(e, {q})
    BY <2>1, <2>2 DEF Got
  <2> HIDE DEF e
  <2>4. Accumulated(p, x) = of(e, Shares(p))
    BY <2>1, <2>3, AccumulatedAll
  <2> QED BY <2>4 DEF e
<1>11. /\ own[p][y] = of(Deg(p, b), Shares(p)) /\ \A q \in Ghosts[p] : ghost[p][y][q] = Zero
  BY <1>8 DEF HoldsBlock, VectorY
<1> HIDE DEF x, y
<1>12. /\ own'[p][x] = of(Deg(p, b) + 1, Shares(p)) /\ own'[p] \in [Stores -> Values]
       /\ \A r \in Stores : r # x => own'[p][r] = own[p][r]
       /\ \A q \in Ranks : q # p => own'[q] = own[q]
       /\ own' \in [Ranks -> [Stores -> Values]]
  <2>1. Shares(p) \in SUBSET Ranks
    BY ValuesAre
  <2>2. Accumulated(p, x) \in Values
    BY <1>8, <1>10, <2>1
  <2> HIDE DEF of
  <2> QED BY <1>2, <1>5, <1>6, <1>10, <2>2 DEF DataTypes
<1>13. /\ ghost'[p][x] = [q \in Ghosts[p] |-> Zero]
       /\ \A r \in Stores : r # x => ghost'[p][r] = ghost[p][r]
       /\ \A q \in Ranks : q # p => ghost'[q] = ghost[q]
       /\ ghost'[p] \in [Stores -> [Ghosts[p] -> Values]] /\ ghost' = [q \in Ranks |-> ghost'[q]]
  BY <1>2, <1>5, <1>6, ValuesAre DEF DataTypes, ZeroOutGhosts
<1>14. Working(p, b, 8)
  BY <1>2, <1>4, <1>5, <1>7, <1>12, <1>13 DEF Working, SameVector, DataTypes, x
<1>15. HoldsBlock(p, b)'
  <2> HIDE DEF Stage, Deg, X, Y
  <2>1. (Stage(p, b) = 0)'
    BY <1>8
  <2>2. VectorY(p, b)'
    <3>1. (own[p][Y(p, b)] = of(Deg(p, b), Shares(p)))'
      BY <1>8, <1>9, <1>12
    <3>2. (\A q \in Ghosts[p] : ghost[p][Y(p, b)][q] = Zero)'
      BY <1>9, <1>13
    <3> QED BY <2>1, <3>1, <3>2 DEF VectorY
  <2>3. VectorX(p, b)'
    <3>1. Deg(p, b)' - 1 = Deg(p, b)
      <4>1. First \in {0, 1} /\ Order \in Nat
        BY <1>2, Programs DEF Places
      <4> QED BY <1>8, <4>1
    <3>2. (own[p][X(p, b)] = of(Deg(p, b) - 1, Shares(p)))'
      BY <1>6, <1>8, <1>9, <1>11, <1>12, <3>1
    <3>3. (\A q \in Ghosts[p] : ghost[p][X(p, b)][q] = Zero)'
      BY <1>6, <1>9, <1>11, <1>13
    <3> QED BY <2>1, <3>2, <3>3 DEF VectorX
  <2>4. Shared(p, b)'
    BY <2>1 DEF Shared
  <2> QED BY <2>2, <2>3, <2>4 DEF HoldsBlock
<1>16. DataTypes'
  <2>1. swapped' \in [Ranks -> [Blocks -> BOOLEAN]]
    BY <1>2, <1>5 DEF DataTypes
  <2> QED BY <1>2, <1>5, <1>8, <1>12, <1>13, <2>1 DEF DataTypes
<1> QED BY <1>14, <1>15, <1>16, WorkDone

(***************************************************************************)
(* The begin and the end of a call.                                        *)
(***************************************************************************)
\* The links stay in order while no block moves.
LEMMA LinksRest ==
  ASSUME ConstantsOK, LinkInv, First' = First, UNCHANGED <<swapped, msgs, recvs>>,
         \A q \in Ranks, o \in Blocks : Stage(q, o)' = Stage(q, o),
         \A q \in Ranks, tag \in {"scatter", "gather"} : Begun(q, tag)' = Begun(q, tag)
  PROVE  LinkInv'
<1>1. \A q \in Ranks : \A tag, s : Open(q, tag, s) => Open(q, tag, s)'
  BY DEF Open, OpenAt, X, Y
<1>2. ASSUME NEW l \in Links, Joins(l) PROVE Flows(l)'
  BY <1>1, <1>2, LinkRests, LinkParts DEF LinkInv
<1>3. \A l \in Links : Joins(l)' <=> Joins(l)
  BY DEF Joins, Targets
<1> QED BY <1>2, <1>3 DEF LinkInv

\* The ranks hold what they held while nothing of it changes.
LEMMA RanksRest ==
  ASSUME ConstantsOK, IInv, call' = call, First' = First,
         \A q \in Ranks, o \in Blocks : Stage(q, o)' = Stage(q, o) /\ Deg(q, o)' = Deg(q, o),
         UNCHANGED <<own, ghost, buf, cells, swapped, recvs>>
  PROVE  \A q \in Ranks : Holds(q)'
<1> SUFFICES ASSUME NEW q \in Ranks PROVE Holds(q)'
  OBVIOUS
<1>1. Places /\ Holds(q)
  BY DEF IInv
<1>2. CASE call[q] = 0
  BY <1>1, <1>2 DEF Holds
<1>3. CASE call[q] # 0
  <2>1. call[q] >= 1
    BY <1>1, <1>3, Where DEF Blocks
  <2>2. ASSUME NEW o \in Blocks PROVE HoldsBlock(q, o)'
    <3>1. HoldsBlock(q, o)
      BY <1>1, <2>1, HoldsIsPerBlock
    <3>2. X(q, o)' = X(q, o) /\ Y(q, o)' = Y(q, o) /\ (\A s : SameVector(q, s)) /\ StillAwaited(q)
      BY DEF X, Y, SameVector, StillAwaited
    <3> HIDE DEF HoldsBlock, Stage, Deg, X, Y, SameVector, StillAwaited
    <3> QED BY <3>1, <3>2, BlockStays
  <2> QED BY <1>3, <2>2 DEF Holds, HoldsBlock
<1> QED BY <1>2, <1>3

\* The end of a call changes nothing but the position.
LEMMA Returned ==
  ASSUME ConstantsOK, IInv, NEW p \in Ranks, Return(p)
  PROVE  /\ IInv' /\ call' = call /\ First' = First
         /\ \A q \in Ranks, o \in Blocks : Stage(q, o)' = Stage(q, o) /\ Deg(q, o)' = Deg(q, o)
         /\ UNCHANGED <<data, swapped, wires>>
<1>1. Places /\ DataTypes /\ LinkInv /\ \A q \in Ranks : Holds(q)
  BY DEF IInv
<1>2. pc[p] = 37 /\ pc' = [pc EXCEPT ![p] = 0] /\ UNCHANGED <<variant, call, degree, own, ghost, buf, cells, swapped, msgs, recvs>>
  BY <1>1, Programs DEF Return, Places, data, wires
<1>3. First' = First /\ call' = call /\ \A q : Shares(q)' = Shares(q) /\ Targets(q)' = Targets(q)
  BY <1>2 DEF First, Shares, Targets
<1>4. Places'
  BY <1>1, <1>2, <1>3 DEF Places
<1>5. \A q \in Ranks, o \in Blocks : Stage(q, o)' = Stage(q, o) /\ Deg(q, o)' = Deg(q, o)
  <2>1. pc'[p] = 0 /\ \A q \in Ranks : q # p => pc'[q] = pc[q]
    BY <1>1, <1>2 DEF Places
  <2>2. ASSUME NEW o \in Blocks PROVE Stage(p, o)' = 0 /\ Deg(p, o)' = Order
    BY <2>1 DEF Stage, StageAt, Deg
  <2>3. ASSUME NEW o \in Blocks PROVE Stage(p, o) = 0 /\ Deg(p, o) = Order
    BY <1>1, <1>2, Where
  <2>4. \A q \in Ranks, o \in Blocks : q # p => Stage(q, o)' = Stage(q, o) /\ Deg(q, o)' = Deg(q, o)
    BY <1>2, <2>1 DEF Stage, Deg
  <2> HIDE DEF Stage, Deg
  <2> QED BY <2>2, <2>3, <2>4
<1>6. LinkInv'
  <2>1. \A q \in Ranks, tag \in {"scatter", "gather"} : Begun(q, tag)' = Begun(q, tag)
    BY <1>3, <1>5, BegunStays
  <2> QED BY <1>1, <1>2, <1>3, <1>5, <2>1, LinksRest
<1>7. \A q \in Ranks : Holds(q)'
  BY <1>2, <1>3, <1>5, RanksRest
<1>8. DataTypes'
  BY <1>1, <1>2, <1>3 DEF DataTypes
<1> QED BY <1>2, <1>3, <1>4, <1>5, <1>6, <1>7, <1>8 DEF IInv, data, wires

\* A call begins when no block is under way, and makes Y of the new blocks.
LEMMA Began ==
  ASSUME ConstantsOK, IInv, NEW p \in Ranks, Begin(p)
  PROVE  /\ IInv' /\ call' = [call EXCEPT ![p] = @ + 1] /\ First' = First
         /\ \A q \in Ranks, o \in Blocks : Stage(q, o)' = Stage(q, o) /\ (q # p => Deg(q, o)' = Deg(q, o))
         /\ \A o \in Blocks : Stage(p, o) = 0 /\ Deg(p, o) = Order /\ Deg(p, o)' = First
         /\ UNCHANGED <<buf, cells, swapped, msgs, recvs>>
<1>1. Places /\ DataTypes /\ LinkInv /\ \A q \in Ranks : Holds(q)
  BY DEF IInv
<1>2. /\ pc[p] = 0 /\ call[p] < MaxCalls /\ call' = [call EXCEPT ![p] = @ + 1]
      /\ pc' = [pc EXCEPT ![p] = 1] /\ degree' = [degree EXCEPT ![p] = First + 1]
      /\ UNCHANGED <<variant, buf, cells, swapped, msgs, recvs>>
  BY DEF Begin, wires
<1>3. First' = First /\ \A q : Shares(q)' = Shares(q) /\ Targets(q)' = Targets(q)
  BY <1>2 DEF First, Shares, Targets
<1>4. First \in {0, 1} /\ Order \in Nat /\ Order >= 2 /\ MaxCalls \in Nat /\ call[p] \in Nat
      /\ First + 1 \in 0..Order /\ call[p] + 1 \in 1..MaxCalls
  BY <1>1, <1>2, Programs DEF Places, ConstantsOK
<1>5. /\ call'[p] = call[p] + 1 /\ pc'[p] = 1 /\ degree'[p] = First + 1
      /\ \A q \in Ranks : q # p => call'[q] = call[q] /\ pc'[q] = pc[q] /\ degree'[q] = degree[q]
  BY <1>1, <1>2 DEF Places
<1>6. Places'
  <2>1. variant' \in Variants /\ call' \in [Ranks -> 0..MaxCalls] /\ pc' \in [Ranks -> 0..37] /\ degree' \in [Ranks -> 0..Order]
    BY <1>1, <1>2, <1>4 DEF Places
  <2>2. ASSUME NEW q \in Ranks
        PROVE  /\ call'[q] = 0 => pc'[q] = 0
               /\ pc'[q] \in 1..12 => degree'[q] = First + 1
               /\ pc'[q] \in 13..30 => degree'[q] >= First + 2
               /\ pc'[q] \in 31..37 => degree'[q] = Order
    <3>1. CASE q = p
      BY <3>1, <1>4, <1>5
    <3>2. CASE q # p
      BY <3>2, <1>1, <1>5 DEF Places
    <3> QED BY <3>1, <3>2
  <2> QED BY <1>3, <2>1, <2>2 DEF Places
<1>7. /\ \A q \in Ranks, o \in Blocks : Stage(q, o)' = Stage(q, o) /\ (q # p => Deg(q, o)' = Deg(q, o))
      /\ \A o \in Blocks : Stage(p, o) = 0 /\ Deg(p, o) = Order /\ Deg(p, o)' = First
  <2>1. ASSUME NEW o \in Blocks PROVE Stage(p, o)' = 0
    BY <1>5 DEF Stage, StageAt, StartStage, Blocks
  <2>2. ASSUME NEW o \in Blocks PROVE Deg(p, o)' = First
    <3>1. BehindAt(variant', o, 1) = 1
      BY DEF BehindAt, Blocks
    <3>2. Deg(p, o)' = degree'[p] - BehindAt(variant', o, 1)
      BY <1>5 DEF Deg
    <3> QED BY <3>1, <3>2, <1>4, <1>5
  <2>3. ASSUME NEW o \in Blocks PROVE Stage(p, o) = 0 /\ Deg(p, o) = Order
    BY <1>1, <1>2, Where
  <2>4. \A q \in Ranks, o \in Blocks : q # p => Stage(q, o)' = Stage(q, o) /\ Deg(q, o)' = Deg(q, o)
    BY <1>2, <1>5 DEF Stage, Deg
  <2> HIDE DEF Stage, Deg
  <2> QED BY <2>1, <2>2, <2>3, <2>4
<1>8. LinkInv'
  <2>1. ASSUME NEW tag \in {"scatter", "gather"} PROVE Begun(p, tag)' = Begun(p, tag)
    <3>1. BegunIn(tag, 0) = 0
      BY DEF BegunIn
    <3>2. 1 \in Blocks /\ 2 \in Blocks
      BY DEF Blocks
    <3>3. Begun(p, tag) = 4 * Turns(call[p])
      <4>1. CASE call[p] = 0
        <5>1. Turns(0) = 0
          BY <1>4, TurnsGrow
        <5> QED BY <4>1, <5>1 DEF Begun
      <4>2. CASE call[p] # 0
        <5>1. call[p] - 1 \in Nat /\ call[p] - 1 + 1 = call[p]
          BY <4>2, <1>4
        <5>2. Turns(call[p] - 1) \in Nat /\ Turns(call[p] - 1 + 1) = Turns(call[p] - 1) + (Order - First)
          BY <5>1, <1>4, TurnsGrow
        <5>3. Begun(p, tag) = 4 * Turns(call[p] - 1) + 2 * (Order - First) + 0 + 2 * (Order - First) + 0
          BY <4>2, <1>7, <3>1, <3>2 DEF Begun
        <5> HIDE DEF Begun, Turns
        <5> QED BY <5>1, <5>2, <5>3, <1>4
      <4> QED BY <4>1, <4>2
    <3>4. Begun(p, tag)' = 4 * Turns(call[p])
      <4>1. call'[p] - 1 = call[p] /\ call'[p] # 0
        BY <1>4, <1>5
      <4>2. (Stage(p, 1) = 0 /\ Stage(p, 2) = 0 /\ Deg(p, 1) = First /\ Deg(p, 2) = First)'
        BY <1>3, <1>7, <3>2
      <4>3. (Turns(call[p] - 1))' = Turns(call[p])
        BY <1>3, <4>1 DEF Turns
      <4>4. Turns(call[p]) \in Nat
        BY <1>4, TurnsGrow
      <4>5. Begun(p, tag)' = 4 * Turns(call[p]) + 2 * (First - First) + 0 + 2 * (First - First) + 0
        BY <1>3, <3>1, <4>1, <4>2, <4>3 DEF Begun, BegunIn
      <4> HIDE DEF Begun, Turns
      <4> QED BY <4>4, <4>5, <1>4
    <3> QED BY <3>3, <3>4
  <2>2. \A q \in Ranks, tag \in {"scatter", "gather"} : q # p => Begun(q, tag)' = Begun(q, tag)
    BY <1>3, <1>5, <1>7, BegunStays
  <2>3. \A q \in Ranks, tag \in {"scatter", "gather"} : Begun(q, tag)' = Begun(q, tag)
    BY <2>1, <2>2
  <2>4. \A q \in Ranks, o \in Blocks : Stage(q, o)' = Stage(q, o)
    BY <1>7
  <2> HIDE DEF Begun, Stage, Deg, First
  <2> QED BY <1>1, <1>2, <1>3, <2>3, <2>4, LinksRest
<1> DEFINE of(o) == Value(o, call'[p], First, Shares(p))
<1>9. /\ \A o \in Blocks : own'[p][Y(p, o)] = of(o)
      /\ \A q \in Ranks : q # p => own'[q] = own[q]
      /\ own' \in [Ranks -> [Stores -> Values]]
  <2> DEFINE new == [s \in Stores |->
                       IF \E b \in Blocks : s = Y(p, b) THEN Value(s[1], call'[p], First, Shares(p))
                       ELSE IF variant = "reformulated" /\ s # Projections THEN Zero ELSE own[p][s]]
  <2>1. own' = [own EXCEPT ![p] = new]
    BY DEF Begin
  <2>2. ASSUME NEW o \in Blocks PROVE new[Y(p, o)] = of(o)
    BY Vectors
  <2>3. ASSUME NEW s \in Stores PROVE new[s] \in Values
    <3>1. CASE \E b \in Blocks : s = Y(p, b)
      <4>1. PICK b \in Blocks : s = Y(p, b)
        BY <3>1
      <4>2. new[s] = of(b)
        BY <2>2, <4>1
      <4>3. call'[p] \in 1..MaxCalls /\ First \in 0..Order /\ Shares(p) \in SUBSET Ranks
        BY <1>4, <1>5, ValuesAre
      <4> QED BY <4>2, <4>3, ValuesAre
    <3>2. CASE ~ \E b \in Blocks : s = Y(p, b)
      BY <3>2, <1>1, ValuesAre DEF DataTypes
    <3> QED BY <3>1, <3>2
  <2>4. new \in [Stores -> Values]
    BY <2>3
  <2> HIDE DEF new, of
  <2>5. own'[p] = new /\ (\A q \in Ranks : q # p => own'[q] = own[q]) /\ own' \in [Ranks -> [Stores -> Values]]
    BY <1>1, <2>1, <2>4 DEF DataTypes
  <2> QED BY <2>2, <2>5
<1>10. /\ \A q \in Ranks : q # p => ghost'[q] = ghost[q]
       /\ \A s \in Stores : ghost'[p][s] = [q \in Ghosts[p] |-> Zero] \/ ghost'[p][s] = ghost[p][s]
       /\ ghost' = [q \in Ranks |-> ghost'[q]] /\ ghost'[p] = [s \in Stores |-> ghost'[p][s]]
  <2> DEFINE new == [s \in Stores |->
        IF \E b \in Blocks : s = (IF variant = "plain" THEN Y(p, b) ELSE X(p, b))
        THEN [q \in Ghosts[p] |-> Zero] ELSE ghost[p][s]]
  <2>1. ghost' = [ghost EXCEPT ![p] = new]
    BY DEF Begin
  <2>2. \A s \in Stores : new[s] = [q \in Ghosts[p] |-> Zero] \/ new[s] = ghost[p][s]
    OBVIOUS
  <2>3. new = [s \in Stores |-> new[s]]
    OBVIOUS
  <2> HIDE DEF new
  <2> QED BY <1>1, <2>1, <2>2, <2>3 DEF DataTypes
<1>11. ASSUME NEW o \in Blocks, NEW q \in Ghosts[p]
       PROVE  ghost'[p][X(p, o)][q] = Zero /\ ghost'[p][Y(p, o)][q] = Zero
  <2>1. X(p, o) \in Stores /\ Y(p, o) \in Stores
    BY Vectors
  <2>2. ghost[p][X(p, o)][q] = Zero /\ ghost[p][Y(p, o)][q] = Zero
    <3>1. CASE call[p] = 0
      BY <1>1, <2>1, <3>1 DEF Holds
    <3>2. CASE call[p] # 0
      <4>1. HoldsBlock(p, o)
        BY <1>1, <1>4, <3>2, HoldsIsPerBlock
      <4> HIDE DEF Stage, Deg
      <4> QED BY <1>7, <4>1 DEF HoldsBlock, VectorX, VectorY
    <3> QED BY <3>1, <3>2
  <2> QED BY <1>10, <2>1, <2>2
<1>12. Holds(p)'
  <2>1. ASSUME NEW o \in Blocks PROVE HoldsBlock(p, o)'
    <3> HIDE DEF Stage, Deg, X, Y
    <3>1. (Stage(p, o) = 0 /\ Deg(p, o) = First)'
      BY <1>3, <1>7
    <3>2. X(p, o)' = X(p, o) /\ Y(p, o)' = Y(p, o)
      BY <1>2 DEF X, Y
    <3>3. (own[p][Y(p, o)] = Value(o, call[p], Deg(p, o), Shares(p)))'
      BY <1>3, <1>9, <3>1, <3>2
    <3>4. (\A q \in Ghosts[p] : ghost[p][X(p, o)][q] = Zero /\ ghost[p][Y(p, o)][q] = Zero)'
      BY <1>11, <3>2
    <3>5. VectorY(p, o)'
      BY <3>1, <3>3, <3>4 DEF VectorY
    <3>6. VectorX(p, o)'
      <4>1. (~(Deg(p, o) > First))'
        BY <3>1, <1>3, <1>4
      <4> QED BY <3>1, <3>4, <4>1 DEF VectorX
    <3>7. Shared(p, o)'
      BY <3>1 DEF Shared
    <3> QED BY <3>5, <3>6, <3>7 DEF HoldsBlock
  <2>2. call'[p] # 0
    BY <1>4, <1>5
  <2> QED BY <2>1, <2>2 DEF Holds, HoldsBlock
<1>13. ASSUME NEW q \in Ranks, q # p PROVE Holds(q)'
  <2>1. call'[q] = call[q] /\ ghost'[q] = ghost[q] /\ own'[q] = own[q]
    BY <1>5, <1>9, <1>10, <1>13
  <2>2. CASE call[q] = 0
    BY <1>1, <2>1, <2>2 DEF Holds
  <2>3. CASE call[q] # 0
    <3>1. call[q] >= 1
      BY <1>1, <2>3, Where DEF Blocks
    <3>2. ASSUME NEW o \in Blocks PROVE HoldsBlock(q, o)'
      <4>1. HoldsBlock(q, o)
        BY <1>1, <3>1, HoldsIsPerBlock
      <4>2. X(q, o)' = X(q, o) /\ Y(q, o)' = Y(q, o) /\ (\A s : SameVector(q, s)) /\ StillAwaited(q)
            /\ cells'[q] = cells[q]
        BY <1>2, <2>1 DEF X, Y, SameVector, StillAwaited
      <4> HIDE DEF HoldsBlock, Stage, Deg, X, Y, SameVector, StillAwaited, First
      <4> QED BY <1>3, <1>7, <1>13, <2>1, <4>1, <4>2, BlockStays
    <3> QED BY <2>1, <2>3, <3>2 DEF Holds, HoldsBlock
  <2> QED BY <2>2, <2>3
<1>14. DataTypes'
  <2>1. ghost'[p] \in [Stores -> [Ghosts[p] -> Values]]
    <3>1. \A s \in Stores : ghost'[p][s] \in [Ghosts[p] -> Values]
      BY <1>1, <1>10, ValuesAre DEF DataTypes
    <3> QED BY <1>10, <3>1
  <2> QED BY <1>1, <1>2, <1>3, <1>9, <1>10, <2>1 DEF DataTypes
<1>15. \A q \in Ranks : Holds(q)'
  BY <1>12, <1>13
<1> QED BY <1>2, <1>3, <1>6, <1>7, <1>8, <1>14, <1>15 DEF IInv

(***************************************************************************)
(* The messages.                                                           *)
(***************************************************************************)
\* What is sent in an open exchange is what the exchange is of.
LEMMA SentIs ==
  ASSUME ConstantsOK, IInv, NEW l \in Links, Joins(l), NEW s, Open(l[1], l[3], s)
  PROVE  Carries(l[1], l[3], Begun(l[1], l[3]), SendContent(l, s))
<1> DEFINE p == l[1]  q == l[2]  tag == l[3]
<1>1. /\ p \in Ranks /\ q \in Ranks /\ tag \in {"scatter", "gather"}
      /\ tag = "scatter" => q \in Targets(p)
      /\ tag = "gather" => q \in Ghosts[p]
  BY LinkParts
<1>2. Places /\ Holds(p)
  BY <1>1 DEF IInv
<1>3. PICK b \in Blocks : OpenAt(p, b, Stage(p, b), tag, s)
  BY DEF Open
<1> HIDE DEF p, q, tag
<1> DEFINE d == Deg(p, b)  c == call[p]
<1>4. Stage(p, b) \in {1, 4, 5, 8}
  BY <1>3 DEF OpenAt
<1>5. call[p] >= 1 /\ c \in 1..MaxCalls /\ d \in First..Order - 1
  <2>1. /\ call[p] >= 1 /\ Deg(p, b) < Order /\ Deg(p, b) \in First..Order /\ First \in {0, 1} /\ Order \in Nat
    BY <1>1, <1>2, <1>4, Where
  <2>2. call[p] \in 0..MaxCalls /\ MaxCalls \in Nat
    BY <1>1, <1>2 DEF Places, ConstantsOK
  <2> HIDE DEF Deg
  <2> QED BY <2>1, <2>2
<1>6. HoldsBlock(p, b)
  BY <1>1, <1>2, <1>5, HoldsIsPerBlock
<1>7. \E k \in {1, 2} : Begun(p, tag) = Exchange(c, d, b, k) /\ SendContent(l, s) = Content(p, tag, c, d, b, k)
  <2>0. /\ Stage(p, b) = 1 => Begun(p, "scatter") = Exchange(c, d, b, 1)
        /\ Stage(p, b) = 5 => Begun(p, "scatter") = Exchange(c, d, b, 2)
        /\ Stage(p, b) = 4 => Begun(p, "gather") = Exchange(c, d, b, 1)
        /\ Stage(p, b) = 8 => Begun(p, "gather") = Exchange(c, d, b, 2)
    BY <1>1, <1>2, <1>5, Counted
  <2>1. CASE tag = "scatter" /\ Stage(p, b) = 1 /\ s = Y(p, b)
    <3>1. buf[p][s][q] = Value(b, c, d, Shares(p))
      BY <1>1, <1>6, <2>1 DEF HoldsBlock, VectorY
    <3>2. SendContent(l, s) = Content(p, tag, c, d, b, 1)
      BY <2>1, <3>1 DEF SendContent, Content, p, q, tag
    <3> QED BY <2>0, <2>1, <3>2
  <2>2. CASE tag = "scatter" /\ Stage(p, b) = 5 /\ s = Projections
    <3>1. buf[p][s][q] = Value(b, c, d, Shares(p))
      BY <1>1, <1>6, <2>2 DEF HoldsBlock, Shared
    <3>2. SendContent(l, s) = Content(p, tag, c, d, b, 2)
      BY <2>2, <3>1 DEF SendContent, Content, p, q, tag
    <3> QED BY <2>0, <2>2, <3>2
  <2>3. CASE tag = "gather" /\ Stage(p, b) = 4 /\ s = Projections
    <3>1. ghost[p][s][q] = Value(b, c, d, {p})
      BY <1>1, <1>6, <2>3 DEF HoldsBlock, Shared
    <3>2. SendContent(l, s) = Content(p, tag, c, d, b, 1)
      BY <2>3, <3>1 DEF SendContent, Content, p, q, tag
    <3> QED BY <2>0, <2>3, <3>2
  <2>4. CASE tag = "gather" /\ Stage(p, b) = 8 /\ s = X(p, b)
    <3>1. ghost[p][s][q] = Value(b, c, d + 1, {p})
      BY <1>1, <1>6, <2>4 DEF HoldsBlock, VectorX
    <3>2. SendContent(l, s) = Content(p, tag, c, d, b, 2)
      BY <2>4, <3>1 DEF SendContent, Content, p, q, tag
    <3> QED BY <2>0, <2>4, <3>2
  <2> QED BY <1>3, <2>1, <2>2, <2>3, <2>4 DEF OpenAt
<1> QED BY <1>5, <1>7 DEF Carries, p, tag

\* The value is of the type the model gives it.
LEMMA CarriedType ==
  ASSUME ConstantsOK, Places, NEW p \in Ranks, NEW tag \in {"scatter", "gather"}, NEW n, NEW v, Carries(p, tag, n, v)
  PROVE  v \in Values
<1>1. PICK b \in Blocks, c \in 1..MaxCalls, d \in First..Order - 1, k \in {1, 2} : v = Content(p, tag, c, d, b, k)
  BY DEF Carries
<1>2. First \in {0, 1} /\ Order \in Nat
  BY Programs DEF Places
<1>3. d \in 0..Order /\ d + 1 \in 0..Order
  BY <1>2
<1>4. Shares(p) \in SUBSET Ranks /\ {p} \in SUBSET Ranks
  BY ValuesAre
<1> QED BY <1>1, <1>3, <1>4, ValuesAre DEF Content

\* Copying a message early changes nothing but the message.
LEMMA CopiedEarly ==
  ASSUME ConstantsOK, IInv, NEW l \in Links, Copied(l)
  PROVE  /\ IInv' /\ call' = call /\ First' = First
         /\ \A q \in Ranks, o \in Blocks : Stage(q, o)' = Stage(q, o) /\ Deg(q, o)' = Deg(q, o)
         /\ UNCHANGED <<variant, data, swapped, recvs>>
<1>1. Places /\ DataTypes /\ LinkInv /\ \A q \in Ranks : Holds(q)
  BY DEF IInv
<1>2. PICK i \in DOMAIN msgs[l] :
        /\ msgs[l][i].copy = <<>>
        /\ msgs' = [msgs EXCEPT ![l][i].copy = <<SendContent(l, msgs[l][i].store)>>]
        /\ UNCHANGED <<variant, call, pc, degree, own, ghost, buf, cells, swapped, recvs>>
  BY DEF Copied, data
<1>3. First' = First /\ call' = call /\ \A q : Shares(q)' = Shares(q) /\ Targets(q)' = Targets(q)
  BY <1>2 DEF First, Shares, Targets
<1>4. Places'
  BY <1>1, <1>2, <1>3 DEF Places
<1>5. \A q \in Ranks, o \in Blocks : Stage(q, o)' = Stage(q, o) /\ Deg(q, o)' = Deg(q, o)
  BY <1>2 DEF Stage, Deg
<1>6. \A q \in Ranks, tag \in {"scatter", "gather"} : Begun(q, tag)' = Begun(q, tag)
  BY <1>3, <1>5, BegunStays
<1>7. \A q \in Ranks : \A tag, s : Open(q, tag, s) => Open(q, tag, s)'
  BY <1>2, <1>5 DEF Open, OpenAt, X, Y
<1>8. Joins(l)
  BY <1>1 DEF LinkInv
<1>9. Flows(l) /\ msgs[l] \in Seq([store : Stores, copy : {<<>>} \cup {<<v>> : v \in Values}])
      /\ i \in 1..Len(msgs[l]) /\ i = Len(msgs[l]) /\ Open(l[1], l[3], msgs[l][i].store)
  <2>1. Flows(l)
    BY <1>1, <1>8 DEF LinkInv
  <2>2. msgs[l] \in Seq([store : Stores, copy : {<<>>} \cup {<<v>> : v \in Values}])
    BY <2>1 DEF Flows
  <2>3. i \in 1..Len(msgs[l])
    BY <1>2, <2>2
  <2> QED BY <1>2, <2>1, <2>2, <2>3 DEF Flows
<1> DEFINE S == [store : Stores, copy : {<<>>} \cup {<<v>> : v \in Values}]
           content == SendContent(l, msgs[l][i].store)
           m == [msgs[l][i] EXCEPT !.copy = <<content>>]
<1>10. l[1] \in Ranks /\ l[2] \in Ranks /\ l[3] \in {"scatter", "gather"}
  BY LinkParts
<1>11. Carries(l[1], l[3], Begun(l[1], l[3]), content) /\ content \in Values
  BY <1>1, <1>8, <1>9, <1>10, SentIs, CarriedType
<1> HIDE DEF content
<1>12. m \in S /\ m.copy = <<content>>
  <2>1. msgs[l][i] \in S
    BY <1>9, ElementOfSeq
  <2> QED BY <1>11, <2>1
<1>13. msgs'[l] = [msgs[l] EXCEPT ![i] = m] /\ (\A k \in Links : k # l => msgs'[k] = msgs[k])
       /\ msgs' = [k \in Links |-> msgs'[k]]
  BY <1>1, <1>2 DEF DataTypes, content
<1> HIDE DEF m, S
<1>14. msgs'[l] \in Seq(S) /\ Len(msgs'[l]) = Len(msgs[l]) /\ msgs'[l][i] = m
       /\ \A j \in 1..Len(msgs[l]) : j # i => msgs'[l][j] = msgs[l][j]
  <2>1. msgs[l] \in Seq(S)
    BY <1>9 DEF S
  <2> QED BY <1>9, <1>12, <1>13, <2>1
<1>15. \A k \in Links : \A n, v : Carries(k[1], k[3], n, v) => Carries(k[1], k[3], n, v)'
  BY <1>3 DEF Carries, Exchange, Turns, Content
<1>16. Flows(l)'
  <2>1. (recvs[l] = <<>> \/ \E s \in Stores : recvs[l] = <<s>> /\ Open(l[2], l[3], s))'
    BY <1>2, <1>7, <1>9, <1>10 DEF Flows
  <2>2. (Begun(l[1], l[3]) - Len(msgs[l]) = Begun(l[2], l[3]) - Len(recvs[l]))'
    <3>1. Begun(l[1], l[3]) - Len(msgs[l]) = Begun(l[2], l[3]) - Len(recvs[l])
      BY <1>9 DEF Flows
    <3> HIDE DEF Begun
    <3> QED BY <3>1, <1>2, <1>6, <1>10, <1>14
  <2>3. ASSUME NEW j \in 1..Len(msgs'[l])
        PROVE  (IF msgs[l][j].copy = <<>>
                THEN j = Len(msgs[l]) /\ Open(l[1], l[3], msgs[l][j].store)
                ELSE Carries(l[1], l[3], Begun(l[1], l[3]) - Len(msgs[l]) + j, msgs[l][j].copy[1]))'
    <3>1. CASE j = i
      <4>1. msgs'[l][j].copy # <<>> /\ msgs'[l][j].copy[1] = content
        BY <3>1, <1>12, <1>14
      <4>2. Begun(l[1], l[3])' - Len(msgs'[l]) + j = Begun(l[1], l[3])
        <5>1. Begun(l[1], l[3])' = Begun(l[1], l[3])
          BY <1>6, <1>10
        <5>2. Begun(l[1], l[3]) \in Nat
          BY <1>1, <1>10, BegunNat
        <5>3. Len(msgs'[l]) = j /\ j \in Nat
          BY <1>9, <1>14, <3>1
        <5> HIDE DEF Begun
        <5> QED BY <5>1, <5>2, <5>3
      <4>3. PICK n, v : n = Begun(l[1], l[3]) /\ v = content
        OBVIOUS
      <4>4. Carries(l[1], l[3], n, v)'
        BY <1>11, <1>15, <4>3
      <4> HIDE DEF Carries, Begun
      <4> QED BY <4>1, <4>2, <4>3, <4>4
    <3>2. CASE j # i
      <4>1. msgs'[l][j] = msgs[l][j] /\ j \in 1..Len(msgs[l]) /\ msgs[l][j].copy # <<>>
        BY <1>9, <1>14, <3>2 DEF Flows
      <4>2. PICK n, v : n = Begun(l[1], l[3]) - Len(msgs[l]) + j /\ v = msgs[l][j].copy[1]
        OBVIOUS
      <4>3. Carries(l[1], l[3], n, v)'
        BY <1>9, <1>15, <4>1, <4>2 DEF Flows
      <4>4. n = Begun(l[1], l[3])' - Len(msgs'[l]) + j /\ v = msgs'[l][j].copy[1] /\ msgs'[l][j].copy # <<>>
        BY <1>6, <1>10, <1>14, <4>1, <4>2
      <4> HIDE DEF Carries, Begun
      <4> QED BY <4>3, <4>4
    <3> QED BY <3>1, <3>2
  <2> QED BY <2>1, <2>2, <2>3, <1>14 DEF Flows, S
<1>17. LinkInv'
  <2>1. ASSUME NEW k \in Links, Joins(k) PROVE Flows(k)'
    <3>1. CASE k = l
      BY <3>1, <1>16
    <3>2. CASE k # l
      <4>1. msgs'[k] = msgs[k] /\ recvs'[k] = recvs[k] /\ Flows(k)
        BY <1>1, <1>2, <1>13, <2>1, <3>2 DEF LinkInv
      <4>2. k[1] \in Ranks /\ k[2] \in Ranks /\ k[3] \in {"scatter", "gather"}
        BY LinkParts
      <4> QED BY <1>3, <1>6, <1>7, <4>1, <4>2, LinkRests
    <3> QED BY <3>1, <3>2
  <2>2. \A k \in Links : ~Joins(k) => msgs'[k] = <<>> /\ recvs'[k] = <<>>
    BY <1>1, <1>2, <1>8, <1>13 DEF LinkInv
  <2>3. \A k \in Links : Joins(k)' <=> Joins(k)
    BY DEF Joins, Targets
  <2> QED BY <2>1, <2>2, <2>3 DEF LinkInv
<1>18. \A q \in Ranks : Holds(q)'
  BY <1>2, <1>3, <1>5, RanksRest
<1>19. DataTypes'
  BY <1>1, <1>2, <1>3, <1>13 DEF DataTypes
<1> QED BY <1>2, <1>3, <1>4, <1>5, <1>17, <1>18, <1>19 DEF IInv, data

\* What the first message of a link brings.
Brings(l) == LET m == Head(msgs[l]) IN IF m.copy = <<>> THEN SendContent(l, m.store) ELSE m.copy[1]

\* The first message is of the exchange its receiver is in.
LEMMA Brought ==
  ASSUME ConstantsOK, IInv, NEW l \in Links, msgs[l] # <<>>, recvs[l] # <<>>
  PROVE  /\ Joins(l) /\ Flows(l) /\ Brings(l) \in Values
         /\ \E s \in Stores : recvs[l] = <<s>> /\ Open(l[2], l[3], s)
         /\ Carries(l[1], l[3], Begun(l[2], l[3]), Brings(l))
<1>1. Places /\ Joins(l)
  BY DEF IInv, LinkInv
<1>2. Flows(l)
  BY <1>1 DEF IInv, LinkInv
<1>3. l[1] \in Ranks /\ l[2] \in Ranks /\ l[3] \in {"scatter", "gather"}
  BY LinkParts
<1>4. PICK s \in Stores : recvs[l] = <<s>> /\ Open(l[2], l[3], s)
  BY <1>2 DEF Flows
<1> DEFINE m == msgs[l][1]
           S == [store : Stores, copy : {<<>>} \cup {<<v>> : v \in Values}]
<1>5. Head(msgs[l]) = m /\ Len(msgs[l]) \in Nat /\ Len(msgs[l]) >= 1 /\ 1 \in 1..Len(msgs[l])
  <2>1. msgs[l] \in Seq(S)
    BY <1>2 DEF Flows
  <2> HIDE DEF S
  <2> QED BY <2>1
<1>6. Begun(l[1], l[3]) - Len(msgs[l]) + 1 = Begun(l[2], l[3])
  <2>1. Begun(l[1], l[3]) \in Nat /\ Begun(l[2], l[3]) \in Nat
    BY <1>1, <1>3, BegunNat
  <2>2. Begun(l[1], l[3]) - Len(msgs[l]) = Begun(l[2], l[3]) - Len(recvs[l]) /\ Len(recvs[l]) = 1
    BY <1>2, <1>4 DEF Flows
  <2> HIDE DEF Begun
  <2> QED BY <2>1, <2>2, <1>5
<1>7. Carries(l[1], l[3], Begun(l[2], l[3]), Brings(l))
  <2>1. CASE m.copy = <<>>
    <3>1. 1 = Len(msgs[l]) /\ Open(l[1], l[3], m.store)
      BY <1>2, <1>5, <2>1 DEF Flows
    <3>2. Brings(l) = SendContent(l, m.store)
      BY <1>5, <2>1 DEF Brings
    <3>3. Carries(l[1], l[3], Begun(l[1], l[3]), SendContent(l, m.store))
      BY <1>1, <3>1, SentIs
    <3>4. Begun(l[1], l[3]) = Begun(l[2], l[3])
      <4>1. Begun(l[1], l[3]) \in Nat
        BY <1>1, <1>3, BegunNat
      <4>2. Len(msgs[l]) = 1
        BY <3>1
      <4> HIDE DEF Begun, m
      <4> QED BY <4>1, <4>2, <1>6
    <3> QED BY <3>2, <3>3, <3>4
  <2>2. CASE m.copy # <<>>
    <3>1. Carries(l[1], l[3], Begun(l[1], l[3]) - Len(msgs[l]) + 1, m.copy[1])
      BY <1>2, <1>5, <2>2 DEF Flows
    <3>2. Brings(l) = m.copy[1]
      BY <1>5, <2>2 DEF Brings
    <3> QED BY <3>1, <3>2, <1>6
  <2> QED BY <2>1, <2>2
<1>8. Brings(l) \in Values
  BY <1>1, <1>3, <1>7, CarriedType
<1> QED BY <1>1, <1>2, <1>4, <1>7, <1>8

\* It is what the sender contributes to the exchange the receiver is in, although
\* the sender may have gone on.
LEMMA BroughtExact ==
  ASSUME ConstantsOK, IInv, NEW l \in Links, NEW b \in Blocks, NEW s,
         OpenAt(l[2], b, Stage(l[2], b), l[3], s), NEW v, Carries(l[1], l[3], Begun(l[2], l[3]), v)
  PROVE  v = Content(l[1], l[3], call[l[2]], Deg(l[2], b), b, IF Stage(l[2], b) \in {1, 4} THEN 1 ELSE 2)
<1> DEFINE p == l[2]  tag == l[3]  kk == IF Stage(p, b) \in {1, 4} THEN 1 ELSE 2
<1>1. p \in Ranks /\ tag \in {"scatter", "gather"}
  BY LinkParts
<1>2. Places /\ First \in {0, 1} /\ Order \in Nat /\ Order >= 2
  BY Programs DEF IInv, Places
<1> HIDE DEF p, tag
<1>3. OpenAt(p, b, Stage(p, b), tag, s) /\ Stage(p, b) \in {1, 4, 5, 8}
  <2>1. OpenAt(p, b, Stage(p, b), tag, s)
    BY DEF p, tag
  <2> QED BY <2>1 DEF OpenAt
<1>4. call[p] \in Nat \ {0} /\ call[p] >= 1 /\ Deg(p, b) \in First..Order - 1
  <2>1. Deg(p, b) \in First..Order /\ Deg(p, b) < Order /\ call[p] >= 1 /\ call[p] \in Nat
    BY <1>1, <1>2, <1>3, Where
  <2> HIDE DEF Deg
  <2> QED BY <2>1, <1>2
<1>5. Begun(p, tag) = Exchange(call[p], Deg(p, b), b, kk)
  <2>1. /\ Stage(p, b) = 1 => Begun(p, "scatter") = Exchange(call[p], Deg(p, b), b, 1)
        /\ Stage(p, b) = 5 => Begun(p, "scatter") = Exchange(call[p], Deg(p, b), b, 2)
        /\ Stage(p, b) = 4 => Begun(p, "gather") = Exchange(call[p], Deg(p, b), b, 1)
        /\ Stage(p, b) = 8 => Begun(p, "gather") = Exchange(call[p], Deg(p, b), b, 2)
    BY <1>1, <1>2, <1>4, Counted
  <2> HIDE DEF Begun, Exchange, Stage, Deg
  <2> QED BY <1>3, <2>1 DEF OpenAt
<1>6. PICK b2 \in Blocks, c \in 1..MaxCalls, d \in First..Order - 1, k \in {1, 2} :
        Begun(p, tag) = Exchange(c, d, b2, k) /\ v = Content(l[1], tag, c, d, b2, k)
  BY DEF Carries, p, tag
<1>7. c \in Nat \ {0} /\ kk \in {1, 2}
  BY DEF ConstantsOK
<1> HIDE DEF kk
<1>8. call[p] = c /\ Deg(p, b) = d /\ b = b2 /\ kk = k
  <2> DEFINE e == call[p]  f == Deg(p, b)
  <2>1. e \in Nat \ {0} /\ f \in First..Order - 1 /\ Exchange(e, f, b, kk) = Exchange(c, d, b2, k)
    BY <1>4, <1>5, <1>6
  <2> HIDE DEF e, f
  <2>2. e = c /\ f = d /\ b = b2 /\ kk = k
    BY <1>2, <1>7, <2>1, OneExchange
  <2> QED BY <2>2 DEF e, f
<1> QED BY <1>6, <1>8 DEF kk, p, tag

\* The first message of a link and the receive that awaits it are taken away.
LEMMA LinkReceives ==
  ASSUME NEW l \in Links, Flows(l), First' = First, msgs[l] # <<>>, NEW s, recvs[l] = <<s>>,
         msgs'[l] = Tail(msgs[l]), recvs'[l] = <<>>,
         Begun(l[1], l[3]) \in Nat, Begun(l[2], l[3]) \in Nat,
         Begun(l[1], l[3])' = Begun(l[1], l[3]), Begun(l[2], l[3])' = Begun(l[2], l[3]),
         \A r : Open(l[1], l[3], r) => Open(l[1], l[3], r)'
  PROVE  Flows(l)'
<1> DEFINE n == Len(msgs[l])
           S == [store : Stores, copy : {<<>>} \cup {<<v>> : v \in Values}]
<1>1. msgs[l] \in Seq(S) /\ Begun(l[1], l[3]) - n = Begun(l[2], l[3]) - 1
  BY DEF Flows
<1>2. /\ n \in Nat /\ n >= 1 /\ msgs'[l] \in Seq(S) /\ Len(msgs'[l]) = n - 1
      /\ \A i \in 1..n - 1 : msgs'[l][i] = msgs[l][i + 1]
  <2> HIDE DEF S
  <2> QED BY <1>1
<1>3. (recvs[l] = <<>> \/ \E r \in Stores : recvs[l] = <<r>> /\ Open(l[2], l[3], r))'
  OBVIOUS
<1>4. \A m, v : Carries(l[1], l[3], m, v) => Carries(l[1], l[3], m, v)'
  BY DEF Carries, Exchange, Turns, Content, Shares, Targets
<1>5. (Begun(l[1], l[3]) - Len(msgs[l]) = Begun(l[2], l[3]) - Len(recvs[l]))'
  <2>1. Len(recvs'[l]) = 0
    OBVIOUS
  <2> HIDE DEF Begun, n
  <2> QED BY <1>1, <1>2, <2>1
<1>6. ASSUME NEW i \in 1..Len(msgs'[l])
      PROVE  (IF msgs[l][i].copy = <<>>
              THEN i = Len(msgs[l]) /\ Open(l[1], l[3], msgs[l][i].store)
              ELSE Carries(l[1], l[3], Begun(l[1], l[3]) - Len(msgs[l]) + i, msgs[l][i].copy[1]))'
  <2>1. i \in 1..n - 1 /\ i + 1 \in 1..n /\ msgs'[l][i] = msgs[l][i + 1]
    BY <1>2
  <2>2. PICK r : r = msgs[l][i + 1].store
    OBVIOUS
  <2>3. CASE msgs[l][i + 1].copy = <<>>
    <3>1. i + 1 = n /\ Open(l[1], l[3], r)
      BY <2>1, <2>2, <2>3 DEF Flows
    <3>2. Open(l[1], l[3], r)'
      BY <3>1
    <3>3. i = Len(msgs'[l]) /\ msgs'[l][i].copy = <<>> /\ msgs'[l][i].store = r
      BY <1>2, <2>1, <2>2, <2>3, <3>1
    <3> QED BY <3>2, <3>3
  <2>4. CASE msgs[l][i + 1].copy # <<>>
    <3>1. Carries(l[1], l[3], Begun(l[1], l[3]) - n + (i + 1), msgs[l][i + 1].copy[1])
      BY <2>1, <2>4 DEF Flows
    <3>2. PICK m, v : m = Begun(l[1], l[3]) - n + (i + 1) /\ v = msgs[l][i + 1].copy[1]
      OBVIOUS
    <3>3. Carries(l[1], l[3], m, v)'
      BY <1>4, <3>1, <3>2
    <3>4. m = Begun(l[1], l[3])' - Len(msgs'[l]) + i /\ v = msgs'[l][i].copy[1] /\ msgs'[l][i].copy # <<>>
      BY <1>2, <2>1, <2>4, <3>2
    <3> HIDE DEF Carries, n
    <3> QED BY <3>3, <3>4
  <2> QED BY <2>3, <2>4
<1> QED BY <1>2, <1>3, <1>5, <1>6 DEF Flows

\* A message that is received completes what its receiver waits for, and nothing else.
LEMMA MessageReceived ==
  ASSUME ConstantsOK, IInv, NEW l \in Links, Received(l)
  PROVE  /\ IInv' /\ call' = call /\ First' = First
         /\ \A q \in Ranks, o \in Blocks : Stage(q, o)' = Stage(q, o) /\ Deg(q, o)' = Deg(q, o)
         /\ UNCHANGED <<variant, own, cells, swapped>>
<1>1. Places /\ DataTypes /\ LinkInv /\ \A q \in Ranks : Holds(q)
  BY DEF IInv
<1> DEFINE p == l[2]  r == l[1]  v == Brings(l)
<1>2. PICK s \in Stores : recvs[l] = <<s>> /\ Open(p, l[3], s)
  BY Brought DEF Received
<1>3. /\ msgs[l] # <<>> /\ recvs[l] # <<>>
      /\ IF l[3] = "scatter"
         THEN ghost' = [ghost EXCEPT ![p][s][r] = v] /\ UNCHANGED buf
         ELSE buf' = [buf EXCEPT ![p][s][r] = v] /\ UNCHANGED ghost
      /\ msgs' = [msgs EXCEPT ![l] = Tail(@)] /\ recvs' = [recvs EXCEPT ![l] = Tail(@)]
      /\ UNCHANGED <<variant, call, pc, degree, own, cells, swapped>>
  <2>1. Head(recvs[l]) = s
    BY <1>2
  <2> QED BY <2>1 DEF Received, Brings
<1>4. Joins(l) /\ Flows(l) /\ v \in Values /\ Carries(r, l[3], Begun(p, l[3]), v)
  BY <1>3, Brought
<1>5. /\ p \in Ranks /\ r \in Ranks /\ l[3] \in {"scatter", "gather"} /\ l = <<r, p, l[3]>> /\ p # r
      /\ l[3] = "scatter" => r \in Ghosts[p]
      /\ l[3] = "gather" => r \in Targets(p)
  BY <1>4, LinkParts
<1> HIDE DEF p, r, v
<1>6. First' = First /\ call' = call /\ \A q : Shares(q)' = Shares(q) /\ Targets(q)' = Targets(q)
  BY <1>3 DEF First, Shares, Targets
<1>7. Places'
  BY <1>1, <1>3, <1>6 DEF Places
<1>8. \A q \in Ranks, o \in Blocks :
        Stage(q, o)' = Stage(q, o) /\ Deg(q, o)' = Deg(q, o) /\ X(q, o)' = X(q, o) /\ Y(q, o)' = Y(q, o)
  BY <1>3 DEF Stage, Deg, X, Y
<1>9. \A q \in Ranks, tag \in {"scatter", "gather"} : Begun(q, tag) \in Nat /\ Begun(q, tag)' = Begun(q, tag)
  BY <1>1, <1>6, <1>8, BegunStays, BegunNat
<1>10. \A q \in Ranks : \A tag, t : Open(q, tag, t) => Open(q, tag, t)'
  BY <1>3, <1>8 DEF Open, OpenAt
<1>11. /\ msgs'[l] = Tail(msgs[l]) /\ recvs'[l] = <<>>
       /\ \A k \in Links : k # l => msgs'[k] = msgs[k] /\ recvs'[k] = recvs[k]
       /\ msgs' = [k \in Links |-> msgs'[k]] /\ recvs' = [k \in Links |-> recvs'[k]]
  <2>1. Tail(<<s>>) = <<>>
    OBVIOUS
  <2> QED BY <1>1, <1>2, <1>3, <2>1 DEF DataTypes
<1>12. LinkInv'
  <2>1. ASSUME NEW k \in Links, Joins(k) PROVE Flows(k)'
    <3>1. k[1] \in Ranks /\ k[2] \in Ranks /\ k[3] \in {"scatter", "gather"} /\ Flows(k)
      BY <1>1, <2>1, LinkParts DEF LinkInv
    <3>2. CASE k = l
      BY <1>2, <1>3, <1>6, <1>9, <1>10, <1>11, <3>1, <3>2, LinkReceives
    <3>3. CASE k # l
      <4>1. msgs'[k] = msgs[k] /\ recvs'[k] = recvs[k]
        BY <1>11, <3>3
      <4> QED BY <1>6, <1>9, <1>10, <3>1, <4>1, LinkRests
    <3> QED BY <3>2, <3>3
  <2>2. \A k \in Links : ~Joins(k) => msgs'[k] = <<>> /\ recvs'[k] = <<>>
    BY <1>1, <1>4, <1>11 DEF LinkInv
  <2>3. \A k \in Links : Joins(k)' <=> Joins(k)
    BY DEF Joins, Targets
  <2> QED BY <2>1, <2>2, <2>3 DEF LinkInv
<1>13. /\ \A q \in Ranks : q # p => ghost'[q] = ghost[q] /\ buf'[q] = buf[q]
       /\ \A t \in Stores : t # s => ghost'[p][t] = ghost[p][t] /\ buf'[p][t] = buf[p][t]
       /\ l[3] = "scatter" => /\ buf' = buf /\ ghost'[p][s][r] = v
                              /\ \A q \in Ghosts[p] : q # r => ghost'[p][s][q] = ghost[p][s][q]
       /\ l[3] = "gather" => /\ ghost' = ghost /\ buf'[p][s][r] = v
                             /\ \A q \in Targets(p) : q # r => buf'[p][s][q] = buf[p][s][q]
       /\ ghost' = [q \in Ranks |-> ghost'[q]] /\ buf' = [q \in Ranks |-> buf'[q]]
       /\ ghost'[p] \in [Stores -> [Ghosts[p] -> Values]] /\ buf'[p] \in [Stores -> [Targets(p) -> Values]]
  <2>1. CASE l[3] = "scatter"
    <3>1. ghost' = [ghost EXCEPT ![p][s][r] = v] /\ buf' = buf /\ l[3] # "gather"
      BY <1>3, <2>1
    <3>2. ghost'[p] = [ghost[p] EXCEPT ![s][r] = v] /\ (\A q \in Ranks : q # p => ghost'[q] = ghost[q])
          /\ ghost' = [q \in Ranks |-> ghost'[q]]
      BY <3>1, <1>1, <1>5 DEF DataTypes
    <3>3. ghost[p] \in [Stores -> [Ghosts[p] -> Values]] /\ r \in Ghosts[p]
      BY <1>1, <1>5, <2>1 DEF DataTypes
    <3>4. /\ ghost'[p][s] = [ghost[p][s] EXCEPT ![r] = v] /\ ghost[p][s] \in [Ghosts[p] -> Values]
          /\ \A t \in Stores : t # s => ghost'[p][t] = ghost[p][t]
      BY <3>2, <3>3, <1>2
    <3>5. ghost'[p][s] \in [Ghosts[p] -> Values]
      BY <3>3, <3>4, <1>4
    <3>6. ghost'[p] \in [Stores -> [Ghosts[p] -> Values]]
      <4>1. DOMAIN ghost'[p] = Stores /\ ghost'[p] = [t \in Stores |-> ghost'[p][t]]
        BY <3>2, <3>3
      <4>2. \A t \in Stores : ghost'[p][t] \in [Ghosts[p] -> Values]
        BY <3>3, <3>4, <3>5
      <4> QED BY <4>1, <4>2
    <3>7. ghost'[p][s][r] = v /\ \A q \in Ghosts[p] : q # r => ghost'[p][s][q] = ghost[p][s][q]
      BY <3>3, <3>4
    <3>8. buf' = [q \in Ranks |-> buf'[q]] /\ buf'[p] = buf[p] /\ \A q \in Ranks : buf'[q] = buf[q]
      BY <3>1, <1>1 DEF DataTypes
    <3>9. buf[p] \in [Stores -> [Targets(p) -> Values]]
      BY <1>1, <1>5 DEF DataTypes
    <3> QED BY <3>1, <3>2, <3>4, <3>6, <3>7, <3>8, <3>9, <2>1
  <2>2. CASE l[3] = "gather"
    <3>1. buf' = [buf EXCEPT ![p][s][r] = v] /\ ghost' = ghost /\ l[3] # "scatter"
      BY <1>3, <2>2
    <3>2. buf'[p] = [buf[p] EXCEPT ![s][r] = v] /\ (\A q \in Ranks : q # p => buf'[q] = buf[q])
          /\ buf' = [q \in Ranks |-> buf'[q]]
      BY <3>1, <1>1, <1>5 DEF DataTypes
    <3>3. buf[p] \in [Stores -> [Targets(p) -> Values]] /\ r \in Targets(p)
      BY <1>1, <1>5, <2>2 DEF DataTypes
    <3>4. /\ buf'[p][s] = [buf[p][s] EXCEPT ![r] = v] /\ buf[p][s] \in [Targets(p) -> Values]
          /\ \A t \in Stores : t # s => buf'[p][t] = buf[p][t]
      BY <3>2, <3>3, <1>2
    <3>5. buf'[p][s] \in [Targets(p) -> Values]
      BY <3>3, <3>4, <1>4
    <3>6. buf'[p] \in [Stores -> [Targets(p) -> Values]]
      <4>1. DOMAIN buf'[p] = Stores /\ buf'[p] = [t \in Stores |-> buf'[p][t]]
        BY <3>2, <3>3
      <4>2. \A t \in Stores : buf'[p][t] \in [Targets(p) -> Values]
        BY <3>3, <3>4, <3>5
      <4> QED BY <4>1, <4>2
    <3>7. buf'[p][s][r] = v /\ \A q \in Targets(p) : q # r => buf'[p][s][q] = buf[p][s][q]
      BY <3>3, <3>4
    <3>8. ghost' = [q \in Ranks |-> ghost'[q]] /\ ghost'[p] = ghost[p] /\ \A q \in Ranks : ghost'[q] = ghost[q]
      BY <3>1, <1>1 DEF DataTypes
    <3>9. ghost[p] \in [Stores -> [Ghosts[p] -> Values]]
      BY <1>1, <1>5 DEF DataTypes
    <3> QED BY <3>1, <3>2, <3>4, <3>6, <3>7, <3>8, <3>9, <2>2
  <2> QED BY <1>5, <2>1, <2>2
<1>14. DataTypes'
  BY <1>1, <1>3, <1>6, <1>11, <1>13 DEF DataTypes
<1>15. ASSUME NEW q \in Ranks, q # p PROVE Holds(q)'
  <2>1. (\A t : SameVector(q, t)) /\ cells'[q] = cells[q] /\ ghost'[q] = ghost[q] /\ call'[q] = call[q]
    BY <1>3, <1>13, <1>15 DEF SameVector
  <2>2. StillAwaited(q)
    <3> SUFFICES ASSUME NEW t \in Ghosts[q] \cup Targets(q), NEW tag \in {"scatter", "gather"},
                        recvs[<<t, q, tag>>] # <<>>
                 PROVE  recvs'[<<t, q, tag>>] # <<>>
      BY DEF StillAwaited
    <3>1. <<t, q, tag>> \in Links /\ <<t, q, tag>> # l
      BY <1>5, <1>15, ValuesAre DEF Links
    <3> QED BY <1>11, <3>1
  <2>3. CASE call[q] = 0
    BY <1>1, <2>1, <2>3 DEF Holds
  <2>4. CASE call[q] # 0
    <3>1. call[q] >= 1
      BY <1>1, <2>4, Where DEF Blocks
    <3>2. ASSUME NEW o \in Blocks PROVE HoldsBlock(q, o)'
      <4>1. HoldsBlock(q, o)
        BY <1>1, <3>1, HoldsIsPerBlock
      <4> HIDE DEF HoldsBlock, Stage, Deg, X, Y, SameVector, StillAwaited
      <4> QED BY <1>6, <1>8, <2>1, <2>2, <4>1, BlockStays
    <3> QED BY <3>2, <2>1, <2>4 DEF Holds, HoldsBlock
  <2> QED BY <2>3, <2>4
<1>16. PICK b \in Blocks : OpenAt(p, b, Stage(p, b), l[3], s)
  BY <1>2 DEF Open
<1>17. Stage(p, b) \in {1, 4, 5, 8} /\ call[p] >= 1
  BY <1>1, <1>5, <1>16, Where DEF OpenAt
<1>18. v = Content(r, l[3], call[p], Deg(p, b), b, IF Stage(p, b) \in {1, 4} THEN 1 ELSE 2)
  BY <1>4, <1>16, BroughtExact DEF p, r
<1>19. ASSUME NEW o \in Blocks, o # b PROVE HoldsBlock(p, o)'
  <2>1. HoldsBlock(p, o)
    BY <1>1, <1>5, <1>17, HoldsIsPerBlock
  <2>2. Stage(p, o) \notin {1, 4, 5, 8} /\ (s = Projections => Stage(p, o) \notin 3..6)
    <3>1. s = Projections => Stage(p, b) \in 3..6
      BY <1>16, Vectors DEF OpenAt
    <3> QED BY <1>1, <1>5, <1>17, <1>19, <3>1, OneAtATime
  <2>3. X(p, o) # s /\ Y(p, o) # s /\ X(p, o) \in Stores /\ Y(p, o) \in Stores /\ Projections \in Stores
    BY <1>16, <1>19, Vectors DEF OpenAt
  <2>4. SameVector(p, X(p, o)) /\ SameVector(p, Y(p, o)) /\ (s # Projections => SameVector(p, Projections))
    BY <1>3, <1>13, <2>3 DEF SameVector
  <2>5. cells'[p] = cells[p] /\ call'[p] = call[p]
    BY <1>3
  <2> HIDE DEF HoldsBlock, Stage, Deg, X, Y, SameVector
  <2> QED BY <1>5, <1>6, <1>8, <2>1, <2>2, <2>4, <2>5, BlockStays
<1>20. HoldsBlock(p, b)'
  <2> DEFINE of(k, ranks) == Value(b, call[p], k, ranks)
             x == X(p, b)  y == Y(p, b)  d == Deg(p, b)
  <2>1. VectorY(p, b) /\ VectorX(p, b) /\ Shared(p, b)
    BY <1>1, <1>5, <1>17, HoldsIsPerBlock DEF HoldsBlock
  <2>2. x \in Stores /\ y \in Stores /\ Projections \in Stores /\ x # y /\ x # Projections /\ y # Projections
    BY Vectors
  <2>3. /\ Stage(p, b)' = Stage(p, b) /\ Deg(p, b)' = d /\ X(p, b)' = x /\ Y(p, b)' = y /\ call'[p] = call[p]
        /\ own'[p] = own[p] /\ cells'[p] = cells[p]
    BY <1>3, <1>5, <1>8
  <2>4. \A q \in Ghosts[p] : q # r => recvs'[<<q, p, "scatter">>] = recvs[<<q, p, "scatter">>]
    <3>1. \A q \in Ghosts[p] : q # r => <<q, p, "scatter">> \in Links /\ <<q, p, "scatter">> # l
      BY <1>5, ValuesAre DEF Links
    <3> QED BY <1>11, <3>1
  <2>5. \A q \in Targets(p) : q # r => recvs'[<<q, p, "gather">>] = recvs[<<q, p, "gather">>]
    <3>1. \A q \in Targets(p) : q # r => <<q, p, "gather">> \in Links /\ <<q, p, "gather">> # l
      BY <1>5, ValuesAre DEF Links
    <3> QED BY <1>11, <3>1
  <2> HIDE DEF Stage, Deg, X, Y, x, y, d, of
  <2>6. CASE l[3] = "scatter" /\ Stage(p, b) = 1 /\ s = y
    <3>1. v = of(d, Shares(r)) /\ ghost'[p][x] = ghost[p][x] /\ buf' = buf
      BY <1>13, <1>18, <2>2, <2>6 DEF Content, of, d
    <3>2. ASSUME NEW q \in Ghosts[p] PROVE Got(p, q, "scatter", ghost[p][y][q], of(d, Shares(q)))'
      <4>1. CASE q = r
        <5>1. ghost'[p][y][q] = of(d, Shares(q))
          BY <1>13, <2>6, <3>1, <4>1
        <5>2. (of(d, Shares(q)))' = of(d, Shares(q))
          BY <1>6, <2>3 DEF of, d
        <5> QED BY <5>1, <5>2, <2>3 DEF Got, y
      <4>2. CASE q # r
        <5>1. ghost'[p][y][q] = ghost[p][y][q] /\ recvs'[<<q, p, "scatter">>] = recvs[<<q, p, "scatter">>]
          BY <1>13, <2>4, <2>6, <4>2
        <5>2. (of(d, Shares(q)))' = of(d, Shares(q))
          BY <1>6, <2>3 DEF of, d
        <5>3. Got(p, q, "scatter", ghost[p][y][q], of(d, Shares(q)))
          BY <2>1, <2>6 DEF VectorY, of, y, d
        <5> QED BY <5>1, <5>2, <5>3, <2>3 DEF Got, y
      <4> QED BY <4>1, <4>2
    <3>3. VectorY(p, b)'
      <4>1. (own[p][Y(p, b)] = Value(b, call[p], Deg(p, b), Shares(p)))'
        BY <1>6, <2>1, <2>3 DEF VectorY, y, d
      <4>2. (Stage(p, b) = 1)'
        BY <2>3, <2>6
      <4>3. (\A q \in Targets(p) : buf[p][Y(p, b)][q] = own[p][Y(p, b)])'
        BY <1>6, <2>1, <2>3, <2>6, <3>1 DEF VectorY, y, d
      <4>4. (\A q \in Ghosts[p] : Got(p, q, "scatter", ghost[p][Y(p, b)][q], Value(b, call[p], Deg(p, b), Shares(q))))'
        BY <3>2 DEF of, y, d
      <4> HIDE DEF Got, Value
      <4> QED BY <4>1, <4>2, <4>3, <4>4 DEF VectorY
    <3>4. VectorX(p, b)'
      BY <1>6, <2>1, <2>3, <2>6, <3>1 DEF VectorX, x, d
    <3>5. Shared(p, b)'
      BY <2>3, <2>6 DEF Shared
    <3> QED BY <3>3, <3>4, <3>5 DEF HoldsBlock
  <2>7. CASE l[3] = "scatter" /\ Stage(p, b) = 5 /\ s = Projections
    <3>1. v = of(d, Shares(r)) /\ ghost'[p][x] = ghost[p][x] /\ ghost'[p][y] = ghost[p][y] /\ buf' = buf
      BY <1>13, <1>18, <2>2, <2>7 DEF Content, of, d
    <3>2. ASSUME NEW q \in Ghosts[p] PROVE Got(p, q, "scatter", ghost[p][Projections][q], of(d, Shares(q)))'
      <4>1. CASE q = r
        <5>1. ghost'[p][Projections][q] = of(d, Shares(q))
          BY <1>13, <2>7, <3>1, <4>1
        <5>2. (of(d, Shares(q)))' = of(d, Shares(q))
          BY <1>6, <2>3 DEF of, d
        <5> QED BY <5>1, <5>2 DEF Got, Projections
      <4>2. CASE q # r
        <5>1. ghost'[p][Projections][q] = ghost[p][Projections][q] /\ recvs'[<<q, p, "scatter">>] = recvs[<<q, p, "scatter">>]
          BY <1>13, <2>4, <2>7, <4>2
        <5>2. (of(d, Shares(q)))' = of(d, Shares(q))
          BY <1>6, <2>3 DEF of, d
        <5>3. Got(p, q, "scatter", ghost[p][Projections][q], of(d, Shares(q)))
          BY <2>1, <2>7 DEF Shared, of, d
        <5> QED BY <5>1, <5>2, <5>3 DEF Got, Projections
      <4> QED BY <4>1, <4>2
    <3>3. (Stage(p, b) = 5)'
      BY <2>3, <2>7
    <3>4. Shared(p, b)'
      <4>1. (cells[p] = Value(b, call[p], Deg(p, b), {p}))'
        BY <2>1, <2>3, <2>7 DEF Shared, d
      <4>2. (own[p][Projections] = Value(b, call[p], Deg(p, b), Shares(p)))'
        BY <1>6, <2>1, <2>3, <2>7 DEF Shared, d, Projections
      <4>3. (\A q \in Targets(p) : buf[p][Projections][q] = Value(b, call[p], Deg(p, b), Shares(p)))'
        BY <1>6, <2>1, <2>3, <2>7, <3>1 DEF Shared, d, Projections
      <4>4. (\A q \in Ghosts[p] : Got(p, q, "scatter", ghost[p][Projections][q], Value(b, call[p], Deg(p, b), Shares(q))))'
        BY <3>2 DEF of, d
      <4>5. (Stage(p, b) # 4)'
        BY <3>3
      <4> HIDE DEF Got, Value
      <4> QED BY <4>1, <4>2, <4>3, <4>4, <4>5 DEF Shared
    <3>5. VectorX(p, b)'
      BY <1>6, <2>1, <2>3, <2>7, <3>1 DEF VectorX, x, d
    <3>6. VectorY(p, b)'
      BY <1>6, <2>1, <2>3, <2>7, <3>1 DEF VectorY, y, d
    <3> QED BY <3>4, <3>5, <3>6 DEF HoldsBlock
  <2>8. CASE l[3] = "gather" /\ Stage(p, b) = 4 /\ s = Projections
    <3>1. v = of(d, {r}) /\ ghost' = ghost
      BY <1>13, <1>18, <2>8 DEF Content, of, d
    <3>2. ASSUME NEW q \in Targets(p) PROVE Got(p, q, "gather", buf[p][Projections][q], of(d, {q}))'
      <4>1. CASE q = r
        <5>1. buf'[p][Projections][q] = of(d, {q})
          BY <1>13, <2>8, <3>1, <4>1
        <5>2. (of(d, {q}))' = of(d, {q})
          BY <2>3 DEF of, d
        <5> QED BY <5>1, <5>2 DEF Got, Projections
      <4>2. CASE q # r
        <5>1. buf'[p][Projections][q] = buf[p][Projections][q] /\ recvs'[<<q, p, "gather">>] = recvs[<<q, p, "gather">>]
          BY <1>13, <2>5, <2>8, <4>2
        <5>2. (of(d, {q}))' = of(d, {q})
          BY <2>3 DEF of, d
        <5>3. Got(p, q, "gather", buf[p][Projections][q], of(d, {q}))
          BY <2>1, <2>8 DEF Shared, of, d
        <5> QED BY <5>1, <5>2, <5>3 DEF Got, Projections
      <4> QED BY <4>1, <4>2
    <3>3. (Stage(p, b) = 4)'
      BY <2>3, <2>8
    <3>4. Shared(p, b)'
      <4>1. (cells[p] = Value(b, call[p], Deg(p, b), {p}))'
        BY <2>1, <2>3, <2>8 DEF Shared, d
      <4>2. (own[p][Projections] = Value(b, call[p], Deg(p, b), {p}))'
        BY <2>1, <2>3, <2>8 DEF Shared, d, Projections
      <4>3. (\A q \in Ghosts[p] : ghost[p][Projections][q] = Value(b, call[p], Deg(p, b), {p}))'
        BY <2>1, <2>3, <2>8, <3>1 DEF Shared, d, Projections
      <4>4. (\A q \in Targets(p) : Got(p, q, "gather", buf[p][Projections][q], Value(b, call[p], Deg(p, b), {q})))'
        BY <1>6, <3>2 DEF of, d
      <4>5. (Stage(p, b) # 5)'
        BY <3>3
      <4> HIDE DEF Got, Value
      <4> QED BY <4>1, <4>2, <4>3, <4>4, <4>5 DEF Shared
    <3>5. VectorX(p, b)'
      BY <1>6, <2>1, <2>3, <2>8, <3>1 DEF VectorX, x, d
    <3>6. VectorY(p, b)'
      BY <1>6, <2>1, <2>3, <2>8, <3>1 DEF VectorY, y, d
    <3> QED BY <3>4, <3>5, <3>6 DEF HoldsBlock
  <2>9. CASE l[3] = "gather" /\ Stage(p, b) = 8 /\ s = x
    <3> DEFINE e == Deg(p, b) + 1
    <3>1. v = of(e, {r}) /\ ghost' = ghost /\ e' = e
      BY <1>13, <1>18, <2>3, <2>9 DEF Content, of, d
    <3> HIDE DEF e
    <3>2. ASSUME NEW q \in Targets(p) PROVE Got(p, q, "gather", buf[p][x][q], of(e, {q}))'
      <4>1. CASE q = r
        <5>1. buf'[p][x][q] = of(e, {q})
          BY <1>13, <2>9, <3>1, <4>1
        <5>2. (of(e, {q}))' = of(e, {q})
          BY <2>3, <3>1 DEF of
        <5> QED BY <5>1, <5>2, <2>3 DEF Got, x
      <4>2. CASE q # r
        <5>1. buf'[p][x][q] = buf[p][x][q] /\ recvs'[<<q, p, "gather">>] = recvs[<<q, p, "gather">>]
          BY <1>13, <2>5, <2>9, <4>2
        <5>2. (of(e, {q}))' = of(e, {q})
          BY <2>3, <3>1 DEF of
        <5>3. Got(p, q, "gather", buf[p][x][q], of(e, {q}))
          BY <2>1, <2>9 DEF VectorX, of, e, x
        <5> QED BY <5>1, <5>2, <5>3, <2>3 DEF Got, x
      <4> QED BY <4>1, <4>2
    <3>3. (~(Stage(p, b) <= 4) /\ Stage(p, b) \notin {5, 6} /\ Stage(p, b) \in {7, 8})'
      BY <2>3, <2>9
    <3>4. VectorX(p, b)'
      <4>0. own[p][x] = of(e, {p}) /\ \A q \in Ghosts[p] : ghost[p][x][q] = of(e, {p})
        BY <2>1, <2>9 DEF VectorX, of, e, x
      <4>1. (own[p][X(p, b)] = Value(b, call[p], e, {p}) /\ \A q \in Ghosts[p] : ghost[p][X(p, b)][q] = Value(b, call[p], e, {p}))'
        BY <2>3, <3>1, <4>0 DEF of, x
      <4>2. (\A q \in Targets(p) : Got(p, q, "gather", buf[p][X(p, b)][q], Value(b, call[p], e, {q})))'
        BY <1>6, <3>2 DEF of, x
      <4> HIDE DEF Got, Value
      <4>3. (\A q \in Ghosts[p] : ghost[p][X(p, b)][q] =
               IF Stage(p, b) \in {7, 8} THEN Value(b, call[p], Deg(p, b) + 1, {p}) ELSE Zero)'
        BY <3>3, <4>1 DEF e
      <4>4. (Stage(p, b) \in {7, 8} => own[p][X(p, b)] = Value(b, call[p], Deg(p, b) + 1, {p}))'
        BY <4>1 DEF e
      <4>5. (Stage(p, b) = 8 => \A q \in Targets(p) : Got(p, q, "gather", buf[p][X(p, b)][q], Value(b, call[p], Deg(p, b) + 1, {q})))'
        BY <4>2 DEF e
      <4> QED BY <3>3, <4>3, <4>4, <4>5 DEF VectorX
    <3>5. Shared(p, b)'
      BY <2>3, <2>9 DEF Shared
    <3>6. VectorY(p, b)'
      <4>1. buf'[p][y] = buf[p][y]
        BY <1>13, <2>2, <2>9
      <4> QED BY <1>6, <2>1, <2>3, <2>9, <3>1, <4>1 DEF VectorY, y, d
    <3> QED BY <3>4, <3>5, <3>6 DEF HoldsBlock
  <2> QED BY <1>16, <2>6, <2>7, <2>8, <2>9 DEF OpenAt, x, y
<1>21. Holds(p)'
  <2>1. call'[p] # 0
    BY <1>6, <1>17
  <2> QED BY <1>19, <1>20, <2>1 DEF Holds, HoldsBlock
<1> QED BY <1>3, <1>6, <1>7, <1>8, <1>12, <1>14, <1>15, <1>21 DEF IInv
-----------------------------------------------------------------------------
(***************************************************************************)
(* The invariant.                                                          *)
(***************************************************************************)
\* The invariant holds at the start.
LEMMA InitHolds ==
  ASSUME ConstantsOK, Init
  PROVE  IInv
<1>1. First \in {0, 1} /\ Order \in Nat /\ Order >= 2 /\ MaxCalls \in Nat
  BY Programs DEF Init, ConstantsOK
<1>2. Places
  BY <1>1 DEF Init, Places
<1>3. Zero \in Values
  BY DEF Values
<1>4. DataTypes
  BY <1>3 DEF Init, DataTypes
<1>5. LinkInv
  <2>1. ASSUME NEW l \in Links, Joins(l) PROVE Flows(l)
    <3>1. msgs[l] = <<>> /\ recvs[l] = <<>> /\ Len(msgs[l]) = 0
      BY DEF Init
    <3>2. Begun(l[1], l[3]) = 0 /\ Begun(l[2], l[3]) = 0
      BY LinkParts DEF Init, Begun
    <3> HIDE DEF Begun
    <3> QED BY <3>1, <3>2 DEF Flows
  <2>2. \A l \in Links : msgs[l] = <<>> /\ recvs[l] = <<>>
    BY DEF Init
  <2> QED BY <2>1, <2>2 DEF LinkInv
<1>6. \A p \in Ranks : Holds(p)
  BY DEF Init, Holds
<1> QED BY <1>2, <1>4, <1>5, <1>6 DEF IInv

\* A stutter keeps it.
LEMMA NothingChanges ==
  ASSUME ConstantsOK, IInv, UNCHANGED vars
  PROVE  IInv'
<1>1. Places /\ DataTypes /\ LinkInv /\ UNCHANGED <<variant, call, pc, degree, own, ghost, buf, cells, swapped, msgs, recvs>>
  BY DEF IInv, vars, data, wires
<1>2. First' = First /\ call' = call /\ \A q : Targets(q)' = Targets(q)
  BY <1>1 DEF First, Targets
<1>3. \A q \in Ranks, o \in Blocks : Stage(q, o)' = Stage(q, o) /\ Deg(q, o)' = Deg(q, o)
  BY <1>1 DEF Stage, Deg
<1>4. LinkInv'
  <2>1. \A q \in Ranks, tag \in {"scatter", "gather"} : Begun(q, tag)' = Begun(q, tag)
    BY <1>2, <1>3, BegunStays
  <2> QED BY <1>1, <1>2, <1>3, <2>1, LinksRest
<1>5. \A q \in Ranks : Holds(q)'
  BY <1>1, <1>2, <1>3, RanksRest
<1>6. Places' /\ DataTypes'
  BY <1>1, <1>2 DEF Places, DataTypes
<1> QED BY <1>4, <1>5, <1>6 DEF IInv

\* The steps of a rank that are not the begin or the end of a call.
Steps(p) ==
  \/ UpdateGhostValuesBegin(p) \/ UpdateGhostValuesEnd(p)
  \/ AccumulateAddBegin(p) \/ AccumulateAddEnd(p)
  \/ GatherCells(p) \/ ProjectBegin(p) \/ ProjectScale(p) \/ ProjectEnd(p)
  \/ MultiplyCells(p)

\* Every step between the begin and the end of a call is Working.
LEMMA StepsWork ==
  ASSUME ConstantsOK, IInv, NEW p \in Ranks, Steps(p)
  PROVE  IInv' /\ \E b \in Blocks, k \in 0..8 : Working(p, b, k)
BY UpdateBegun, UpdateEnded, AddBegun, AddEnded, Gathered, ProjectBegun, ProjectScaled, ProjectEnded, Multiplied
   DEF Steps

\* Every step keeps it.
LEMMA StepKeeps ==
  ASSUME ConstantsOK, IInv, [Next]_vars
  PROVE  IInv'
<1>1. ASSUME NEW p \in Ranks, Rank(p) PROVE IInv'
  <2>1. Begin(p) \/ Return(p) \/ Steps(p)
    BY <1>1 DEF Rank, Steps
  <2> QED BY <2>1, Began, Returned, StepsWork
<1>2. ASSUME NEW l \in Links, Copied(l) \/ Received(l) PROVE IInv'
  BY <1>2, CopiedEarly, MessageReceived
<1> QED BY <1>1, <1>2, NothingChanges DEF Next

\* The stages, the links and the data of every rank stay as IInv says, whatever the
\* interleaving of the ranks and the delay of the messages.
THEOREM Inductive == Spec => []IInv
<1>1. Init => IInv
  BY InitHolds, ConstantsOK
<1>2. IInv /\ [Next]_vars => IInv'
  BY StepKeeps, ConstantsOK
<1> QED BY <1>1, <1>2, PTL DEF Spec

(***************************************************************************)
(* What it says of the values and of what a call returns.                  *)
(***************************************************************************)
\* The values are of their types, and a message is only ever between ranks that
\* share an entry.
THEOREM TypeCorrect == Spec => []TypeOK
<1>1. ASSUME IInv PROVE TypeOK
  <2>1. Places /\ DataTypes /\ LinkInv
    BY <1>1 DEF IInv
  <2>2. Length = 36
    BY <2>1, Programs, ConstantsOK DEF Places
  <2>3. \A l \in Links : msgs[l] # <<>> => l[2] \in Targets(l[1]) \cup Ghosts[l[1]]
    BY <2>1 DEF LinkInv, Joins
  <2> QED BY <2>1, <2>2, <2>3 DEF TypeOK, Places, DataTypes
<1> QED BY <1>1, Inductive, PTL

\* However the messages are delayed, a call of the filter returns the polynomial
\* of full order on both blocks, complete, and leaves no ghost entry behind.
THEOREM FilterExactCorrect == Spec => []FilterExact
<1>1. ASSUME IInv PROVE FilterExact
  <2> SUFFICES ASSUME NEW p \in Ranks, pc[p] = Length + 1, NEW b \in Blocks
               PROVE  /\ own[p][Y(p, b)] = Value(b, call[p], Order, Shares(p))
                      /\ \A q \in Ghosts[p] : ghost[p][X(p, b)][q] = Zero /\ ghost[p][Y(p, b)][q] = Zero
    BY DEF FilterExact
  <2>1. Places /\ Holds(p)
    BY <1>1 DEF IInv
  <2>2. pc[p] = 37
    BY <2>1, Programs, ConstantsOK DEF Places
  <2>3. Stage(p, b) = 0 /\ Deg(p, b) = Order
    BY <2>1, <2>2, Where, ConstantsOK
  <2>4. call[p] >= 1
    BY <2>1, <2>2, ConstantsOK DEF Places
  <2>5. HoldsBlock(p, b)
    BY <2>1, <2>4, HoldsIsPerBlock
  <2>6. VectorY(p, b) /\ VectorX(p, b)
    BY <2>5 DEF HoldsBlock
  <2> HIDE DEF Stage, Deg
  <2>7. own[p][Y(p, b)] = Value(b, call[p], Order, Shares(p)) /\ \A q \in Ghosts[p] : ghost[p][Y(p, b)][q] = Zero
    BY <2>3, <2>6 DEF VectorY
  <2>8. \A q \in Ghosts[p] : ghost[p][X(p, b)][q] = Zero
    BY <2>3, <2>6 DEF VectorX
  <2> QED BY <2>7, <2>8
<1> QED BY <1>1, Inductive, PTL

(***************************************************************************)
(* The buffers.                                                            *)
(***************************************************************************)
\* Whoever has a request in flight is in the exchange it belongs to.
WhilePosted ==
  \A l \in Links, s \in Stores :
    /\ Contains(msgs[l], Posted(s)) => Open(l[1], l[3], s)
    /\ Contains(recvs[l], s) => Open(l[2], l[3], s) /\ recvs[l] # <<>>

\* The requests in flight are of the exchanges the ranks are in.
LEMMA InExchange == IInv => WhilePosted
<1> SUFFICES ASSUME IInv, NEW l \in Links, NEW s \in Stores
             PROVE  /\ Contains(msgs[l], Posted(s)) => Open(l[1], l[3], s)
                    /\ Contains(recvs[l], s) => Open(l[2], l[3], s) /\ recvs[l] # <<>>
  BY DEF WhilePosted
<1>1. CASE Joins(l)
  <2>1. Flows(l)
    BY <1>1 DEF IInv, LinkInv
  <2>2. Contains(msgs[l], Posted(s)) => Open(l[1], l[3], s)
    BY <2>1, UncopiedIsPosted
  <2>3. ASSUME Contains(recvs[l], s) PROVE Open(l[2], l[3], s) /\ recvs[l] # <<>>
    <3>1. recvs[l] # <<>>
      BY <2>3 DEF Contains
    <3>2. PICK r \in Stores : recvs[l] = <<r>> /\ Open(l[2], l[3], r)
      BY <2>1, <3>1 DEF Flows
    <3>3. r = s
      BY <2>3, <3>2 DEF Contains
    <3> QED BY <3>1, <3>2, <3>3
  <2> QED BY <2>2, <2>3
<1>2. CASE ~Joins(l)
  <2>1. msgs[l] = <<>> /\ recvs[l] = <<>>
    BY <1>2 DEF IInv, LinkInv
  <2> QED BY <2>1 DEF Contains
<1> QED BY <1>1, <1>2

\* A step of the program leaves the vectors alone whose exchange goes on.
LEMMA StillOpen ==
  ASSUME ConstantsOK, IInv, NEW r \in Ranks, NEW b \in Blocks, NEW k \in 0..8, Working(r, b, k),
         NEW p \in Ranks, NEW tag, NEW s \in Stores, Open(p, tag, s), Open(p, tag, s)'
  PROVE  ghost'[p][s] = ghost[p][s] /\ buf'[p][s] = buf[p][s]
<1>1. CASE p # r
  BY <1>1 DEF Working
<1>2. CASE p = r
  <2>1. /\ Stage(p, b) = k /\ Stage(p, b)' = (IF k = 8 THEN 0 ELSE k + 1)
        /\ \A o \in Blocks : o # b => Stage(p, o)' = Stage(p, o)
        /\ Places
    BY <1>2 DEF Working, Going, IInv
  <2>2. PICK o \in Blocks : OpenAt(p, o, Stage(p, o), tag, s)
    BY DEF Open
  <2>3. Stage(p, o) \in {1, 4, 5, 8}
    BY <2>2 DEF OpenAt
  <2>4. PICK a \in Blocks : OpenAt(p, a, Stage(p, a), tag, s)'
    BY DEF Open
  <2>5. (Stage(p, a))' \in {1, 4, 5, 8}
    BY <2>4 DEF OpenAt
  <2> HIDE DEF Stage, X, Y
  <2>6. o # b
    <3> SUFFICES ASSUME o = b PROVE FALSE
      OBVIOUS
    <3>1. CASE a = b
      <4>1. k = 4
        BY <2>1, <2>3, <2>5, <3>1
      <4>2. tag = "gather"
        BY <2>1, <2>2, <4>1 DEF OpenAt
      <4>3. (Stage(p, a))' = 5
        BY <2>1, <3>1, <4>1
      <4>4. tag = "scatter"
        BY <2>4, <4>3 DEF OpenAt
      <4> QED BY <4>2, <4>4
    <3>2. CASE a # b
      <4>1. Stage(p, a) \in {1, 4, 5, 8}
        BY <2>1, <2>5, <3>2
      <4> QED BY <2>1, <2>3, <3>2, <4>1, OneAtATime
    <3> QED BY <3>1, <3>2
  <2>7. s \notin {X(p, b), Y(p, b)}
    BY <2>2, <2>6, Vectors DEF OpenAt
  <2>8. s = Projections => k \notin {3, 4}
    <3> SUFFICES ASSUME s = Projections PROVE k \notin 3..6
      OBVIOUS
    <3>1. Stage(p, o) \in 3..6
      BY <2>2, Vectors DEF OpenAt
    <3> QED BY <2>1, <2>6, <3>1, OneAtATime
  <2> QED BY <1>2, <2>7, <2>8 DEF Working, SameVector
<1> QED BY <1>1, <1>2

\* A buffer changes only when no request of it is in flight before or after.
LEMMA StepLeavesBuffers ==
  ASSUME ConstantsOK, IInv, IInv', Next, NEW l \in Links, NEW s \in Stores
  PROVE  Contents(l, s)
<1>1. WhilePosted /\ WhilePosted'
  BY InExchange, PTL
<1>2. l[1] \in Ranks /\ l[2] \in Ranks /\ l[3] \in {"scatter", "gather"}
  BY LinkParts
<1>3. Places /\ DataTypes
  BY DEF IInv
<1>4. /\ Contains(msgs[l], Posted(s)) => Open(l[1], l[3], s)
      /\ Contains(msgs[l], Posted(s))' => Open(l[1], l[3], s)'
      /\ Contains(recvs[l], s) => Open(l[2], l[3], s)
      /\ Contains(recvs[l], s)' => Open(l[2], l[3], s)' /\ recvs'[l] # <<>>
  BY <1>1 DEF WhilePosted
<1> HIDE DEF Open
<1>5. ASSUME \A p \in Ranks : Open(p, l[3], s) /\ Open(p, l[3], s)' =>
                ghost'[p][s] = ghost[p][s] /\ buf'[p][s] = buf[p][s]
      PROVE  Contents(l, s)
  <2>1. ASSUME Contains(msgs[l], Posted(s)), Contains(msgs[l], Posted(s))'
        PROVE  SendContent(l, s)' = SendContent(l, s)
    <3>1. ghost'[l[1]][s] = ghost[l[1]][s] /\ buf'[l[1]][s] = buf[l[1]][s]
      BY <1>2, <1>4, <1>5, <2>1
    <3> QED BY <3>1 DEF SendContent
  <2>2. ASSUME Contains(recvs[l], s), Contains(recvs[l], s)'
        PROVE  ghost'[l[2]][s] = ghost[l[2]][s] /\ buf'[l[2]][s] = buf[l[2]][s]
    BY <1>2, <1>4, <1>5, <2>2
  <2> QED BY <2>1, <2>2 DEF Contents
<1>6. ASSUME NEW r \in Ranks, Steps(r) PROVE Contents(l, s)
  <2>1. PICK b \in Blocks, k \in 0..8 : Working(r, b, k)
    BY <1>6, StepsWork
  <2> QED BY <2>1, <1>5, StillOpen
<1>7. ASSUME NEW r \in Ranks, Begin(r) PROVE Contents(l, s)
  <2>1. \A o \in Blocks : Stage(r, o) = 0
    BY <1>7, Began
  <2>2. ~Open(r, l[3], s)
    BY <2>1 DEF Open, OpenAt
  <2>3. \A p \in Ranks : p # r => ghost'[p] = ghost[p] /\ buf'[p] = buf[p]
    BY <1>3, <1>7 DEF Begin, DataTypes
  <2> QED BY <2>2, <2>3, <1>5
<1>8. ASSUME NEW r \in Ranks, Return(r) PROVE Contents(l, s)
  BY <1>5, <1>8 DEF Return, data
<1>9. ASSUME NEW k \in Links, Copied(k) PROVE Contents(l, s)
  BY <1>5, <1>9 DEF Copied, data
<1>10. ASSUME NEW k \in Links, Received(k) PROVE Contents(l, s)
  <2>1. PICK t \in Stores : recvs[k] = <<t>> /\ Open(k[2], k[3], t)
    BY <1>10, Brought DEF Received
  <2>2. /\ k[1] \in Ranks /\ k[2] \in Ranks /\ k[3] \in {"scatter", "gather"} /\ k = <<k[1], k[2], k[3]>>
        /\ l = <<l[1], l[2], l[3]>>
    BY LinkParts
  <2>3. PICK v : IF k[3] = "scatter"
                 THEN ghost' = [ghost EXCEPT ![k[2]][t][k[1]] = v] /\ UNCHANGED buf
                 ELSE buf' = [buf EXCEPT ![k[2]][t][k[1]] = v] /\ UNCHANGED ghost
    <3>1. Head(recvs[k]) = t
      BY <2>1
    <3> QED BY <3>1, <1>10 DEF Received
  <2>4. recvs'[k] = <<>>
    <3>1. recvs' = [recvs EXCEPT ![k] = Tail(@)] /\ Tail(<<t>>) = <<>>
      BY <1>10 DEF Received
    <3> QED BY <3>1, <2>1, <1>3 DEF DataTypes
  <2>5. \A p \in Ranks, u \in Stores : \A q :
          /\ k[3] # "scatter" \/ p # k[2] \/ u # t \/ q # k[1] => ghost'[p][u][q] = ghost[p][u][q]
          /\ k[3] # "gather" \/ p # k[2] \/ u # t \/ q # k[1] => buf'[p][u][q] = buf[p][u][q]
    <3> SUFFICES ASSUME NEW p \in Ranks, NEW u \in Stores, NEW q
                 PROVE  /\ k[3] # "scatter" \/ p # k[2] \/ u # t \/ q # k[1] => ghost'[p][u][q] = ghost[p][u][q]
                        /\ k[3] # "gather" \/ p # k[2] \/ u # t \/ q # k[1] => buf'[p][u][q] = buf[p][u][q]
      OBVIOUS
    <3>1. CASE k[3] = "scatter"
      <4>1. ghost' = [ghost EXCEPT ![k[2]][t][k[1]] = v] /\ buf' = buf /\ k[3] # "gather"
        BY <2>3, <3>1
      <4> QED BY <4>1, <3>1, <1>3 DEF DataTypes
    <3>2. CASE k[3] = "gather"
      <4>1. buf' = [buf EXCEPT ![k[2]][t][k[1]] = v] /\ ghost' = ghost /\ k[3] # "scatter"
        BY <2>3, <3>2
      <4> QED BY <4>1, <3>2, <1>3 DEF DataTypes
    <3> QED BY <2>2, <3>1, <3>2
  <2>6. ASSUME Contains(msgs[l], Posted(s)), Contains(msgs[l], Posted(s))'
        PROVE  SendContent(l, s)' = SendContent(l, s)
    <3>1. l[1] = k[2] /\ s = t => l[3] = k[3]
      BY <1>2, <1>3, <1>4, <2>1, <2>6, OneOpen
    <3> QED BY <3>1, <2>2, <2>5, <1>2 DEF SendContent
  <2>7. ASSUME Contains(recvs[l], s), Contains(recvs[l], s)'
        PROVE  IF l[3] = "scatter" THEN ghost[l[2]][s][l[1]]' = ghost[l[2]][s][l[1]]
                                   ELSE buf[l[2]][s][l[1]]' = buf[l[2]][s][l[1]]
    <3>1. l # k
      BY <1>4, <2>4, <2>7
    <3> QED BY <3>1, <2>2, <2>5, <1>2
  <2> QED BY <2>6, <2>7 DEF Contents
<1> QED BY <1>6, <1>7, <1>8, <1>9, <1>10 DEF Next, Rank, Steps

\* What MPI asks of its callers: between posting a request and its completion the
\* program leaves the buffer alone, although it computes on the other block meanwhile.
THEOREM BuffersCorrect == Spec => BuffersLeftAlone
<1>1. ASSUME IInv, IInv', [Next]_vars
      PROVE  [\A l \in Links, s \in Stores : Contents(l, s)]_vars
  BY <1>1, StepLeavesBuffers, ConstantsOK
<1> QED BY <1>1, Inductive, PTL DEF Spec, BuffersLeftAlone

(***************************************************************************)
(* The program filters its blocks as BlockFilter says.                     *)
(***************************************************************************)
\* The degrees of BlockFilter, read off the vectors and off the program counters.
Mapped == [p \in Ranks |-> [b \in Blocks |-> IF call[p] = 0 THEN Order ELSE own[p][Y(p, b)].deg]]
Degrees == [p \in Ranks |-> [b \in Blocks |-> Deg(p, b)]]
SameDegrees == Mapped = Degrees

\* The degree of Y is the degree its stage tells.
LEMMA DegreesAgree == IInv => SameDegrees
<1> SUFFICES ASSUME IInv, NEW p \in Ranks, NEW b \in Blocks
             PROVE  (IF call[p] = 0 THEN Order ELSE own[p][Y(p, b)].deg) = Deg(p, b)
  BY DEF SameDegrees, Mapped, Degrees
<1>1. Places /\ Holds(p)
  BY DEF IInv
<1>2. CASE call[p] = 0
  BY <1>1, <1>2 DEF Places, Deg
<1>3. CASE call[p] # 0
  <2>1. call[p] >= 1
    BY <1>1, <1>3, Where, ConstantsOK DEF Blocks
  <2>2. own[p][Y(p, b)] = Value(b, call[p], Deg(p, b), Shares(p))
    BY <1>1, <2>1, HoldsIsPerBlock DEF HoldsBlock, VectorY
  <2> HIDE DEF Deg, Y
  <2>3. own[p][Y(p, b)].deg = Deg(p, b)
    BY <2>2, ValueFields
  <2> QED BY <1>3, <2>3
<1> QED BY <1>2, <1>3

\* A rank that has begun as many exchanges has reached the degree they belong to.
LEMMA Ahead ==
  ASSUME ConstantsOK, Places, NEW p \in Ranks, NEW q \in Ranks, NEW b \in Blocks, NEW tag \in {"scatter", "gather"},
         call[p] >= 1, Deg(p, b) < Order, Begun(q, tag) >= Exchange(call[p], Deg(p, b), b, 2)
  PROVE  call[q] > call[p] \/ (call[q] = call[p] /\ Deg(q, b) >= Deg(p, b))
<1>1. /\ call[p] \in Nat /\ call[q] \in Nat /\ Order \in Nat /\ First \in {0, 1} /\ Order >= 2
      /\ Deg(p, b) \in First..Order /\ Deg(q, b) \in First..Order
  BY Where, Programs DEF Places
<1> DEFINE t == Turns(call[p] - 1)  d == Deg(p, b)  e == Deg(q, b)  c == call[p]  m == call[q]
<1>2. c - 1 \in Nat /\ t \in Nat
  <2>1. c - 1 \in Nat
    BY <1>1
  <2> QED BY <1>1, <2>1, TurnsGrow
<1>3. Exchange(c, d, b, 2) = 4 * t + 4 * (d - First) + 2 * (b - 1) + 2
  BY DEF Exchange
<1>4. Begun(q, tag) \in Nat
  BY BegunNat
<1>5. Exchange(c, d, b, 2) > 4 * t
  <2> HIDE DEF t, d
  <2>1. d \in Nat /\ d >= First
    BY <1>1 DEF d
  <2> QED BY <1>1, <1>2, <1>3, <2>1 DEF Blocks
<1>6. ASSUME m < c PROVE FALSE
  <2>1. Begun(q, tag) <= 4 * Turns(m)
    <3>1. CASE m = 0
      <4>1. Begun(q, tag) = 0
        BY <3>1 DEF Begun
      <4>2. Turns(0) = 0
        BY <1>1, TurnsGrow
      <4> QED BY <3>1, <4>1, <4>2
    <3>2. CASE m # 0
      <4>1. m >= 1
        BY <1>1, <3>2
      <4> QED BY <4>1, Counted
    <3> QED BY <3>1, <3>2
  <2>2. Turns(m) \in Nat /\ t >= Turns(m)
    <3>1. m \in Nat /\ m <= c - 1
      BY <1>1, <1>6
    <3> QED BY <1>1, <1>2, <3>1, TurnsGrow
  <2> HIDE DEF Begun, Turns, Exchange, t, m
  <2>3. Begun(q, tag) >= Exchange(c, d, b, 2) /\ Exchange(c, d, b, 2) \in Int
    <3>1. Exchange(c, d, b, 2) \in Int
      <4> HIDE DEF d
      <4>1. d \in Nat
        BY <1>1 DEF d
      <4> QED BY <1>1, <1>2, <1>3, <4>1 DEF Blocks
    <3> QED BY <3>1
  <2> QED BY <1>2, <1>4, <1>5, <2>1, <2>2, <2>3
<1>7. ASSUME m = c, e < d PROVE FALSE
  <2>1. Begun(q, tag) < Exchange(m, e + 1, b, 2)
    <3>1. m >= 1
      BY <1>7
    <3> QED BY <3>1, Counted
  <2> DEFINE f == e + 1
  <2>2. f \in Nat /\ f <= d /\ d \in Nat
    BY <1>1, <1>7
  <2> HIDE DEF f, d, e
  <2>3. Exchange(m, f, b, 2) = 4 * t + 4 * (f - First) + 2 * (b - 1) + 2
    BY <1>7 DEF Exchange
  <2>4. Exchange(m, f, b, 2) <= Exchange(c, d, b, 2) /\ Exchange(m, f, b, 2) \in Int /\ Exchange(c, d, b, 2) \in Int
    <3> HIDE DEF t, Exchange
    <3> QED BY <1>1, <1>2, <1>3, <2>2, <2>3 DEF Blocks
  <2>5. Begun(q, tag) >= Exchange(c, d, b, 2) /\ Begun(q, tag) < Exchange(m, f, b, 2)
    BY <2>1 DEF d, f
  <2> HIDE DEF Begun, Exchange
  <2> QED BY <1>4, <2>4, <2>5
<1> HIDE DEF d, e
<1>8. d \in Nat /\ e \in Nat
  BY <1>1 DEF d, e
<1>9. m > c \/ (m = c /\ e >= d)
  BY <1>1, <1>6, <1>7, <1>8
<1> QED BY <1>9 DEF d, e

\* A block is taken to the next degree when every neighbour has reached the present.
LEMMA NeighboursReached ==
  ASSUME ConstantsOK, IInv, NEW p \in Ranks, NEW b \in Blocks, Working(p, b, 8),
         NEW q \in Ghosts[p] \cup Targets(p)
  PROVE  call[q] > call[p] \/ (call[q] = call[p] /\ Deg(q, b) >= Deg(p, b))
<1>1. Places /\ LinkInv /\ q \in Ranks /\ First \in {0, 1} /\ Order \in Nat /\ Order >= 2
  BY ValuesAre, Programs DEF IInv, Places
<1>2. Stage(p, b) = 8 /\ Exchanging(p, b, 8)
  BY DEF Working, Going
<1>3. call[p] >= 1 /\ Deg(p, b) < Order
  BY <1>1, <1>2, Where
<1>4. /\ Begun(p, "gather") = Exchange(call[p], Deg(p, b), b, 2)
      /\ Begun(p, "scatter") >= Exchange(call[p], Deg(p, b), b, 2)
      /\ \A tag \in {"scatter", "gather"} : Begun(p, tag) \in Nat /\ Begun(q, tag) \in Nat
  BY <1>1, <1>2, <1>3, Counted, BegunNat
<1>5. OpenAt(p, b, 8, "gather", X(p, b)) /\ Open(p, "gather", X(p, b))
  BY <1>2 DEF OpenAt, Open
<1>6. ASSUME NEW tag \in {"scatter", "gather"}, Joins(<<q, p, tag>>), recvs[<<q, p, tag>>] = <<>>
      PROVE  Begun(q, tag) >= Begun(p, tag)
  <2> DEFINE l == <<q, p, tag>>
  <2>1. l \in Links /\ l[1] = q /\ l[2] = p /\ l[3] = tag
    BY <1>1 DEF Links
  <2>2. Flows(l)
    BY <1>1, <1>6, <2>1 DEF LinkInv
  <2>3. Begun(q, tag) - Len(msgs[l]) = Begun(p, tag) - Len(recvs[l]) /\ Len(msgs[l]) \in Nat /\ Len(recvs[l]) = 0
    BY <1>6, <2>1, <2>2 DEF Flows
  <2> HIDE DEF Begun, l
  <2> QED BY <1>4, <2>3
<1> DEFINE n == Exchange(call[p], Deg(p, b), b, 2)
<1>7. CASE q \in Targets(p)
  <2> DEFINE l == <<q, p, "gather">>
  <2>1. l \in Links /\ l[2] = p /\ l[3] = "gather" /\ Joins(l)
    BY <1>1, <1>7, ValuesAre DEF Links, Joins
  <2>2. Waited(p, X(p, b), "gather")
    BY <1>2, <1>5 DEF Exchanging
  <2>3. recvs[l] = <<>>
    BY <1>1, <1>5, <2>1, <2>2, Ended
  <2>4. Begun(q, "gather") >= n
    BY <1>4, <1>6, <2>1, <2>3
  <2> QED BY <1>1, <1>3, <2>4, Ahead
<1>8. CASE q \in Ghosts[p]
  <2> DEFINE l == <<q, p, "scatter">>
  <2>1. l \in Links /\ l[2] = p /\ l[3] = "scatter" /\ Joins(l)
    BY <1>1, <1>8, ValuesAre DEF Links, Joins
  <2>2. recvs[l] = <<>>
    <3>1. Flows(l)
      BY <1>1, <2>1 DEF LinkInv
    <3>2. \A s : ~Open(p, "scatter", s)
      BY <1>1, <1>5, OneOpen
    <3> QED BY <2>1, <3>1, <3>2 DEF Flows
  <2>3. Begun(q, "scatter") >= Begun(p, "scatter")
    BY <1>6, <2>1, <2>2
  <2>4. Begun(q, "scatter") >= n
    <3>1. n \in Int
      BY <1>4
    <3> HIDE DEF n, Begun
    <3>2. Begun(p, "scatter") >= n
      BY <1>4 DEF n
    <3> QED BY <1>4, <2>3, <3>1, <3>2
  <2> QED BY <1>1, <1>3, <2>4, Ahead
<1> QED BY <1>7, <1>8

\* A step of the program takes a block to its next degree, or a rank into its next
\* call, or changes neither.
LEMMA StepFilters ==
  ASSUME ConstantsOK, IInv, IInv', [Next]_vars
  PROVE  [Filter!Next]_(Filter!vars)
<1>1. Mapped = Degrees /\ Mapped' = Degrees'
  <2>1. SameDegrees /\ SameDegrees'
    BY DegreesAgree, PTL
  <2> QED BY <2>1 DEF SameDegrees
<1>2. ASSUME First' = First, call' = call, \A q \in Ranks, o \in Blocks : Deg(q, o)' = Deg(q, o)
      PROVE  UNCHANGED Filter!vars
  <2>1. Degrees' = Degrees
    BY <1>2 DEF Degrees
  <2>2. Mapped' = Mapped
    BY <1>1, <2>1
  <2> QED BY <1>2, <2>2 DEF Filter!vars, Mapped
<1>3. ASSUME NEW p \in Ranks, NEW b \in Blocks, Working(p, b, 8)
      PROVE  Filter!Next
  <2>1. /\ Places /\ Stage(p, b) = 8 /\ Deg(p, b)' = Deg(p, b) + 1 /\ call' = call /\ First' = First
        /\ \A o \in Blocks : o # b => Deg(p, o)' = Deg(p, o)
        /\ \A q \in Ranks, o \in Blocks : q # p => Deg(q, o)' = Deg(q, o)
    BY <1>3 DEF Working, Going, IInv
  <2>2. Deg(p, b) < Order
    BY <2>1, Where
  <2> HIDE DEF Deg
  <2>3. Degrees' = [Degrees EXCEPT ![p][b] = @ + 1]
    BY <2>1 DEF Degrees
  <2>4. \A q \in Ghosts[p] \cup Targets(p) : call[q] > call[p] \/ (call[q] = call[p] /\ Deg(q, b) >= Deg(p, b))
    BY <1>3, NeighboursReached
  <2>5. \A q \in Ranks, o \in Blocks : Mapped[q][o] = Deg(q, o)
    BY <1>1 DEF Degrees
  <2>6. Mapped[p][b] < Order /\ Mapped' = [Mapped EXCEPT ![p][b] = @ + 1]
    BY <1>1, <2>2, <2>3, <2>5
  <2>7. \A q \in Ghosts[p] \cup Targets(p) :
          call[q] > call[p] \/ (call[q] = call[p] /\ Mapped[q][b] >= Mapped[p][b])
    BY <2>4, <2>5, ValuesAre
  <2>8. Filter!Advance(p, b)
    BY <2>1, <2>6, <2>7 DEF Filter!Advance, Filter!Reached, Mapped
  <2> QED BY <2>8 DEF Filter!Next
<1>4. ASSUME NEW p \in Ranks, Steps(p) PROVE [Filter!Next]_(Filter!vars)
  <2>1. PICK b \in Blocks, k \in 0..8 : Working(p, b, k)
    BY <1>4, StepsWork
  <2>2. CASE k = 8
    BY <2>1, <2>2, <1>3
  <2>3. CASE k # 8
    <3>1. /\ First' = First /\ call' = call /\ Deg(p, b)' = Deg(p, b) + 0
          /\ \A o \in Blocks : o # b => Deg(p, o)' = Deg(p, o)
          /\ \A q \in Ranks, o \in Blocks : q # p => Deg(q, o)' = Deg(q, o)
      BY <2>1, <2>3 DEF Working, Going
    <3>2. Deg(p, b) \in Nat
      BY Where DEF IInv
    <3> HIDE DEF Deg
    <3>3. \A q \in Ranks, o \in Blocks : Deg(q, o)' = Deg(q, o)
      BY <3>1, <3>2
    <3> QED BY <3>1, <3>3, <1>2
  <2> QED BY <2>2, <2>3
<1>5. ASSUME NEW p \in Ranks, Begin(p) PROVE Filter!Next
  <2>1. /\ call' = [call EXCEPT ![p] = @ + 1] /\ First' = First
        /\ \A q \in Ranks, o \in Blocks : q # p => Deg(q, o)' = Deg(q, o)
        /\ \A o \in Blocks : Deg(p, o) = Order /\ Deg(p, o)' = First
    BY <1>5, Began
  <2> HIDE DEF Deg
  <2>2. Degrees' = [Degrees EXCEPT ![p] = [o \in Blocks |-> First]]
    BY <2>1 DEF Degrees
  <2>3. \A o \in Blocks : Mapped[p][o] = Order
    BY <1>1, <2>1 DEF Degrees
  <2>4. Mapped' = [Mapped EXCEPT ![p] = [o \in Blocks |-> First]]
    BY <1>1, <2>2
  <2>5. Filter!New(p)
    BY <2>1, <2>3, <2>4 DEF Filter!New, Mapped
  <2> QED BY <2>5 DEF Filter!Next
<1>6. ASSUME NEW p \in Ranks, Return(p) PROVE UNCHANGED Filter!vars
  BY <1>2, <1>6, Returned
<1>7. ASSUME NEW l \in Links, Copied(l) \/ Received(l) PROVE UNCHANGED Filter!vars
  BY <1>2, <1>7, CopiedEarly, MessageReceived
<1>8. ASSUME UNCHANGED vars PROVE UNCHANGED Filter!vars
  BY <1>8 DEF vars, data, Filter!vars, First, Y
<1> QED BY <1>4, <1>5, <1>6, <1>7, <1>8 DEF Next, Rank, Steps

\* The overlapped program filters its blocks degree by degree as BlockFilter says:
\* a rank takes a block to the next degree only when its neighbours have reached the
\* present one.
THEOREM IsBlockFilterSteps == Spec => Filter!Init /\ [][Filter!Next]_(Filter!vars)
<1>1. Init => Filter!Init
  <2> SUFFICES ASSUME Init PROVE Filter!Init
    OBVIOUS
  <2>1. First \in {0, 1}
    BY DEF First
  <2>2. Mapped = [p \in Ranks |-> [b \in Blocks |-> Order]]
    BY DEF Init, Mapped
  <2> QED BY <2>1, <2>2 DEF Init, Filter!Init, Mapped
<1>2. IInv /\ IInv' /\ [Next]_vars => [Filter!Next]_(Filter!vars)
  BY StepFilters, ConstantsOK
<1> QED BY <1>1, <1>2, Inductive, PTL DEF Spec

FilterProofs == INSTANCE BlockFilterProofs WITH
  Neighbours <- [p \in Ranks |-> Ghosts[p] \cup Targets(p)],
  first <- First, turn <- call,
  deg <- [p \in Ranks |-> [b \in Blocks |->
            IF call[p] = 0 THEN Order ELSE own[p][Y(p, b)].deg]]

\* However far one rank is ahead of another, a block is never more than one degree
\* further on it than on a neighbour, and no rank more than one call.
THEOREM BlocksStayClose == Spec => []Filter!NeighboursClose
<1>1. FilterProofs!ConstantsOK
  BY ConstantsOK, ValuesAre DEF FilterProofs!ConstantsOK, ConstantsOK, Blocks, Targets
<1>2. FilterProofs!Init /\ [][FilterProofs!Next]_(FilterProofs!vars)
        => [](FilterProofs!TypeOK /\ FilterProofs!NeighboursClose)
  BY <1>1, FilterProofs!StepsKeepClose
<1>3. /\ Filter!Init <=> FilterProofs!Init
      /\ [Filter!Next]_(Filter!vars) <=> [FilterProofs!Next]_(FilterProofs!vars)
      /\ FilterProofs!NeighboursClose => Filter!NeighboursClose
  BY DEF Filter!Init, FilterProofs!Init, Filter!Next, FilterProofs!Next, Filter!New, FilterProofs!New,
         Filter!Advance, FilterProofs!Advance, Filter!Reached, FilterProofs!Reached, Filter!vars, FilterProofs!vars,
         Filter!NeighboursClose, FilterProofs!NeighboursClose, Filter!Close, FilterProofs!Close
<1> QED BY <1>2, <1>3, IsBlockFilterSteps, PTL
=============================================================================
