-------------------------- MODULE SocketSessionProofs --------------------------
(***************************************************************************)
(* What is proved of a calculator's session, for every number of launches  *)
(* and of calls, of scripts and of notebooks.                              *)
(*                                                                         *)
(* The argument is about the order of messages.  On the connection the     *)
(* driver holds, every line in either direction has a number, and what was *)
(* returned last, what has arrived, what the engine computes and what it   *)
(* has still to read are in that order (Order).  Until a call is           *)
(* interrupted only the request of the present call, or its response, is   *)
(* there at all (Clean); an interruption leaves lines behind, which a      *)
(* close() drops with the connection.  The first part is about streams of  *)
(* pieces: what taking the first line, reading a beginning or sending one  *)
(* more message does to their order.                                       *)
(***************************************************************************)
EXTENDS MCSocketSession, SequenceTheorems, WellFoundedInduction, TLAPS

\* The numbers of the messages that have a piece in s.
Numbers(s) == {s[i].of : i \in DOMAIN s}

\* Lines follow one another in the order of their numbers.
Ascending(s) ==
  \A i, j \in DOMAIN s : i < j => s[i].of <= s[j].of /\ (s[i].ends => s[i].of < s[j].of)

\* The last line of s is complete.
Whole(s) == s # <<>> => s[Len(s)].ends

LEMMA PieceTypes ==
  /\ Messages \subseteq Nat
  /\ \A x \in Pieces : x.of \in Messages /\ x.of \in Nat /\ x.ends \in BOOLEAN
BY ConstantsOK DEF Messages, Pieces, Exit

LEMMA MessageFacts ==
  ASSUME NEW m \in Messages
  PROVE  /\ Message(m) \in Seq(Pieces) /\ Len(Message(m)) = 2
         /\ Message(m)[1].of = m /\ Message(m)[2].of = m
         /\ ~Message(m)[1].ends /\ Message(m)[2].ends
         /\ Numbers(Message(m)) = {m} /\ Ascending(Message(m)) /\ Whole(Message(m))
<1>1. Message(m) \in Seq(Pieces)
  BY DEF Message, Pieces
<1>2. /\ Len(Message(m)) = 2 /\ DOMAIN Message(m) = 1..2
      /\ Message(m)[1].of = m /\ Message(m)[2].of = m
      /\ ~Message(m)[1].ends /\ Message(m)[2].ends
  BY DEF Message
<1>3. m \in Nat
  BY PieceTypes
<1>4. Numbers(Message(m)) = {m}
  BY <1>2 DEF Numbers
<1>5. Ascending(Message(m)) /\ Whole(Message(m))
  BY <1>2, <1>3 DEF Ascending, Whole
<1>6. QED BY <1>1, <1>2, <1>4, <1>5

LEMMA FirstLineIs ==
  ASSUME NEW s \in Seq(Pieces), Complete(s)
  PROVE  /\ FirstLine(s) \in 1..Len(s) /\ s[FirstLine(s)].ends
         /\ \A j \in 1..(FirstLine(s) - 1) : ~s[j].ends
<1> DEFINE T == {i \in DOMAIN s : s[i].ends}
<1>1. T \subseteq Nat /\ T # {} /\ DOMAIN s = 1..Len(s)
  BY LenProperties DEF Complete
<1>2. PICK i \in T : \A j \in T : ~(<<j, i>> \in OpToRel(<, Nat))
  <2> HIDE DEF T
  <2>1. QED BY <1>1, NatLessThanWellFounded, WFMin
<1>3. i \in DOMAIN s /\ s[i].ends /\ \A j \in 1..(i - 1) : ~s[j].ends
  <2>1. i \in DOMAIN s /\ s[i].ends /\ i \in Nat
    BY <1>1
  <2>2. ASSUME NEW j \in 1..(i - 1), s[j].ends PROVE FALSE
    <3>1. j \in T /\ j \in Nat /\ j < i
      BY <1>1, <2>1, <2>2
    <3>2. <<j, i>> \in OpToRel(<, Nat)
      BY <2>1, <3>1 DEF OpToRel
    <3>3. QED BY <1>2, <3>1, <3>2
  <2>3. QED BY <2>1, <2>2
<1>4. QED BY <1>1, <1>3 DEF FirstLine

LEMMA NumbersOfConcat ==
  ASSUME NEW s \in Seq(Pieces), NEW t \in Seq(Pieces)
  PROVE  Numbers(s \o t) = Numbers(s) \cup Numbers(t) /\ s \o t \in Seq(Pieces)
<1>1. /\ s \o t \in Seq(Pieces) /\ Len(s) \in Nat /\ Len(t) \in Nat
      /\ DOMAIN s = 1..Len(s) /\ DOMAIN t = 1..Len(t)
      /\ DOMAIN (s \o t) = 1..(Len(s) + Len(t))
      /\ \A i \in 1..(Len(s) + Len(t)) : (s \o t)[i] = IF i <= Len(s) THEN s[i] ELSE t[i - Len(s)]
  BY ConcatProperties, LenProperties
<1>2. ASSUME NEW i \in DOMAIN s PROVE s[i].of \in Numbers(s \o t)
  BY <1>1 DEF Numbers
<1>3. ASSUME NEW i \in DOMAIN t PROVE t[i].of \in Numbers(s \o t)
  <2>1. i + Len(s) \in DOMAIN (s \o t) /\ (s \o t)[i + Len(s)] = t[i]
    BY <1>1
  <2>2. QED BY <2>1 DEF Numbers
<1>4. ASSUME NEW i \in DOMAIN (s \o t) PROVE (s \o t)[i].of \in Numbers(s) \cup Numbers(t)
  <2>1. CASE i <= Len(s)
    BY <1>1, <2>1 DEF Numbers
  <2>2. CASE ~(i <= Len(s))
    <3>1. i - Len(s) \in DOMAIN t /\ (s \o t)[i] = t[i - Len(s)]
      BY <1>1, <2>2
    <3>2. QED BY <3>1 DEF Numbers
  <2>3. QED BY <2>1, <2>2
<1>5. QED BY <1>1, <1>2, <1>3, <1>4 DEF Numbers

LEMMA EmptyStream ==
  ASSUME NEW s \in Seq(Pieces)
  PROVE  /\ Numbers(<<>>) = {} /\ Ascending(<<>>) /\ Whole(<<>>) /\ ~Complete(<<>>)
         /\ Numbers(s) = {} <=> s = <<>>
         /\ Numbers(s) \subseteq Messages
<1>1. DOMAIN s = 1..Len(s) /\ Len(s) \in Nat /\ \A i \in 1..Len(s) : s[i] \in Pieces
  BY LenProperties, ElementOfSeq
<1>2. Numbers(s) = {} => s = <<>>
  <2>1. ASSUME Len(s) # 0 PROVE s[1].of \in Numbers(s)
    <3>1. 1 \in DOMAIN s
      BY <1>1, <2>1
    <3>2. QED BY <3>1 DEF Numbers
  <2>2. QED BY <1>1, <2>1, EmptySeq
<1>3. DOMAIN <<>> = {} /\ ~Complete(<<>>) /\ Ascending(<<>>) /\ Whole(<<>>)
  BY DEF Complete, Ascending, Whole
<1>4. Numbers(<<>>) = {}
  BY <1>3 DEF Numbers
<1>5. Numbers(s) \subseteq Messages
  BY <1>1, PieceTypes DEF Numbers
<1>6. QED BY <1>2, <1>3, <1>4, <1>5

LEMMA Splitting ==
  ASSUME NEW s \in Seq(Pieces), NEW n \in 1..Len(s)
  PROVE  /\ Take(s, n) \in Seq(Pieces) /\ Drop(s, n) \in Seq(Pieces)
         /\ Len(Take(s, n)) = n /\ Len(Drop(s, n)) = Len(s) - n
         /\ Take(s, n) \o Drop(s, n) = s
         /\ \A i \in 1..n : Take(s, n)[i] = s[i]
         /\ \A i \in 1..(Len(s) - n) : Drop(s, n)[i] = s[n + i]
<1>1. Len(s) \in Nat /\ n \in Nat /\ \A i \in 1..Len(s) : s[i] \in Pieces
  BY LenProperties, ElementOfSeq
<1>2. Take(s, n) \in Seq(Pieces) /\ Len(Take(s, n)) = n /\ \A i \in 1..n : Take(s, n)[i] = s[i]
  BY <1>1, SubSeqProperties DEF Take
<1>3. /\ Drop(s, n) \in Seq(Pieces) /\ Len(Drop(s, n)) = Len(s) - n
      /\ \A i \in 1..(Len(s) - n) : Drop(s, n)[i] = s[n + i]
  <2>1. \A i \in (n + 1)..Len(s) : s[i] \in Pieces
    BY <1>1
  <2>2. /\ SubSeq(s, n + 1, Len(s)) \in Seq(Pieces)
        /\ Len(SubSeq(s, n + 1, Len(s))) = IF n + 1 <= Len(s) THEN Len(s) - (n + 1) + 1 ELSE 0
        /\ \A i \in 1..(Len(s) - (n + 1) + 1) : SubSeq(s, n + 1, Len(s))[i] = s[n + 1 + i - 1]
    BY <1>1, <2>1, SubSeqProperties
  <2>3. QED BY <1>1, <2>2 DEF Drop
<1>4. Take(s, n) \o Drop(s, n) = s
  <2>1. SubSeq(s, 1, n) \o SubSeq(s, n + 1, Len(s)) = SubSeq(s, 1, Len(s))
    BY <1>1, ConcatAdjacentSubSeq
  <2>2. QED BY <2>1, SubSeqFull DEF Take, Drop
<1>5. QED BY <1>2, <1>3, <1>4

\* A suffix of an ascending stream, behind a piece that ends a line, is ascending
\* and greater than that line.
LEMMA Suffix ==
  ASSUME NEW s \in Seq(Pieces), NEW d \in Seq(Pieces), NEW n \in 1..Len(s),
         Len(d) = Len(s) - n, \A i \in 1..Len(d) : d[i] = s[n + i], Ascending(s)
  PROVE  /\ Ascending(d) /\ (Whole(s) => Whole(d))
         /\ Numbers(d) \subseteq Numbers(s) /\ s[n].of \in Numbers(s)
         /\ s[n].ends => \A m \in Numbers(d) : s[n].of < m
<1>1. /\ Len(s) \in Nat /\ Len(d) \in Nat /\ n \in Nat
      /\ DOMAIN s = 1..Len(s) /\ DOMAIN d = 1..Len(d)
  BY LenProperties
<1>2. \A i \in DOMAIN d : n + i \in DOMAIN s /\ n < n + i /\ d[i] = s[n + i]
  BY <1>1
<1>3. n \in DOMAIN s
  BY <1>1
<1>4. Ascending(d)
  <2> SUFFICES ASSUME NEW i \in DOMAIN d, NEW j \in DOMAIN d, i < j
               PROVE  d[i].of <= d[j].of /\ (d[i].ends => d[i].of < d[j].of)
    BY DEF Ascending
  <2>1. n + i < n + j
    BY <1>1
  <2>2. QED BY <1>2, <2>1 DEF Ascending
<1>5. Numbers(d) \subseteq Numbers(s) /\ s[n].of \in Numbers(s)
  BY <1>2, <1>3 DEF Numbers
<1>6. Whole(s) => Whole(d)
  <2>1. SUFFICES ASSUME Whole(s), d # <<>> PROVE d[Len(d)].ends
    BY DEF Whole
  <2>2. Len(d) # 0
    BY <2>1, EmptySeq
  <2>3. Len(d) \in DOMAIN d /\ n + Len(d) = Len(s) /\ s # <<>>
    BY <1>1, <2>2
  <2>4. QED BY <1>2, <2>1, <2>3 DEF Whole
<1>7. s[n].ends => \A m \in Numbers(d) : s[n].of < m
  BY <1>2, <1>3 DEF Ascending, Numbers
<1>8. QED BY <1>4, <1>5, <1>6, <1>7

LEMMA Concat ==
  ASSUME NEW s \in Seq(Pieces), NEW t \in Seq(Pieces)
  PROVE  /\ s \o t \in Seq(Pieces) /\ Len(s \o t) = Len(s) + Len(t)
         /\ Len(s) \in Nat /\ Len(t) \in Nat
         /\ \A i \in 1..(Len(s) + Len(t)) : (s \o t)[i] = IF i <= Len(s) THEN s[i] ELSE t[i - Len(s)]
BY ConcatProperties, LenProperties

\* What is left of two streams behind the first n pieces of the first one.
LEMMA RestOfConcat ==
  ASSUME NEW s \in Seq(Pieces), NEW d \in Seq(Pieces), NEW t \in Seq(Pieces), NEW n \in 1..Len(s),
         Len(d) = Len(s) - n, \A i \in 1..Len(d) : d[i] = s[n + i],
         Ascending(s \o t), s[n].ends
  PROVE  /\ Ascending(d \o t) /\ (Whole(s \o t) => Whole(d \o t))
         /\ Numbers(d \o t) \subseteq Numbers(s \o t)
         /\ s[n].of \in Numbers(s \o t)
         /\ \A k \in Numbers(d \o t) : s[n].of < k
<1>1. /\ s \o t \in Seq(Pieces) /\ Len(s \o t) = Len(s) + Len(t)
      /\ Len(s) \in Nat /\ Len(t) \in Nat
      /\ \A i \in 1..(Len(s) + Len(t)) : (s \o t)[i] = IF i <= Len(s) THEN s[i] ELSE t[i - Len(s)]
  BY Concat
<1>2. /\ d \o t \in Seq(Pieces) /\ Len(d \o t) = Len(d) + Len(t) /\ Len(d) \in Nat
      /\ \A i \in 1..(Len(d) + Len(t)) : (d \o t)[i] = IF i <= Len(d) THEN d[i] ELSE t[i - Len(d)]
  BY Concat
<1>3. n \in Nat /\ n \in 1..Len(s \o t) /\ (s \o t)[n] = s[n] /\ Len(d \o t) = Len(s \o t) - n
  BY <1>1, <1>2
<1>4. ASSUME NEW i \in 1..Len(d \o t) PROVE (d \o t)[i] = (s \o t)[n + i]
  <2>1. i \in Nat /\ n + i \in 1..(Len(s) + Len(t)) /\ i \in 1..(Len(d) + Len(t))
    BY <1>1, <1>2, <1>3
  <2>2. CASE i <= Len(d)
    <3>1. (d \o t)[i] = d[i] /\ i \in 1..Len(d) /\ n + i <= Len(s)
      BY <1>2, <1>3, <2>1, <2>2
    <3>2. QED BY <1>1, <2>1, <3>1
  <2>3. CASE ~(i <= Len(d))
    <3>1. (d \o t)[i] = t[i - Len(d)] /\ ~(n + i <= Len(s)) /\ i - Len(d) = n + i - Len(s)
      BY <1>1, <1>2, <1>3, <2>1, <2>3
    <3>2. QED BY <1>1, <2>1, <3>1
  <2>4. QED BY <2>2, <2>3
<1>5. /\ Ascending(d \o t) /\ (Whole(s \o t) => Whole(d \o t))
      /\ Numbers(d \o t) \subseteq Numbers(s \o t) /\ (s \o t)[n].of \in Numbers(s \o t)
      /\ (s \o t)[n].ends => \A m \in Numbers(d \o t) : (s \o t)[n].of < m
  BY <1>1, <1>2, <1>3, <1>4, Suffix
<1>6. QED BY <1>3, <1>5

\* After its first line has been taken, an ascending stream is ascending, and all
\* that is left is greater than that line.
LEMMA FirstLineTaken ==
  ASSUME NEW s \in Seq(Pieces), NEW t \in Seq(Pieces), Complete(s), Ascending(s \o t)
  PROVE  LET d == Drop(s, FirstLine(s))  m == s[FirstLine(s)].of IN
         /\ d \in Seq(Pieces)
         /\ Ascending(d \o t) /\ (Whole(s \o t) => Whole(d \o t))
         /\ Numbers(d \o t) \subseteq Numbers(s \o t)
         /\ m \in Numbers(s \o t)
         /\ \A k \in Numbers(d \o t) : m < k
<1>1. FirstLine(s) \in 1..Len(s) /\ s[FirstLine(s)].ends
  BY FirstLineIs
<1>2. /\ Drop(s, FirstLine(s)) \in Seq(Pieces)
      /\ Len(Drop(s, FirstLine(s))) = Len(s) - FirstLine(s)
      /\ \A i \in 1..(Len(s) - FirstLine(s)) : Drop(s, FirstLine(s))[i] = s[FirstLine(s) + i]
  BY <1>1, Splitting
<1>3. QED BY <1>1, <1>2, RestOfConcat

\* What follows the pieces an engine reads at once, when they hold a line.
LEMMA RestOfLine ==
  ASSUME NEW s \in Seq(Pieces), NEW t \in Seq(Pieces), Complete(s), Ascending(s \o t)
  PROVE  /\ Ascending(t) /\ Numbers(t) \subseteq Numbers(s \o t)
         /\ s[FirstLine(s)].of \in Numbers(s \o t)
         /\ \A k \in Numbers(t) : s[FirstLine(s)].of < k
<1>1. Ascending(t)
  <2>1. /\ s \o t \in Seq(Pieces) /\ Len(s \o t) = Len(s) + Len(t)
        /\ Len(s) \in Nat /\ Len(t) \in Nat
        /\ \A i \in 1..(Len(s) + Len(t)) : (s \o t)[i] = IF i <= Len(s) THEN s[i] ELSE t[i - Len(s)]
    BY Concat
  <2>2. FirstLine(s) \in 1..Len(s)
    BY FirstLineIs
  <2>3. Len(s) \in 1..Len(s \o t) /\ Len(t) = Len(s \o t) - Len(s)
    BY <2>1, <2>2
  <2>4. \A i \in 1..Len(t) : t[i] = (s \o t)[Len(s) + i]
    BY <2>1
  <2>5. QED BY <2>1, <2>3, <2>4, Suffix
<1>2. /\ s[FirstLine(s)].of \in Numbers(s \o t)
      /\ \A k \in Numbers(Drop(s, FirstLine(s)) \o t) : s[FirstLine(s)].of < k
      /\ Drop(s, FirstLine(s)) \in Seq(Pieces)
  BY FirstLineTaken
<1>3. /\ Numbers(t) \subseteq Numbers(Drop(s, FirstLine(s)) \o t)
      /\ Numbers(t) \subseteq Numbers(s \o t)
  BY <1>2, NumbersOfConcat
<1>4. QED BY <1>1, <1>2, <1>3

\* Sending a message with a greater number keeps a stream ascending.
LEMMA Sending ==
  ASSUME NEW s \in Seq(Pieces), NEW m \in Messages,
         Ascending(s), \A k \in Numbers(s) : k < m
  PROVE  /\ s \o Message(m) \in Seq(Pieces)
         /\ Ascending(s \o Message(m)) /\ Whole(s \o Message(m))
         /\ Numbers(s \o Message(m)) = Numbers(s) \cup {m}
<1>1. /\ Message(m) \in Seq(Pieces) /\ Len(Message(m)) = 2
      /\ Message(m)[1].of = m /\ Message(m)[2].of = m
      /\ ~Message(m)[1].ends /\ Message(m)[2].ends /\ Numbers(Message(m)) = {m}
  BY MessageFacts
<1>2. ASSUME NEW t \in Seq(Pieces), Len(t) = 2, t[1].of = m, t[2].of = m,
             ~t[1].ends, t[2].ends
      PROVE  Ascending(s \o t) /\ Whole(s \o t)
  <2>1. /\ s \o t \in Seq(Pieces) /\ Len(s \o t) = Len(s) + 2 /\ Len(s) \in Nat
        /\ \A i \in 1..(Len(s) + 2) : (s \o t)[i] = IF i <= Len(s) THEN s[i] ELSE t[i - Len(s)]
    <3>1. /\ s \o t \in Seq(Pieces) /\ Len(s \o t) = Len(s) + Len(t) /\ Len(s) \in Nat
          /\ \A i \in 1..(Len(s) + Len(t)) : (s \o t)[i] = IF i <= Len(s) THEN s[i] ELSE t[i - Len(s)]
      BY <1>2, Concat, Zenon
    <3>2. QED BY <1>2, <3>1
  <2>2. DOMAIN (s \o t) = 1..(Len(s) + 2) /\ DOMAIN s = 1..Len(s) /\ m \in Nat
    BY <2>1, LenProperties, PieceTypes
  <2>3. Whole(s \o t)
    BY <1>2, <2>1 DEF Whole
  <2>4. \A i \in 1..Len(s) : (s \o t)[i] = s[i] /\ s[i].of \in Numbers(s) /\ s[i].of \in Nat
    <3>1. \A i \in 1..Len(s) : s[i] \in Pieces
      BY ElementOfSeq
    <3>2. \A i \in 1..Len(s) : s[i].of \in Numbers(s)
      BY <2>2 DEF Numbers
    <3>3. QED BY <2>1, <3>1, <3>2, PieceTypes
  <2>5. (s \o t)[Len(s) + 1] = t[1] /\ (s \o t)[Len(s) + 2] = t[2]
    BY <2>1
  <2>6. Ascending(s \o t)
    <3> SUFFICES ASSUME NEW i \in 1..(Len(s) + 2), NEW j \in 1..(Len(s) + 2), i < j
                 PROVE  /\ (s \o t)[i].of <= (s \o t)[j].of
                        /\ (s \o t)[i].ends => (s \o t)[i].of < (s \o t)[j].of
      BY <2>2 DEF Ascending
    <3>1. CASE j <= Len(s)
      <4>1. i \in DOMAIN s /\ j \in DOMAIN s
        BY <2>1, <2>2, <3>1
      <4>2. QED BY <2>2, <2>4, <4>1 DEF Ascending
    <3>2. CASE j > Len(s)
      <4>1. (j = Len(s) + 1 \/ j = Len(s) + 2) /\ (s \o t)[j].of = m
        BY <1>2, <2>1, <2>5, <3>2
      <4>2. CASE i <= Len(s)
        BY <2>1, <2>2, <2>4, <4>1, <4>2
      <4>3. CASE i > Len(s)
        <5>1. i = Len(s) + 1 /\ (s \o t)[i].of = m /\ ~(s \o t)[i].ends
          BY <1>2, <2>1, <2>5, <4>1, <4>3
        <5>2. QED BY <2>2, <4>1, <5>1
      <4>4. QED BY <2>1, <4>2, <4>3
    <3>3. QED BY <2>1, <3>1, <3>2
  <2>7. QED BY <2>3, <2>6
<1>3. Numbers(s \o Message(m)) = Numbers(s) \cup {m} /\ s \o Message(m) \in Seq(Pieces)
  BY <1>1, NumbersOfConcat
<1>4. QED BY <1>1, <1>2, <1>3
-----------------------------------------------------------------------------
(***************************************************************************)
(* The invariant.                                                          *)
(***************************************************************************)
Live(p) == eng[p] \in {"reading", "computing"}

\* What the driver has still to read from its connection.
Inbound == buf \o toDriver[conn]
\* What engine p has still to read.
Outbound(p) == line[p] \o toEngine[p]
\* What it computes.
Working(p) == IF eng[p] = "computing" THEN {work[p]} ELSE {}

\* Where the driver may be, and what it has then.
Phase ==
  /\ notebook \in BOOLEAN /\ interrupted \in BOOLEAN
  /\ call \in {"launch", "accept", "handshake"} => ~started
  /\ call \in {"send", "await"} => started
  /\ call \in {"handshake", "await"} => conn # 0
  /\ call \in {"reap", "abandon"} => conn = 0 /\ ~server
  /\ call \in {"launch", "accept", "handshake", "send", "await", "abandon"} => got < asked
  /\ got <= asked

\* How a process and its connection go together.  A connection that was never
\* accepted carries the handshake and nothing else.
Linked(p) ==
  /\ eng[p] \in {"unborn", "booting"} <=> link[p] = "none"
  /\ link[p] = "queued" => eng[p] = "reading" /\ toDriver[p] = Message(Ready)
  /\ link[p] \in {"none", "queued"} => line[p] = <<>> /\ toEngine[p] = <<>>
  /\ link[p] = "open" => p = conn /\ Live(p)
  /\ p = conn /\ link[p] = "cut" => ~Live(p)
  /\ eng[p] \in {"ending", "exited"} => link[p] = "cut"
  /\ eng[p] = "computing" => work[p] \in Requests
Links ==
  /\ conn # 0 => link[conn] \in {"open", "cut"}
  /\ \A p \in Processes : Linked(p)

\* On the driver's connection everything is in the order of its number: what was
\* returned, what has arrived, what is computed, what is still to be read.
Order ==
  conn # 0 =>
    /\ Ascending(Inbound) /\ Whole(Inbound) /\ Ascending(Outbound(conn))
    /\ \A m \in Numbers(Inbound) : \A w \in Working(conn) : m < w
    /\ \A m \in Numbers(Inbound) : \A n \in Numbers(Outbound(conn)) : m < n
    /\ \A w \in Working(conn) : \A n \in Numbers(Outbound(conn)) : w < n
    /\ ~started =>
         Numbers(Inbound) \subseteq {Ready} /\ Working(conn) = {} /\ Numbers(Outbound(conn)) = {}
    /\ started =>
         \A m \in Numbers(Inbound) \cup Working(conn) \cup Numbers(Outbound(conn)) :
           got < m /\ m <= asked /\ (call = "send" => m < asked)
    /\ call = "handshake" => Numbers(Inbound) # {}

\* Unless a call was interrupted, the connection carries nothing but the request
\* of the present call, or its response.
Clean ==
  ~interrupted /\ conn # 0 =>
    /\ call = "await" =>
         /\ Numbers(Inbound) \subseteq {asked} /\ Working(conn) \subseteq {asked}
         /\ Live(conn) => Numbers(Outbound(conn)) \subseteq {asked}
    /\ call \notin {"await", "handshake"} =>
         /\ Numbers(Inbound) = {} /\ Working(conn) = {}
         /\ Live(conn) => Numbers(Outbound(conn)) = {}

\* A script's only process is the one its backend holds, and once its connection
\* is closed that process has no more to read than the exit command.
OneEngine ==
  ~notebook =>
    /\ ~interrupted /\ outcome # "interrupted"
    /\ NoOrphans
    /\ conn # 0 => conn = proc
    /\ call \in {"none", "launch"} /\ ~started => proc = 0
    /\ call = "none" /\ outcome = "closed" => ~server /\ conn = 0 /\ proc = 0
    /\ \A p \in Processes : p # conn =>
         eng[p] # "computing" /\ (eng[p] = "reading" => Numbers(Outbound(p)) \subseteq {Exit})

\* How far the engine of a script is with the request of the present call.
Progress ==
  ~notebook =>
    /\ executed <= asked
    /\ call \in {"launch", "accept", "handshake", "send"} => executed < asked
    /\ \A p \in Processes : eng[p] = "computing" => work[p] = executed
    /\ call = "await" /\ Numbers(Inbound) # {} => executed = asked
    /\ call = "await" /\ Live(conn) /\ Numbers(Outbound(conn)) # {} => executed < asked

IInv ==
  /\ TypeOK /\ Phase /\ Links /\ Order /\ Clean /\ AnswerIsToThisCallOnceClosed
  /\ OneEngine /\ Progress

\* What MCNext does to the history variables.
History ==
  /\ notebook' = notebook
  /\ interrupted' = IF Closed THEN FALSE
                    ELSE interrupted \/ (call' = "none" /\ outcome' = "interrupted")
-----------------------------------------------------------------------------
(***************************************************************************)
(* Steps of the driver.                                                    *)
(***************************************************************************)
LEMMA StreamTypes ==
  ASSUME TypeOK
  PROVE  /\ buf \in Seq(Pieces) /\ 0 \notin Processes
         /\ conn # 0 => conn \in Processes
         /\ proc # 0 => proc \in Processes
         /\ \A p \in Processes : line[p] \in Seq(Pieces) /\ toEngine[p] \in Seq(Pieces)
                                   /\ toDriver[p] \in Seq(Pieces)
         /\ conn # 0 => Inbound \in Seq(Pieces)
         /\ \A p \in Processes : Outbound(p) \in Seq(Pieces)
         /\ asked \in Nat /\ got \in Nat /\ executed \in Nat
         /\ \A p \in Processes : Working(p) \subseteq Nat
<1>1. conn # 0 => conn \in Processes
  BY ConstantsOK DEF TypeOK, Processes
<1>1a. proc # 0 => proc \in Processes
  BY ConstantsOK DEF TypeOK, Processes
<1>2. /\ buf \in Seq(Pieces)
      /\ \A p \in Processes : line[p] \in Seq(Pieces) /\ toEngine[p] \in Seq(Pieces)
                                /\ toDriver[p] \in Seq(Pieces)
  BY DEF TypeOK
<1>3. asked \in Nat /\ got \in Nat /\ executed \in Nat
  BY ConstantsOK, PieceTypes DEF TypeOK
<1>4. \A p \in Processes : Working(p) \subseteq Nat
  BY ConstantsOK DEF TypeOK, Working
<1>5. conn # 0 => Inbound \in Seq(Pieces)
  BY <1>1, <1>2, Concat DEF Inbound
<1>6. \A p \in Processes : Outbound(p) \in Seq(Pieces)
  BY <1>2, Concat DEF Outbound
<1>7. 0 \notin Processes
  BY DEF Processes
<1>8. QED BY <1>1, <1>1a, <1>2, <1>3, <1>4, <1>5, <1>6, <1>7

LEMMA StreamNumbers ==
  ASSUME TypeOK
  PROVE  /\ conn # 0 => Numbers(Inbound) \subseteq Nat /\ Numbers(Inbound) \subseteq Messages
         /\ \A p \in Processes : Numbers(Outbound(p)) \subseteq Nat /\ Numbers(Outbound(p)) \subseteq Messages
BY StreamTypes, EmptyStream, PieceTypes

\* Nothing is read or written and no engine moves.
LEMMA StreamsStay ==
  ASSUME UNCHANGED <<buf, conn, toDriver, line, toEngine>>
  PROVE  Inbound' = Inbound /\ \A p \in Processes : Outbound(p)' = Outbound(p)
BY DEF Inbound, Outbound

LEMMA WorkStays ==
  ASSUME UNCHANGED <<eng, work>>
  PROVE  \A p \in Processes : Working(p)' = Working(p)
BY DEF Working

LEMMA ComputeIInv ==
  ASSUME IInv, History, Compute
  PROVE  IInv'
<1> USE DEF IInv, History, Compute, engineVars, wireVars
<1>1. TypeOK'
  BY ConstantsOK DEF TypeOK
<1>2. /\ Inbound' = Inbound /\ \A p \in Processes : Outbound(p)' = Outbound(p) /\ Working(p)' = Working(p)
  BY StreamsStay, WorkStays
<1>3. Phase'
  BY StreamTypes DEF Phase, Closed
<1>4. Links'
  BY DEF Links, Linked, Live
<1>5. Order'
  BY <1>2, StreamTypes, StreamNumbers DEF Order
<1>6. Clean' /\ AnswerIsToThisCallOnceClosed'
  BY <1>2, StreamTypes DEF Clean, Live, Closed, AnswerIsToThisCallOnceClosed, AnswerIsToThisCall
<1>7. OneEngine'
  BY <1>2 DEF OneEngine, NoOrphans, Alive, Closed
<1>8. Progress'
  BY <1>2, StreamTypes DEF Progress, Live
<1>9. QED BY <1>1, <1>3, <1>4, <1>5, <1>6, <1>7, <1>8

LEMMA LaunchIInv ==
  ASSUME IInv, History, Launch
  PROVE  IInv'
<1> USE DEF IInv, History, Launch, engineVars, wireVars
<1>1. TypeOK'
  BY ConstantsOK DEF TypeOK, Cut, Processes
<1>2. PICK p \in Processes : eng[p] = "unborn" /\ proc' = p /\ eng' = [eng EXCEPT ![p] = "booting"]
  OBVIOUS
<1>3. /\ Inbound' = Inbound
      /\ \A q \in Processes : Outbound(q)' = Outbound(q) /\ Working(q)' = Working(q)
  BY <1>2, StreamsStay DEF Working, TypeOK
<1>4. /\ eng'[p] = "booting" /\ \A q \in Processes : q # p => eng'[q] = eng[q]
      /\ \A q \in Processes : link'[q] = IF link[q] = "queued" THEN "cut" ELSE link[q]
  BY <1>2 DEF TypeOK, Cut, Queued
<1>5. Phase'
  BY StreamTypes DEF Phase, Closed
<1>6. Links'
  <2>1. UNCHANGED <<conn, line, toEngine, toDriver, work>> /\ (conn # 0 => conn \in Processes)
    BY StreamTypes
  <2>2. conn # 0 => link'[conn] \in {"open", "cut"}
    BY <1>4, <2>1 DEF Links
  <2>3. ASSUME NEW q \in Processes, q # p
        PROVE  eng'[q] = eng[q] /\ link'[q] = IF link[q] = "queued" THEN "cut" ELSE link[q]
    BY <1>4, <2>3
  <2>4. link[p] = "none" /\ link'[p] = "none" /\ eng'[p] = "booting"
    BY <1>2, <1>4 DEF Links, Linked
  <2>5. Linked(p)'
    BY <2>1, <2>4 DEF Links, Linked, Live
  <2>6. ASSUME NEW q \in Processes, q # p PROVE Linked(q)'
    BY <2>1, <2>3, <2>6, StreamTypes DEF Links, Linked, Live
  <2>7. QED BY <2>2, <2>5, <2>6 DEF Links
<1>7. Order'
  BY <1>3, StreamTypes, StreamNumbers DEF Order
<1>8. Clean' /\ AnswerIsToThisCallOnceClosed'
  BY <1>2, <1>3, <1>4, StreamTypes DEF Clean, Live, Closed, AnswerIsToThisCallOnceClosed, AnswerIsToThisCall
<1>9. OneEngine'
  <2>1. conn # 0 => conn # p
    BY <1>2, StreamTypes DEF Links, Linked
  <2>2. ~notebook => proc = 0 /\ \A q \in Processes : ~Alive(q)
    BY DEF OneEngine, NoOrphans, Processes, Phase
  <2>3. QED BY <1>2, <1>3, <1>4, <2>1, <2>2, StreamTypes DEF OneEngine, NoOrphans, Alive, Closed
<1>10. Progress'
  BY <1>2, <1>3, <1>4, StreamTypes DEF Progress, Live
<1>11. QED BY <1>1, <1>5, <1>6, <1>7, <1>8, <1>9, <1>10

\* A connection that is cut while it is still in the backlog.
LEMMA BacklogCut ==
  ASSUME TypeOK, Links, link' \in {link, Cut(link, Queued)},
         UNCHANGED <<conn, eng, work, line, toEngine, toDriver>>
  PROVE  Links'
<1>1. \A q \in Processes : link'[q] = link[q] \/ (link[q] = "queued" /\ link'[q] = "cut")
  BY DEF TypeOK, Cut, Queued
<1>2. conn # 0 => link'[conn] \in {"open", "cut"}
  BY <1>1, StreamTypes DEF Links
<1>3. ASSUME NEW q \in Processes PROVE Linked(q)'
  BY <1>1, StreamTypes DEF Links, Linked, Live
<1>4. QED BY <1>2, <1>3 DEF Links

\* A call that is left by an exception: nothing is undone.
LEMMA RaisesIInv ==
  ASSUME IInv, History, call # "none", call' = "none", outcome' \in {"error", "interrupted"},
         UNCHANGED <<asked, got, started, conn, chan, buf, proc, engineVars, toEngine, toDriver>>,
         server' \in BOOLEAN, link' \in {link, Cut(link, Queued)},
         ~notebook => outcome' = "error" /\ (started \/ proc = 0),
         outcome' = "error" /\ ~interrupted /\ conn # 0 =>
           /\ Numbers(Inbound) = {} /\ Working(conn) = {}
           /\ Live(conn) => Numbers(Outbound(conn)) = {}
  PROVE  IInv'
<1> USE DEF IInv, History, engineVars
<1>1. TypeOK'
  BY ConstantsOK DEF TypeOK, Cut, Processes
<1>2. /\ Inbound' = Inbound /\ \A p \in Processes : Outbound(p)' = Outbound(p) /\ Working(p)' = Working(p)
  BY StreamsStay, WorkStays
<1>3. Phase'
  BY StreamTypes DEF Phase, Closed
<1>4. Links'
  BY BacklogCut
<1>5. Order'
  BY <1>2, StreamTypes, StreamNumbers DEF Order
<1>6. Clean' /\ AnswerIsToThisCallOnceClosed'
  BY <1>2, StreamTypes DEF Clean, Live, Closed, AnswerIsToThisCallOnceClosed, AnswerIsToThisCall, Phase
<1>7. OneEngine'
  BY <1>2 DEF OneEngine, NoOrphans, Alive, Closed
<1>8. Progress'
  BY <1>2, StreamTypes DEF Progress, Live
<1>9. QED BY <1>1, <1>3, <1>4, <1>5, <1>6, <1>7, <1>8

LEMMA LaunchFailsIInv ==
  ASSUME IInv, History, LaunchFails
  PROVE  IInv'
<1>1. ~notebook => started \/ proc = 0
  BY DEF IInv, LaunchFails, OneEngine
<1>2. ~interrupted /\ conn # 0 =>
        /\ Numbers(Inbound) = {} /\ Working(conn) = {}
        /\ Live(conn) => Numbers(Outbound(conn)) = {}
  BY DEF IInv, LaunchFails, Clean
<1>3. QED BY <1>1, <1>2, RaisesIInv DEF LaunchFails, Returns

LEMMA IncompleteIsEmpty ==
  ASSUME NEW s \in Seq(Pieces), Whole(s), ~Complete(s)
  PROVE  s = <<>>
<1>1. s # <<>> => Len(s) \in DOMAIN s
  BY EmptySeq, LenProperties
<1>2. QED BY <1>1 DEF Whole, Complete

LEMMA ConnectionLostIInv ==
  ASSUME IInv, History, ConnectionLost
  PROVE  IInv'
<1>1. conn # 0 /\ conn \in Processes /\ toDriver[conn] = <<>> /\ ~Complete(buf) /\ link[conn] = "cut"
  BY StreamTypes DEF IInv, ConnectionLost, PeerClosed
<1>2. Inbound = buf /\ buf \in Seq(Pieces)
  BY <1>1, StreamTypes, ConcatEmptySeq DEF IInv, Inbound
<1>3. Numbers(Inbound) = {}
  BY <1>1, <1>2, IncompleteIsEmpty, EmptyStream DEF IInv, Order
<1>4. ~Live(conn) /\ Working(conn) = {}
  BY <1>1 DEF IInv, Links, Linked, Live, Working
<1>5. started
  BY <1>1, <1>3 DEF IInv, ConnectionLost, Order, Phase
<1>6. QED BY <1>3, <1>4, <1>5, RaisesIInv DEF ConnectionLost, Returns, wireVars, IInv, TypeOK

LEMMA SendEndsIInv ==
  ASSUME IInv, History, FindsExited \/ SendFails
  PROVE  IInv'
<1>1. call = "send" /\ started
  BY DEF IInv, FindsExited, SendFails, Phase
<1>2. ~interrupted /\ conn # 0 =>
        /\ Numbers(Inbound) = {} /\ Working(conn) = {}
        /\ Live(conn) => Numbers(Outbound(conn)) = {}
  BY <1>1 DEF IInv, Clean
<1>3. QED BY <1>1, <1>2, RaisesIInv DEF FindsExited, SendFails, Returns, wireVars, IInv, TypeOK

LEMMA InterruptIInv ==
  ASSUME IInv, History, Interrupt, notebook
  PROVE  IInv'
BY RaisesIInv DEF Interrupt, Returns, wireVars, IInv, TypeOK

LEMMA AcceptIInv ==
  ASSUME IInv, History, Accept
  PROVE  IInv'
<1> USE DEF IInv, History, Accept, engineVars
<1>1. PICK p \in Queued : /\ conn' = p /\ chan' = p /\ buf' = <<>>
                          /\ link' = [Cut(link, {conn}) EXCEPT ![p] = "open"]
  OBVIOUS
<1>2. p \in Processes /\ link[p] = "queued" /\ p # 0 /\ p # conn
  BY <1>1, StreamTypes DEF Queued, Links
<1>3. TypeOK'
  BY <1>1, <1>2, ConstantsOK, EmptyStream DEF TypeOK, Cut, Processes
<1>4. /\ \A q \in Processes : Outbound(q)' = Outbound(q) /\ Working(q)' = Working(q)
      /\ \A q \in Processes : link'[q] = IF q = p THEN "open" ELSE IF q = conn THEN "cut" ELSE link[q]
  BY <1>1, <1>2 DEF Outbound, Working, TypeOK, Cut
<1>5. eng[p] = "reading" /\ line[p] = <<>> /\ toEngine[p] = <<>> /\ toDriver[p] = Message(Ready)
  BY <1>2 DEF Links, Linked
<1>6. Ready \in Messages /\ Ready \in Nat
  BY ConstantsOK DEF Ready, Messages, Exit
<1>7. Inbound' = Message(Ready)
  BY <1>1, <1>2, <1>5, <1>6, MessageFacts, ConcatEmptySeq DEF Inbound
<1>8. Outbound(p)' = <<>> /\ Working(p)' = {}
  BY <1>2, <1>4, <1>5, ConcatEmptySeq, EmptyStream DEF Outbound, Working
<1>9. /\ Numbers(Inbound') = {Ready} /\ Numbers(Outbound(p)') = {}
      /\ Ascending(Inbound') /\ Whole(Inbound') /\ Ascending(Outbound(p)')
  BY <1>6, <1>7, <1>8, MessageFacts, EmptyStream
<1>10. Phase'
  BY <1>1, <1>2 DEF Phase, Closed
<1>11. Links'
  <2>1. /\ link'[p] = "open" /\ conn' = p /\ conn' # 0
        /\ \A q \in Processes : q # p => link'[q] = IF q = conn THEN "cut" ELSE link[q]
        /\ UNCHANGED <<eng, work, line, toEngine, toDriver>>
    BY <1>1, <1>2, <1>4
  <2>2. Linked(p)'
    BY <1>2, <1>5, <2>1 DEF Linked, Live
  <2>3. ASSUME NEW q \in Processes, q # p PROVE Linked(q)'
    <3>1. /\ Linked(q) /\ (q = conn => link[q] \in {"open", "cut"})
          /\ link'[q] = IF q = conn THEN "cut" ELSE link[q]
      BY <2>1, <2>3, StreamTypes DEF Links
    <3>2. QED BY <2>1, <2>3, <3>1 DEF Linked, Live
  <2>4. QED BY <1>2, <2>1, <2>2, <2>3 DEF Links
<1>12. Order'
  BY <1>1, <1>6, <1>8, <1>9 DEF Order, Phase
<1>13. Clean' /\ AnswerIsToThisCallOnceClosed'
  BY DEF Clean, AnswerIsToThisCallOnceClosed, AnswerIsToThisCall
<1>14. OneEngine'
  <2>1. ~notebook => conn = 0 /\ proc = p
    BY <1>2, <1>5, StreamTypes DEF OneEngine, NoOrphans, Alive
  <2>2. QED BY <1>1, <1>2, <1>4, <2>1, StreamTypes DEF OneEngine, NoOrphans, Alive, Closed
<1>15. Progress'
  BY <1>4, StreamTypes DEF Progress
<1>16. QED BY <1>3, <1>10, <1>11, <1>12, <1>13, <1>14, <1>15

LEMMA PiecesAssociative ==
  ASSUME NEW r \in Seq(Pieces), NEW s \in Seq(Pieces), NEW t \in Seq(Pieces)
  PROVE  (r \o s) \o t = r \o (s \o t)
OBVIOUS

LEMMA ReceiveIInv ==
  ASSUME IInv, History, ReceiveSome
  PROVE  IInv'
<1> USE DEF IInv, History, engineVars
<1>1. PICK n \in 1..Len(toDriver[conn]) : Receive(n)
  BY DEF ReceiveSome
<1>2. /\ conn # 0 /\ conn \in Processes /\ call \in {"handshake", "await"}
      /\ buf \in Seq(Pieces) /\ toDriver[conn] \in Seq(Pieces)
      /\ buf' = buf \o Take(toDriver[conn], n)
      /\ toDriver' = [toDriver EXCEPT ![conn] = Drop(toDriver[conn], n)]
      /\ UNCHANGED <<call, outcome, asked, got, started, server, conn, chan, proc>>
      /\ UNCHANGED <<engineVars, link, toEngine>>
  BY <1>1, StreamTypes DEF Receive
<1>3. /\ Take(toDriver[conn], n) \in Seq(Pieces) /\ Drop(toDriver[conn], n) \in Seq(Pieces)
      /\ Take(toDriver[conn], n) \o Drop(toDriver[conn], n) = toDriver[conn]
  BY <1>2, Splitting
<1>4. toDriver'[conn] = Drop(toDriver[conn], n)
  BY <1>2 DEF TypeOK
<1>5. Inbound' = Inbound
  <2>1. Inbound' = (buf \o Take(toDriver[conn], n)) \o Drop(toDriver[conn], n)
    BY <1>2, <1>4 DEF Inbound
  <2>2. (buf \o Take(toDriver[conn], n)) \o Drop(toDriver[conn], n)
          = buf \o (Take(toDriver[conn], n) \o Drop(toDriver[conn], n))
    BY <1>2, <1>3, PiecesAssociative
  <2>3. QED BY <1>3, <2>1, <2>2 DEF Inbound
<1>6. \A p \in Processes : Outbound(p)' = Outbound(p) /\ Working(p)' = Working(p)
  BY <1>2 DEF Outbound, Working
<1>7. TypeOK'
  <2>1. buf' \in Seq(Pieces)
    BY <1>2, <1>3, Concat
  <2>2. toDriver' \in [Processes -> Seq(Pieces)]
    BY <1>2, <1>3 DEF TypeOK
  <2>3. QED BY <1>2, <2>1, <2>2 DEF TypeOK
<1>8. Phase'
  BY <1>2 DEF Phase, Closed
<1>9. Links'
  <2>1. ASSUME NEW q \in Processes PROVE Linked(q)'
    <3>1. /\ Linked(q) /\ (q = conn => link[q] \in {"open", "cut"})
          /\ (q # conn => toDriver'[q] = toDriver[q])
      BY <1>2, <2>1 DEF Links, TypeOK
    <3>2. QED BY <1>2, <3>1 DEF Linked, Live
  <2>2. QED BY <1>2, <2>1 DEF Links
<1>10. interrupted' <=> interrupted
  BY <1>2 DEF Closed, Phase
<1>11. Order'
  BY <1>2, <1>5, <1>6 DEF Order
<1>12. Clean' /\ AnswerIsToThisCallOnceClosed'
  <2>1. Clean'
    <3>1. Working(conn)' = Working(conn) /\ Outbound(conn)' = Outbound(conn) /\ (Live(conn)' <=> Live(conn))
      BY <1>2, <1>6 DEF Live
    <3>2. conn' = conn /\ asked' = asked /\ call' = call /\ Clean
      BY <1>2
    <3>3. QED BY <1>5, <1>10, <3>1, <3>2 DEF Clean
  <2>2. AnswerIsToThisCallOnceClosed'
    BY <1>2 DEF AnswerIsToThisCallOnceClosed, AnswerIsToThisCall
  <2>3. QED BY <2>1, <2>2
<1>13. OneEngine'
  BY <1>2, <1>6, <1>10 DEF OneEngine, NoOrphans, Alive
<1>14. Progress'
  BY <1>2, <1>5, <1>6 DEF Progress, Live
<1>15. QED BY <1>7, <1>8, <1>9, <1>11, <1>12, <1>13, <1>14

LEMMA HandshakeIInv ==
  ASSUME IInv, History, Handshake
  PROVE  IInv'
<1> USE DEF IInv, History, Handshake, engineVars, wireVars
<1>1. /\ conn # 0 /\ conn \in Processes /\ ~started /\ Complete(buf)
      /\ buf \in Seq(Pieces) /\ toDriver[conn] \in Seq(Pieces) /\ Ascending(buf \o toDriver[conn])
      /\ Numbers(buf \o toDriver[conn]) \subseteq {Ready}
  BY StreamTypes DEF Phase, Order, Inbound
<1>2. /\ Drop(buf, FirstLine(buf)) \in Seq(Pieces)
      /\ Ascending(Drop(buf, FirstLine(buf)) \o toDriver[conn])
      /\ Whole(buf \o toDriver[conn]) => Whole(Drop(buf, FirstLine(buf)) \o toDriver[conn])
      /\ Numbers(Drop(buf, FirstLine(buf)) \o toDriver[conn]) \subseteq Numbers(buf \o toDriver[conn])
      /\ buf[FirstLine(buf)].of \in Numbers(buf \o toDriver[conn])
      /\ \A k \in Numbers(Drop(buf, FirstLine(buf)) \o toDriver[conn]) : buf[FirstLine(buf)].of < k
  BY <1>1, FirstLineTaken, Zenon
<1>3. Inbound' = Drop(buf, FirstLine(buf)) \o toDriver[conn]
  BY DEF Inbound
<1>4. Numbers(Inbound') = {} /\ Ascending(Inbound') /\ Whole(Inbound')
  BY <1>1, <1>2, <1>3 DEF Order, Inbound, Ready
<1>5. \A p \in Processes : Outbound(p)' = Outbound(p) /\ Working(p)' = Working(p)
  BY DEF Outbound, Working
<1>6. Working(conn) = {} /\ Numbers(Outbound(conn)) = {} /\ Ascending(Outbound(conn))
  BY <1>1 DEF Order
<1>7. TypeOK'
  BY <1>2 DEF TypeOK
<1>8. Phase'
  BY <1>1 DEF Phase, Closed
<1>9. Links'
  BY DEF Links, Linked, Live
<1>10. interrupted' <=> interrupted
  BY DEF Closed, Phase
<1>11. Order'
  BY <1>1, <1>4, <1>5, <1>6 DEF Order
<1>12. Clean' /\ AnswerIsToThisCallOnceClosed'
  BY <1>1, <1>4, <1>5, <1>6 DEF Clean, AnswerIsToThisCallOnceClosed, AnswerIsToThisCall
<1>13. OneEngine'
  BY <1>5, <1>10 DEF OneEngine, NoOrphans, Alive
<1>14. Progress'
  BY <1>5 DEF Progress, Live
<1>15. QED BY <1>7, <1>8, <1>9, <1>11, <1>12, <1>13, <1>14

\* What a message does to what the engine on the connection has to read.
LEMMA SendsTo ==
  ASSUME TypeOK, Links, NEW c \in Processes, c = conn, NEW m \in Messages, Sends(m), line' = line,
         link[c] = "open" => Ascending(Outbound(c)) /\ \A k \in Numbers(Outbound(c)) : k < m
  PROVE  /\ toEngine' \in [Processes -> Seq(Pieces)]
         /\ \A q \in Processes : q # c => toEngine'[q] = toEngine[q] /\ Outbound(q)' = Outbound(q)
         /\ link[c] = "open" =>
              /\ Ascending(Outbound(c)')
              /\ Numbers(Outbound(c)') = Numbers(Outbound(c)) \cup {m}
         /\ link[c] # "open" => toEngine'[c] = toEngine[c] /\ Outbound(c)' = Outbound(c)
<1>1. /\ c \in Processes /\ line[c] \in Seq(Pieces) /\ toEngine[c] \in Seq(Pieces)
      /\ Message(m) \in Seq(Pieces) /\ toEngine \in [Processes -> Seq(Pieces)]
  BY StreamTypes, MessageFacts DEF TypeOK
<1>2. CASE link[c] = "open"
  <2>1. toEngine' = [toEngine EXCEPT ![c] = toEngine[c] \o Message(m)]
    BY <1>2 DEF Sends
  <2>2. toEngine[c] \o Message(m) \in Seq(Pieces)
    BY <1>1, Concat
  <2>3. /\ toEngine' \in [Processes -> Seq(Pieces)] /\ toEngine'[c] = toEngine[c] \o Message(m)
        /\ \A q \in Processes : q # c => toEngine'[q] = toEngine[q]
    BY <1>1, <2>1, <2>2
  <2>4. (line[c] \o toEngine[c]) \o Message(m) = line[c] \o (toEngine[c] \o Message(m))
    BY <1>1, PiecesAssociative
  <2>5. Outbound(c)' = line[c] \o (toEngine[c] \o Message(m))
    <3>1. Outbound(c)' = line'[c] \o toEngine'[c]
      BY DEF Outbound
    <3>2. line'[c] = line[c] /\ toEngine'[c] = toEngine[c] \o Message(m)
      BY <2>3
    <3>3. QED BY <3>1, <3>2
  <2>6. /\ Ascending(Outbound(c) \o Message(m))
        /\ Numbers(Outbound(c) \o Message(m)) = Numbers(Outbound(c)) \cup {m}
    <3>1. Outbound(c) \in Seq(Pieces)
      BY StreamTypes
    <3>2. QED BY <1>2, <3>1, Sending
  <2>7. Outbound(c)' = Outbound(c) \o Message(m)
    BY <2>4, <2>5 DEF Outbound
  <2>8. \A q \in Processes : q # c => Outbound(q)' = Outbound(q)
    BY <2>3 DEF Outbound
  <2>9. QED BY <1>2, <2>3, <2>6, <2>7, <2>8
<1>3. CASE link[c] # "open"
  BY <1>1, <1>3 DEF Sends, Outbound
<1>4. QED BY <1>2, <1>3

LEMMA SendRequestIInv ==
  ASSUME IInv, History, SendRequest
  PROVE  IInv'
<1> USE DEF IInv, History, engineVars
<1>1. /\ conn # 0 /\ conn \in Processes /\ asked \in Messages /\ call = "send" /\ call' = "await"
      /\ started /\ Sends(asked)
      /\ UNCHANGED <<outcome, asked, got, started, server, conn, chan, buf, proc>>
      /\ UNCHANGED <<engineVars, link, toDriver>>
  BY StreamTypes, ConstantsOK DEF SendRequest, TypeOK, Messages, Exit, Phase
<1>2. Ascending(Outbound(conn)) /\ \A k \in Numbers(Outbound(conn)) : k < asked
  BY <1>1 DEF Order
<1>3. /\ toEngine' \in [Processes -> Seq(Pieces)]
      /\ \A q \in Processes : q # conn => toEngine'[q] = toEngine[q] /\ Outbound(q)' = Outbound(q)
      /\ link[conn] = "open" =>
           /\ Ascending(Outbound(conn)')
           /\ Numbers(Outbound(conn)') = Numbers(Outbound(conn)) \cup {asked}
      /\ link[conn] # "open" => toEngine'[conn] = toEngine[conn] /\ Outbound(conn)' = Outbound(conn)
  BY <1>1, <1>2, SendsTo
<1>4. Inbound' = Inbound /\ \A q \in Processes : Working(q)' = Working(q)
  BY <1>1 DEF Inbound, Working
<1>5. TypeOK'
  BY <1>1, <1>3 DEF TypeOK
<1>6. Phase'
  BY <1>1 DEF Phase, Closed
<1>7. Links'
  <2>1. ASSUME NEW q \in Processes PROVE Linked(q)'
    <3>1. /\ Linked(q) /\ (q = conn => link[q] \in {"open", "cut"})
          /\ (q # conn => toEngine'[q] = toEngine[q])
      BY <1>1, <1>3, <2>1 DEF Links
    <3>2. QED BY <1>1, <3>1 DEF Linked, Live
  <2>2. QED BY <1>1, <2>1 DEF Links
<1>8. interrupted' <=> interrupted
  BY <1>1 DEF Closed, Phase
<1>9. Order'
  <2>1. \A k \in Numbers(Inbound) \cup Working(conn) \cup Numbers(Outbound(conn)) :
          k \in Nat /\ got < k /\ k < asked
    BY <1>1, StreamTypes, StreamNumbers DEF Order
  <2>2. got < asked /\ asked \in Nat /\ got \in Nat
    BY <1>1, StreamTypes DEF Phase
  <2>3. /\ Ascending(Inbound) /\ Whole(Inbound) /\ Ascending(Outbound(conn)')
        /\ \A m \in Numbers(Inbound) : \A w \in Working(conn) : m < w
    BY <1>1, <1>2, <1>3 DEF Order
  <2>4. \A n \in Numbers(Outbound(conn)') : n \in Numbers(Outbound(conn)) \/ n = asked
    BY <1>3
  <2>5. /\ \A m \in Numbers(Inbound) : \A n \in Numbers(Outbound(conn)') : m < n
        /\ \A w \in Working(conn) : \A n \in Numbers(Outbound(conn)') : w < n
    BY <1>1, <2>1, <2>4 DEF Order
  <2>6. \A m \in Numbers(Inbound) \cup Working(conn) \cup Numbers(Outbound(conn)') :
           got < m /\ m <= asked
    BY <2>1, <2>2, <2>4
  <2>7. QED BY <1>1, <1>4, <2>3, <2>5, <2>6 DEF Order
<1>10. Clean' /\ AnswerIsToThisCallOnceClosed'
  <2>1. link[conn] # "open" => ~Live(conn)
    BY <1>1 DEF Links, Linked
  <2>2. ~interrupted => /\ Numbers(Inbound) = {} /\ Working(conn) = {}
                        /\ Live(conn) => Numbers(Outbound(conn)) = {}
    BY <1>1 DEF Clean
  <2>3. Live(conn)' <=> Live(conn)
    BY <1>1 DEF Live
  <2>4. Clean'
    BY <1>1, <1>3, <1>4, <1>8, <2>1, <2>2, <2>3 DEF Clean
  <2>5. AnswerIsToThisCallOnceClosed'
    BY <1>1 DEF AnswerIsToThisCallOnceClosed, AnswerIsToThisCall
  <2>6. QED BY <2>4, <2>5
<1>11. OneEngine'
  BY <1>1, <1>3, <1>8 DEF OneEngine, NoOrphans, Alive
<1>12. Progress'
  <2>1. ~notebook => Numbers(Inbound) = {}
    BY <1>1 DEF Clean, OneEngine
  <2>2. QED BY <1>1, <1>4, <2>1 DEF Progress
<1>13. QED BY <1>5, <1>6, <1>7, <1>9, <1>10, <1>11, <1>12

\* What is returned is the first line on the connection; the rest is later.
LEMMA AnsweredIs ==
  ASSUME IInv, Answered
  PROVE  /\ conn # 0 /\ conn \in Processes /\ started
         /\ Drop(buf, FirstLine(buf)) \in Seq(Pieces)
         /\ Ascending(Inbound') /\ Whole(Inbound')
         /\ Numbers(Inbound') \subseteq Numbers(Inbound)
         /\ got' \in Numbers(Inbound)
         /\ got < got' /\ got' <= asked /\ got' \in Nat
         /\ \A k \in Numbers(Inbound') : got' < k
<1> USE DEF IInv
<1>1. /\ conn # 0 /\ conn \in Processes /\ started /\ Complete(buf)
      /\ buf \in Seq(Pieces) /\ toDriver[conn] \in Seq(Pieces) /\ Ascending(buf \o toDriver[conn])
  BY StreamTypes DEF Answered, Phase, Order, Inbound
<1>2. /\ Drop(buf, FirstLine(buf)) \in Seq(Pieces)
      /\ Ascending(Drop(buf, FirstLine(buf)) \o toDriver[conn])
      /\ Whole(buf \o toDriver[conn]) => Whole(Drop(buf, FirstLine(buf)) \o toDriver[conn])
      /\ Numbers(Drop(buf, FirstLine(buf)) \o toDriver[conn]) \subseteq Numbers(buf \o toDriver[conn])
      /\ buf[FirstLine(buf)].of \in Numbers(buf \o toDriver[conn])
      /\ \A k \in Numbers(Drop(buf, FirstLine(buf)) \o toDriver[conn]) : buf[FirstLine(buf)].of < k
  BY <1>1, FirstLineTaken, Zenon
<1>3. Inbound' = Drop(buf, FirstLine(buf)) \o toDriver[conn] /\ got' = buf[FirstLine(buf)].of
  BY DEF Answered, Inbound, wireVars
<1>4. Whole(Inbound) /\ Inbound = buf \o toDriver[conn]
  BY <1>1 DEF Order, Inbound
<1>5. got < got' /\ got' <= asked /\ got' \in Nat
  BY <1>1, <1>2, <1>3, <1>4, StreamNumbers DEF Order
<1>6. QED BY <1>1, <1>2, <1>3, <1>4, <1>5

LEMMA AnsweredIInv ==
  ASSUME IInv, History, Answered
  PROVE  IInv'
<1> USE DEF IInv, History
<1>1. /\ conn # 0 /\ conn \in Processes /\ started
      /\ Drop(buf, FirstLine(buf)) \in Seq(Pieces)
      /\ Ascending(Inbound') /\ Whole(Inbound')
      /\ Numbers(Inbound') \subseteq Numbers(Inbound)
      /\ got' \in Numbers(Inbound)
      /\ got < got' /\ got' <= asked /\ got' \in Nat
      /\ \A k \in Numbers(Inbound') : got' < k
  BY AnsweredIs
<1>2. /\ call = "await" /\ call' = "none" /\ outcome' = "answer"
      /\ buf' = Drop(buf, FirstLine(buf))
      /\ UNCHANGED <<asked, started, server, conn, chan, proc, eng, work, line, executed>>
      /\ UNCHANGED <<link, toEngine, toDriver>>
  BY DEF Answered, Returns, engineVars, wireVars
<1>3. \A p \in Processes : Outbound(p)' = Outbound(p) /\ Working(p)' = Working(p)
  BY <1>2 DEF Outbound, Working
<1>4. TypeOK'
  <2>1. got' \in Messages
    BY <1>1, StreamNumbers
  <2>2. QED BY <1>1, <1>2, <2>1 DEF TypeOK
<1>5. Phase'
  BY <1>1, <1>2 DEF Phase, Closed
<1>6. Links'
  BY <1>2 DEF Links, Linked, Live
<1>7. interrupted' <=> interrupted
  BY <1>2 DEF Closed, Phase
<1>8. Order'
  <2>1. /\ \A w \in Working(conn) : got' < w /\ w <= asked
        /\ \A n \in Numbers(Outbound(conn)) : got' < n /\ n <= asked
        /\ \A m \in Numbers(Inbound') : got' < m /\ m <= asked
    BY <1>1 DEF Order
  <2>2. /\ Ascending(Outbound(conn))
        /\ \A m \in Numbers(Inbound') : \A w \in Working(conn) : m < w
        /\ \A m \in Numbers(Inbound') : \A n \in Numbers(Outbound(conn)) : m < n
        /\ \A w \in Working(conn) : \A n \in Numbers(Outbound(conn)) : w < n
    BY <1>1 DEF Order
  <2>3. QED BY <1>1, <1>2, <1>3, <2>1, <2>2 DEF Order
<1>9. Clean' /\ AnswerIsToThisCallOnceClosed'
  <2>1. ~interrupted => got' = asked
    BY <1>1, <1>2 DEF Clean
  <2>2. ~interrupted => /\ Numbers(Inbound') = {} /\ Working(conn) = {}
                        /\ Live(conn) => Numbers(Outbound(conn)) = {}
    <3>1. asked \in Nat /\ ~(asked < asked)
      BY StreamTypes
    <3>2. ~interrupted => Numbers(Inbound') = {}
      BY <1>1, <1>2, <2>1, <3>1 DEF Clean
    <3>3. ~interrupted => Working(conn) = {}
      BY <1>1, <1>2, <2>1, <3>1 DEF Clean, Order
    <3>4. ~interrupted /\ Live(conn) => Numbers(Outbound(conn)) = {}
      BY <1>1, <1>2, <2>1, <3>1 DEF Clean, Order
    <3>5. QED BY <3>2, <3>3, <3>4
  <2>3. Live(conn)' <=> Live(conn)
    BY <1>2 DEF Live
  <2>4. Clean'
    BY <1>1, <1>2, <1>3, <1>7, <2>2, <2>3 DEF Clean
  <2>5. AnswerIsToThisCallOnceClosed'
    BY <1>2, <1>7, <2>1 DEF AnswerIsToThisCallOnceClosed, AnswerIsToThisCall
  <2>6. QED BY <2>4, <2>5
<1>10. OneEngine'
  BY <1>1, <1>2, <1>3, <1>7 DEF OneEngine, NoOrphans, Alive
<1>11. Progress'
  BY <1>2 DEF Progress
<1>12. QED BY <1>4, <1>5, <1>6, <1>8, <1>9, <1>10, <1>11

LEMMA CloseSocketsIInv ==
  ASSUME IInv, History, Close \/ AcceptTimeout
  PROVE  IInv'
<1> USE DEF IInv, History, engineVars
<1>1. PICK then \in {"reap", "abandon"} :
        /\ CloseSockets(then)
        /\ then = "reap" => call = "none"
        /\ then = "abandon" => call = "accept"
  BY DEF Close, AcceptTimeout
<1>2. /\ call \in {"none", "accept"} /\ call' \in {"reap", "abandon"}
      /\ (call' = "abandon" => call = "accept")
      /\ conn' = 0 /\ server' = FALSE /\ link' = Cut(link, Queued \cup {conn})
      /\ UNCHANGED <<outcome, asked, got, started, chan, buf, proc>>
      /\ UNCHANGED <<eng, work, line, executed, toDriver>>
      /\ IF conn # 0 THEN Sends(Exit) ELSE UNCHANGED toEngine
  BY <1>1 DEF CloseSockets
<1>3. Exit \in Messages
  BY ConstantsOK DEF Messages, Exit
<1>4. ASSUME conn # 0
      PROVE  /\ conn \in Processes
             /\ link[conn] = "open" =>
                  Ascending(Outbound(conn)) /\ \A k \in Numbers(Outbound(conn)) : k < Exit
  <2>1. conn \in Processes /\ asked \in 0..MaxCalls /\ Ascending(Outbound(conn))
    BY <1>4, StreamTypes DEF Order, TypeOK
  <2>2. \A k \in Numbers(Outbound(conn)) : k \in Nat /\ k <= asked
    BY <1>4, <2>1, StreamNumbers DEF Order
  <2>3. QED BY <2>1, <2>2, ConstantsOK DEF Exit
<1>5. /\ toEngine' \in [Processes -> Seq(Pieces)]
      /\ \A q \in Processes : q # conn => toEngine'[q] = toEngine[q] /\ Outbound(q)' = Outbound(q)
      /\ conn # 0 /\ link[conn] = "open" /\ Numbers(Outbound(conn)) = {} =>
           \A q \in Processes : q = conn => Numbers(Outbound(q)') = {Exit}
  <2>1. CASE conn = 0
    BY <1>2, <2>1 DEF TypeOK, Outbound
  <2>2. CASE conn # 0
    <3>1. PICK c \in Processes : c = conn
      BY <1>4, <2>2
    <3>2. /\ toEngine' \in [Processes -> Seq(Pieces)]
          /\ \A q \in Processes : q # c => toEngine'[q] = toEngine[q] /\ Outbound(q)' = Outbound(q)
          /\ link[c] = "open" =>
               /\ Ascending(Outbound(c)')
               /\ Numbers(Outbound(c)') = Numbers(Outbound(c)) \cup {Exit}
      BY <1>2, <1>3, <1>4, <2>2, <3>1, SendsTo
    <3>3. QED BY <3>1, <3>2
  <2>3. QED BY <2>1, <2>2
<1>6. /\ link' \in [Processes -> {"none", "queued", "open", "cut"}]
      /\ \A q \in Processes : link'[q] = IF link[q] = "queued" \/ q = conn THEN "cut" ELSE link[q]
  BY <1>2 DEF TypeOK, Cut, Queued
<1>7. TypeOK'
  <2>1. UNCHANGED <<outcome, asked, got, started, chan, buf, proc, eng, work, line, executed, toDriver>>
    BY <1>2
  <2>2. /\ call' \in {"none", "launch", "accept", "handshake", "send", "await", "reap", "abandon"}
        /\ server' \in BOOLEAN /\ conn' \in 0..MaxLaunches
    <3>1. call' \in {"reap", "abandon"} /\ server' = FALSE /\ conn' = 0
      BY <1>2, Zenon
    <3>2. 0 \in 0..MaxLaunches
      BY ConstantsOK
    <3>3. QED BY <3>1, <3>2
  <2>3. /\ toEngine' \in [Processes -> Seq(Pieces)]
        /\ link' \in [Processes -> {"none", "queued", "open", "cut"}]
    BY <1>5, <1>6
  <2>4. QED BY <2>1, <2>2, <2>3 DEF TypeOK
<1>8. Phase'
  BY <1>2 DEF Phase, Closed
<1>9. Links'
  <2>1. ASSUME NEW q \in Processes PROVE Linked(q)'
    <3>1. /\ Linked(q) /\ (q = conn => link[q] \in {"open", "cut"})
          /\ link'[q] = IF link[q] = "queued" \/ q = conn THEN "cut" ELSE link[q]
          /\ (q # conn => toEngine'[q] = toEngine[q]) /\ q # 0
      BY <1>2, <1>5, <1>6, <2>1, StreamTypes DEF Links
    <3>2. QED BY <1>2, <3>1 DEF Linked, Live
  <2>2. QED BY <1>2, <2>1 DEF Links
<1>10. interrupted' <=> interrupted
  BY <1>2 DEF Closed, Phase
<1>11. Order' /\ Clean' /\ AnswerIsToThisCallOnceClosed'
  BY <1>2 DEF Order, Clean, AnswerIsToThisCallOnceClosed, AnswerIsToThisCall
<1>12. OneEngine'
  <2>1. SUFFICES ASSUME ~notebook
                 PROVE  \A q \in Processes :
                          eng[q] # "computing" /\ (eng[q] = "reading" => Numbers(Outbound(q)') \subseteq {Exit})
    BY <1>2, <1>10, StreamTypes DEF OneEngine, NoOrphans, Alive
  <2>2. ASSUME NEW q \in Processes, q # conn
        PROVE  eng[q] # "computing" /\ (eng[q] = "reading" => Numbers(Outbound(q)') \subseteq {Exit})
    BY <1>5, <2>1, <2>2 DEF OneEngine
  <2>3. ASSUME NEW q \in Processes, q = conn
        PROVE  eng[q] # "computing" /\ (eng[q] = "reading" => Numbers(Outbound(q)') \subseteq {Exit})
    <3>1. conn # 0 /\ Working(conn) = {} /\ (Live(conn) => Numbers(Outbound(conn)) = {})
      BY <1>2, <2>1, <2>3, StreamTypes DEF OneEngine, Clean
    <3>2. eng[q] # "computing"
      BY <2>3, <3>1 DEF Working
    <3>3. eng[q] = "reading" => link[conn] = "open" /\ Numbers(Outbound(conn)) = {}
      BY <2>3, <3>1 DEF Links, Linked, Live
    <3>4. QED BY <1>5, <2>3, <3>1, <3>2, <3>3
  <2>4. QED BY <2>2, <2>3
<1>13. Progress'
  BY <1>2 DEF Progress
<1>14. QED BY <1>7, <1>8, <1>9, <1>11, <1>12, <1>13

LEMMA ReapedIInv ==
  ASSUME IInv, History, Reaped
  PROVE  IInv'
<1> USE DEF IInv, History
<1>1. /\ call \in {"reap", "abandon"} /\ conn = 0 /\ ~server
      /\ proc # 0 => HasExited
      /\ proc' = 0 /\ chan' = 0 /\ started' = FALSE /\ buf' = <<>> /\ call' = "none"
      /\ outcome' = IF call = "reap" THEN "closed" ELSE "error"
      /\ UNCHANGED <<asked, got, server, conn, eng, work, line, executed>>
      /\ UNCHANGED <<link, toEngine, toDriver>>
  BY DEF Reaped, Returns, Phase, engineVars, wireVars
<1>2. TypeOK'
  BY <1>1, ConstantsOK, EmptySeq DEF TypeOK
<1>3. Phase'
  BY <1>1 DEF Phase, Closed
<1>4. Links'
  BY <1>1 DEF Links, Linked, Live
<1>5. Order' /\ Clean' /\ AnswerIsToThisCallOnceClosed'
  BY <1>1 DEF Order, Clean, AnswerIsToThisCallOnceClosed, AnswerIsToThisCall
<1>6. OneEngine'
  <2>1. ~notebook => \A q \in Processes : ~Alive(q)
    BY <1>1, StreamTypes DEF OneEngine, NoOrphans, Alive, HasExited
  <2>2. \A q \in Processes : Outbound(q)' = Outbound(q)
    BY <1>1 DEF Outbound
  <2>3. ~notebook => ~interrupted' /\ outcome' # "interrupted"
    BY <1>1 DEF OneEngine, Closed
  <2>4. QED BY <1>1, <2>1, <2>2, <2>3 DEF OneEngine, NoOrphans, Alive
<1>7. Progress'
  BY <1>1 DEF Progress
<1>8. QED BY <1>2, <1>3, <1>4, <1>5, <1>6, <1>7

LEMMA KillIInv ==
  ASSUME IInv, History, Kill
  PROVE  IInv'
<1> USE DEF IInv, History
<1>1. /\ call \in {"reap", "abandon"} /\ conn = 0 /\ proc \in Processes
      /\ eng' = [eng EXCEPT ![proc] = "exited"] /\ link' = Cut(link, {proc})
      /\ UNCHANGED <<call, outcome, asked, got, started, server, conn, chan, buf, proc>>
      /\ UNCHANGED <<work, line, executed, toEngine, toDriver>>
  BY StreamTypes DEF Kill, Phase, driverVars
<1>2. /\ eng'[proc] = "exited" /\ \A q \in Processes : q # proc => eng'[q] = eng[q]
      /\ \A q \in Processes : link'[q] = IF q = proc THEN "cut" ELSE link[q]
  BY <1>1 DEF TypeOK, Cut
<1>3. TypeOK'
  BY <1>1 DEF TypeOK, Cut
<1>4. Phase'
  BY <1>1 DEF Phase, Closed
<1>5. Links'
  <2>1. ASSUME NEW q \in Processes PROVE Linked(q)'
    <3>1. /\ Linked(q) /\ q # 0 /\ link'[q] = IF q = proc THEN "cut" ELSE link[q]
          /\ eng'[q] = IF q = proc THEN "exited" ELSE eng[q]
      BY <1>2, <2>1, StreamTypes DEF Links
    <3>2. QED BY <1>1, <3>1 DEF Linked, Live
  <2>2. QED BY <1>1, <2>1 DEF Links
<1>6. interrupted' <=> interrupted
  BY <1>1 DEF Closed, Phase
<1>7. Order' /\ Clean' /\ AnswerIsToThisCallOnceClosed'
  BY <1>1 DEF Order, Clean, AnswerIsToThisCallOnceClosed, AnswerIsToThisCall
<1>8. OneEngine'
  <2>1. \A q \in Processes : Outbound(q)' = Outbound(q)
    BY <1>1 DEF Outbound
  <2>2. QED BY <1>1, <1>2, <1>6, <2>1 DEF OneEngine, NoOrphans, Alive
<1>9. Progress'
  <2>1. \A q \in Processes : eng'[q] = "computing" => eng[q] = "computing"
    BY <1>2
  <2>2. QED BY <1>1, <2>1 DEF Progress
<1>10. QED BY <1>3, <1>4, <1>5, <1>7, <1>8, <1>9
-----------------------------------------------------------------------------
(***************************************************************************)
(* Steps of an engine.                                                     *)
(***************************************************************************)
LEMMA DriverStays ==
  ASSUME IInv, History, UNCHANGED driverVars
  PROVE  /\ Phase' /\ AnswerIsToThisCallOnceClosed'
         /\ ~interrupted' => ~interrupted
         /\ ~notebook' <=> ~notebook
         /\ ~notebook => ~interrupted' /\ outcome' # "interrupted"
         /\ UNCHANGED <<call, outcome, asked, got, started, server, conn, chan, buf, proc>>
<1>1. UNCHANGED <<call, outcome, asked, got, started, server, conn, chan, buf, proc>>
  BY DEF driverVars
<1>2. ~interrupted' => ~interrupted
  BY <1>1 DEF History, Closed
<1>3. ~notebook' <=> ~notebook
  BY DEF History
<1>4. interrupted' \in BOOLEAN /\ notebook' \in BOOLEAN
  BY DEF IInv, History, Phase
<1>5. Phase'
  BY <1>1, <1>4 DEF IInv, Phase
<1>6. AnswerIsToThisCallOnceClosed'
  BY <1>1, <1>2 DEF IInv, AnswerIsToThisCallOnceClosed, AnswerIsToThisCall
<1>7. ~notebook => ~interrupted' /\ outcome' # "interrupted"
  BY <1>1 DEF IInv, OneEngine, History, Closed
<1>8. QED BY <1>1, <1>2, <1>3, <1>5, <1>6, <1>7

LEMMA ConnectIInv ==
  ASSUME IInv, History, NEW p \in Processes, Connect(p)
  PROVE  IInv'
<1> USE DEF IInv
<1>1. /\ UNCHANGED driverVars /\ UNCHANGED <<work, line, executed, toEngine>>
      /\ eng[p] = "booting" /\ eng' = [eng EXCEPT ![p] = "reading"]
      /\ link' = [link EXCEPT ![p] = "queued"]
      /\ toDriver' = [toDriver EXCEPT ![p] = Message(Ready)]
  BY DEF Connect
<1>2. /\ Phase' /\ AnswerIsToThisCallOnceClosed'
      /\ ~interrupted' => ~interrupted
      /\ ~notebook' <=> ~notebook
      /\ ~notebook => ~interrupted' /\ outcome' # "interrupted"
      /\ UNCHANGED <<call, outcome, asked, got, started, server, conn, chan, buf, proc>>
  BY <1>1, DriverStays
<1>3. /\ eng'[p] = "reading" /\ link'[p] = "queued" /\ toDriver'[p] = Message(Ready)
      /\ \A q \in Processes : q # p => eng'[q] = eng[q] /\ link'[q] = link[q] /\ toDriver'[q] = toDriver[q]
  BY <1>1 DEF TypeOK
<1>4. Message(Ready) \in Seq(Pieces)
  BY ConstantsOK, MessageFacts DEF Ready, Messages, Exit
<1>5. TypeOK'
  BY <1>1, <1>2, <1>4 DEF TypeOK
<1>6. link[p] = "none" /\ line[p] = <<>> /\ toEngine[p] = <<>> /\ p # conn
  BY <1>1, StreamTypes DEF Links, Linked
<1>7. \A q \in Processes : Outbound(q)' = Outbound(q) /\ Working(q)' = Working(q)
  BY <1>1, <1>3 DEF Outbound, Working
<1>8. /\ conn # 0 => Inbound' = Inbound
      /\ conn # 0 => (Live(conn)' <=> Live(conn))
  BY <1>2, <1>3, <1>6, StreamTypes DEF Inbound, Live
<1>9. Links'
  <2>1. ASSUME NEW q \in Processes PROVE Linked(q)'
    <3>1. CASE q = p
      BY <1>1, <1>2, <1>3, <1>6, <3>1 DEF Linked, Live
    <3>2. CASE q # p
      <4>1. Linked(q) /\ eng'[q] = eng[q] /\ link'[q] = link[q] /\ toDriver'[q] = toDriver[q]
        BY <1>3, <3>2 DEF Links
      <4>2. QED BY <1>1, <1>2, <4>1 DEF Linked, Live
    <3>3. QED BY <3>1, <3>2
  <2>2. conn' # 0 => link'[conn'] \in {"open", "cut"}
    BY <1>2, <1>3, <1>6, StreamTypes DEF Links
  <2>3. QED BY <2>1, <2>2 DEF Links
<1>10. Order'
  BY <1>2, <1>7, <1>8, StreamTypes DEF Order
<1>11. Clean'
  BY <1>2, <1>7, <1>8, StreamTypes DEF Clean
<1>12. OneEngine'
  <2>1. Numbers(Outbound(p)) = {}
    <3>1. Outbound(p) \in Seq(Pieces) /\ Outbound(p) = line[p] \o toEngine[p] /\ line[p] \in Seq(Pieces)
      BY StreamTypes DEF Outbound
    <3>2. Outbound(p) = <<>>
      BY <1>6, <3>1, ConcatEmptySeq
    <3>3. QED BY <3>1, <3>2, EmptyStream
  <2>2. QED BY <1>1, <1>2, <1>3, <1>7, <2>1 DEF OneEngine, NoOrphans, Alive
<1>13. Progress'
  <2>1. \A q \in Processes : eng'[q] = "computing" => eng[q] = "computing"
    BY <1>3
  <2>2. call = "await" => conn # 0 /\ conn \in Processes
    BY StreamTypes DEF Phase
  <2>3. QED BY <1>1, <1>2, <1>7, <1>8, <2>1, <2>2 DEF Progress
<1>14. QED BY <1>2, <1>5, <1>9, <1>10, <1>11, <1>12, <1>13

\* An engine ends, with its connection, whatever it had read or was to read.
LEMMA LeavesIInv ==
  ASSUME IInv, History, NEW p \in Processes, Leaves(p), UNCHANGED driverVars,
         eng[p] \in {"booting", "reading", "computing"},
         UNCHANGED <<work, executed, toDriver>>,
         line' \in [Processes -> Seq(Pieces)], toEngine' \in [Processes -> Seq(Pieces)],
         \A q \in Processes : q # p => line'[q] = line[q] /\ toEngine'[q] = toEngine[q],
         p = conn => Ascending(Outbound(p)') /\ Numbers(Outbound(p)') \subseteq Numbers(Outbound(p))
  PROVE  IInv'
<1> USE DEF IInv
<1>1. eng' = [eng EXCEPT ![p] = "ending"] /\ link' = Cut(link, {p})
  BY DEF Leaves
<1>2. /\ Phase' /\ AnswerIsToThisCallOnceClosed'
      /\ ~interrupted' => ~interrupted
      /\ ~notebook' <=> ~notebook
      /\ ~notebook => ~interrupted' /\ outcome' # "interrupted"
      /\ UNCHANGED <<call, outcome, asked, got, started, server, conn, chan, buf, proc>>
  BY DriverStays
<1>3. /\ eng'[p] = "ending" /\ link'[p] = "cut"
      /\ \A q \in Processes : q # p => eng'[q] = eng[q] /\ link'[q] = link[q]
      /\ link' \in [Processes -> {"none", "queued", "open", "cut"}]
  BY <1>1 DEF TypeOK, Cut
<1>4. TypeOK'
  BY <1>1, <1>2, <1>3 DEF TypeOK
<1>5. /\ Inbound' = Inbound
      /\ \A q \in Processes : q # p => Outbound(q)' = Outbound(q) /\ Working(q)' = Working(q)
      /\ Working(p)' = {}
  BY <1>2, <1>3 DEF Inbound, Outbound, Working
<1>6. \A q \in Processes : Live(q)' => q # p /\ Live(q)
  BY <1>3 DEF Live
<1>7. Links'
  <2>1. ASSUME NEW q \in Processes PROVE Linked(q)'
    <3>1. CASE q = p
      BY <1>2, <1>3, <3>1 DEF Linked, Live
    <3>2. CASE q # p
      <4>1. /\ Linked(q) /\ eng'[q] = eng[q] /\ link'[q] = link[q]
            /\ line'[q] = line[q] /\ toEngine'[q] = toEngine[q]
        BY <1>3, <3>2 DEF Links
      <4>2. QED BY <1>2, <4>1 DEF Linked, Live
    <3>3. QED BY <3>1, <3>2
  <2>2. conn' # 0 => link'[conn'] \in {"open", "cut"}
    BY <1>2, <1>3, StreamTypes DEF Links
  <2>3. QED BY <2>1, <2>2 DEF Links
<1>8. Order'
  <2>1. CASE p = conn
    <3>1. p # 0
      BY StreamTypes
    <3>2. QED BY <1>2, <1>5, <2>1, <3>1 DEF Order
  <2>2. CASE p # conn
    BY <1>2, <1>5, <2>2, StreamTypes DEF Order
  <2>3. QED BY <2>1, <2>2
<1>9. Clean'
  <2>1. CASE p = conn
    BY <1>2, <1>5, <1>6, <2>1 DEF Clean
  <2>2. CASE p # conn
    BY <1>2, <1>5, <1>6, <2>2, StreamTypes DEF Clean
  <2>3. QED BY <2>1, <2>2
<1>10. OneEngine'
  BY <1>2, <1>3, <1>5 DEF OneEngine, NoOrphans, Alive
<1>11. Progress'
  <2>1. \A q \in Processes : eng'[q] = "computing" => eng[q] = "computing"
    BY <1>3
  <2>2. conn # 0 /\ Live(conn)' => Live(conn) /\ Outbound(conn)' = Outbound(conn)
    BY <1>2, <1>5, <1>6, StreamTypes
  <2>3. call = "await" => conn # 0
    BY DEF Phase
  <2>4. QED BY <1>2, <1>5, <2>1, <2>2, <2>3 DEF Progress
<1>12. QED BY <1>2, <1>4, <1>7, <1>8, <1>9, <1>10, <1>11

LEMMA EndsIInv ==
  ASSUME IInv, History, NEW p \in Processes, ConnectFails(p) \/ ReadEnd(p) \/ Die(p)
  PROVE  IInv'
<1>1. /\ Leaves(p) /\ UNCHANGED driverVars /\ UNCHANGED <<work, line, executed, toEngine, toDriver>>
      /\ eng[p] \in {"booting", "reading", "computing"}
  BY DEF ConnectFails, ReadEnd, Die
<1>2. Outbound(p)' = Outbound(p)
  BY <1>1 DEF Outbound
<1>3. p = conn => Ascending(Outbound(p))
  BY StreamTypes DEF IInv, Order
<1>4. line' \in [Processes -> Seq(Pieces)] /\ toEngine' \in [Processes -> Seq(Pieces)]
  BY <1>1 DEF IInv, TypeOK
<1>5. QED BY <1>1, <1>2, <1>3, <1>4, LeavesIInv

LEMMA GoneIInv ==
  ASSUME IInv, History, NEW p \in Processes, Gone(p)
  PROVE  IInv'
<1> USE DEF IInv
<1>1. /\ UNCHANGED driverVars /\ UNCHANGED <<work, line, executed, link, toEngine, toDriver>>
      /\ eng[p] = "ending" /\ eng' = [eng EXCEPT ![p] = "exited"]
  BY DEF Gone, wireVars
<1>2. /\ Phase' /\ AnswerIsToThisCallOnceClosed'
      /\ ~interrupted' => ~interrupted
      /\ ~notebook' <=> ~notebook
      /\ ~notebook => ~interrupted' /\ outcome' # "interrupted"
      /\ UNCHANGED <<call, outcome, asked, got, started, server, conn, chan, buf, proc>>
  BY <1>1, DriverStays
<1>3. eng'[p] = "exited" /\ \A q \in Processes : q # p => eng'[q] = eng[q]
  BY <1>1 DEF TypeOK
<1>4. TypeOK'
  BY <1>1, <1>2 DEF TypeOK
<1>5. /\ Inbound' = Inbound
      /\ \A q \in Processes : Outbound(q)' = Outbound(q) /\ Working(q)' = Working(q)
  BY <1>1, <1>2, <1>3 DEF Inbound, Outbound, Working
<1>6. \A q \in Processes : Live(q)' <=> Live(q)
  BY <1>1, <1>3 DEF Live
<1>7. Links'
  <2>1. ASSUME NEW q \in Processes PROVE Linked(q)'
    <3>1. Linked(q) /\ eng'[q] = IF q = p THEN "exited" ELSE eng[q]
      BY <1>3 DEF Links
    <3>2. QED BY <1>1, <1>2, <3>1 DEF Linked, Live
  <2>2. QED BY <1>1, <1>2, <2>1 DEF Links
<1>8. Order' /\ Clean'
  BY <1>2, <1>5, <1>6, StreamTypes DEF Order, Clean
<1>9. OneEngine'
  BY <1>1, <1>2, <1>3, <1>5 DEF OneEngine, NoOrphans, Alive
<1>10. Progress'
  <2>1. \A q \in Processes : eng'[q] = "computing" => eng[q] = "computing"
    BY <1>3
  <2>2. call = "await" => conn \in Processes
    BY StreamTypes DEF Phase
  <2>3. QED BY <1>1, <1>2, <1>5, <1>6, <2>1, <2>2 DEF Progress
<1>11. QED BY <1>2, <1>4, <1>7, <1>8, <1>9, <1>10

\* What an engine reads at once is the beginning of what it has to read.
LEMMA ReadsBeginning ==
  ASSUME TypeOK, NEW p \in Processes, NEW n \in 1..Len(toEngine[p])
  PROVE  /\ line[p] \o Take(toEngine[p], n) \in Seq(Pieces)
         /\ Take(toEngine[p], n) \in Seq(Pieces) /\ Drop(toEngine[p], n) \in Seq(Pieces)
         /\ (line[p] \o Take(toEngine[p], n)) \o Drop(toEngine[p], n) = Outbound(p)
         /\ toEngine[p] # <<>>
<1>1. line[p] \in Seq(Pieces) /\ toEngine[p] \in Seq(Pieces)
  BY StreamTypes
<1>2. /\ Take(toEngine[p], n) \in Seq(Pieces) /\ Drop(toEngine[p], n) \in Seq(Pieces)
      /\ Take(toEngine[p], n) \o Drop(toEngine[p], n) = toEngine[p]
  BY <1>1, Splitting
<1>3. (line[p] \o Take(toEngine[p], n)) \o Drop(toEngine[p], n)
        = line[p] \o (Take(toEngine[p], n) \o Drop(toEngine[p], n))
  BY <1>1, <1>2, PiecesAssociative
<1>4. line[p] \o Take(toEngine[p], n) \in Seq(Pieces)
  BY <1>1, <1>2, Concat
<1>5. toEngine[p] # <<>>
  BY <1>1, LenProperties
<1>6. QED BY <1>2, <1>3, <1>4, <1>5 DEF Outbound

LEMMA ReadPartIInv ==
  ASSUME IInv, History, NEW p \in Processes, NEW n \in 1..Len(toEngine[p]), ReadPart(p, n)
  PROVE  IInv'
<1> USE DEF IInv
<1>1. /\ UNCHANGED driverVars /\ UNCHANGED <<eng, work, executed, link, toDriver>>
      /\ eng[p] = "reading"
      /\ line' = [line EXCEPT ![p] = line[p] \o Take(toEngine[p], n)]
      /\ toEngine' = [toEngine EXCEPT ![p] = Drop(toEngine[p], n)]
  BY DEF ReadPart
<1>2. /\ Phase' /\ AnswerIsToThisCallOnceClosed'
      /\ ~interrupted' => ~interrupted
      /\ ~notebook' <=> ~notebook
      /\ ~notebook => ~interrupted' /\ outcome' # "interrupted"
      /\ UNCHANGED <<call, outcome, asked, got, started, server, conn, chan, buf, proc>>
  BY <1>1, DriverStays
<1>3. /\ line[p] \o Take(toEngine[p], n) \in Seq(Pieces) /\ Drop(toEngine[p], n) \in Seq(Pieces)
      /\ (line[p] \o Take(toEngine[p], n)) \o Drop(toEngine[p], n) = Outbound(p)
      /\ toEngine[p] # <<>>
  BY ReadsBeginning
<1>4. /\ line'[p] = line[p] \o Take(toEngine[p], n) /\ toEngine'[p] = Drop(toEngine[p], n)
      /\ \A q \in Processes : q # p => line'[q] = line[q] /\ toEngine'[q] = toEngine[q]
  BY <1>1 DEF TypeOK
<1>5. TypeOK'
  <2>1. line' \in [Processes -> Seq(Pieces)] /\ toEngine' \in [Processes -> Seq(Pieces)]
    BY <1>1, <1>3 DEF TypeOK
  <2>2. QED BY <1>1, <1>2, <2>1 DEF TypeOK
<1>6. \A q \in Processes : Outbound(q)' = Outbound(q)
  <2>1. Outbound(p)' = line'[p] \o toEngine'[p]
    BY DEF Outbound
  <2>2. Outbound(p)' = Outbound(p)
    BY <1>3, <1>4, <2>1
  <2>3. \A q \in Processes : q # p => Outbound(q)' = Outbound(q)
    BY <1>4 DEF Outbound
  <2>4. QED BY <2>2, <2>3
<1>7. /\ Inbound' = Inbound
      /\ \A q \in Processes : Working(q)' = Working(q) /\ (Live(q)' <=> Live(q))
  BY <1>1, <1>2 DEF Inbound, Working, Live
<1>8. Links'
  <2>1. ASSUME NEW q \in Processes PROVE Linked(q)'
    <3>1. link[p] \notin {"none", "queued"} /\ Linked(q)
      BY <1>1, <1>3 DEF Links, Linked
    <3>2. q # p => line'[q] = line[q] /\ toEngine'[q] = toEngine[q]
      BY <1>4
    <3>3. QED BY <1>1, <1>2, <3>1, <3>2 DEF Linked, Live
  <2>2. QED BY <1>1, <1>2, <2>1 DEF Links
<1>9. Order' /\ Clean'
  BY <1>2, <1>6, <1>7, StreamTypes DEF Order, Clean
<1>10. OneEngine'
  BY <1>1, <1>2, <1>6, <1>7 DEF OneEngine, NoOrphans, Alive
<1>11. Progress'
  <2>1. call = "await" => conn \in Processes
    BY StreamTypes DEF Phase
  <2>2. QED BY <1>1, <1>2, <1>6, <1>7, <2>1 DEF Progress
<1>12. QED BY <1>2, <1>5, <1>8, <1>9, <1>10, <1>11

\* A request that is read whole is the first line.
LEMMA MessageRead ==
  ASSUME NEW s \in Seq(Pieces), Complete(s), NEW r \in Messages, Take(s, FirstLine(s)) = Message(r)
  PROVE  s[FirstLine(s)].of = r
<1>1. FirstLine(s) \in 1..Len(s)
  BY FirstLineIs
<1>2. /\ Len(Take(s, FirstLine(s))) = FirstLine(s)
      /\ \A i \in 1..FirstLine(s) : Take(s, FirstLine(s))[i] = s[i]
  BY <1>1, Splitting
<1>3. Len(Message(r)) = 2 /\ Message(r)[2].of = r
  BY MessageFacts
<1>4. FirstLine(s) = 2
  BY <1>2, <1>3
<1>5. Take(s, FirstLine(s))[2] = s[2]
  BY <1>2, <1>4
<1>6. QED BY <1>3, <1>4, <1>5

LEMMA ReadLineIs ==
  ASSUME IInv, NEW p \in Processes, NEW n \in 1..Len(toEngine[p]), ReadLine(p, n)
  PROVE  /\ eng[p] = "reading" /\ link[p] \notin {"none", "queued"}
         /\ line' \in [Processes -> Seq(Pieces)] /\ toEngine' \in [Processes -> Seq(Pieces)]
         /\ line'[p] = <<>>
         /\ \A q \in Processes : q # p => line'[q] = line[q] /\ toEngine'[q] = toEngine[q]
         /\ Numbers(Outbound(p)') \subseteq Numbers(Outbound(p))
         /\ p = conn => Ascending(Outbound(p)')
<1> DEFINE s == line[p] \o Take(toEngine[p], n)
           t == Drop(toEngine[p], n)
<1>1. /\ eng[p] = "reading" /\ Complete(s)
      /\ line' = [line EXCEPT ![p] = <<>>]
      /\ toEngine' = [toEngine EXCEPT ![p] = t]
  BY DEF ReadLine
<1>2. s \in Seq(Pieces) /\ t \in Seq(Pieces) /\ s \o t = Outbound(p) /\ toEngine[p] # <<>>
  BY ReadsBeginning DEF IInv
<1> HIDE DEF s, t
<1>3. /\ line'[p] = <<>> /\ toEngine'[p] = t
      /\ \A q \in Processes : q # p => line'[q] = line[q] /\ toEngine'[q] = toEngine[q]
      /\ line' \in [Processes -> Seq(Pieces)] /\ toEngine' \in [Processes -> Seq(Pieces)]
  BY <1>1, <1>2, EmptySeq DEF IInv, TypeOK
<1>4. Outbound(p)' = t
  <2>1. Outbound(p)' = line'[p] \o toEngine'[p]
    BY DEF Outbound
  <2>2. QED BY <1>2, <1>3, <2>1, ConcatEmptySeq
<1>5. Numbers(t) \subseteq Numbers(Outbound(p))
  BY <1>2, NumbersOfConcat
<1>6. p = conn => Ascending(t)
  <2>1. p = conn => Ascending(Outbound(p))
    BY StreamTypes DEF IInv, Order
  <2>2. Ascending(s \o t) => Ascending(t)
    BY <1>1, <1>2, RestOfLine
  <2>3. QED BY <1>2, <2>1, <2>2
<1>7. link[p] \notin {"none", "queued"}
  BY <1>2 DEF IInv, Links, Linked
<1>8. QED BY <1>1, <1>3, <1>4, <1>5, <1>6, <1>7

\* The request an engine takes up was under way to it; what it has still to read
\* on the driver's connection is later.
LEMMA RequestRead ==
  ASSUME IInv, NEW p \in Processes, NEW n \in 1..Len(toEngine[p]), ReadLine(p, n),
         NEW r \in Requests,
         LET data == line[p] \o Take(toEngine[p], n) IN Take(data, FirstLine(data)) = Message(r)
  PROVE  /\ r \in Numbers(Outbound(p))
         /\ p = conn => \A k \in Numbers(Outbound(p)') : r < k
<1> DEFINE s == line[p] \o Take(toEngine[p], n)
           t == Drop(toEngine[p], n)
<1>1. /\ Complete(s) /\ Take(s, FirstLine(s)) = Message(r)
      /\ line' = [line EXCEPT ![p] = <<>>]
      /\ toEngine' = [toEngine EXCEPT ![p] = t]
  BY DEF ReadLine
<1>2. s \in Seq(Pieces) /\ t \in Seq(Pieces) /\ s \o t = Outbound(p)
  BY ReadsBeginning DEF IInv
<1> HIDE DEF s, t
<1>3. r \in Messages
  BY ConstantsOK DEF Requests, Messages, Exit
<1>4. s[FirstLine(s)].of = r /\ FirstLine(s) \in 1..Len(s)
  BY <1>1, <1>2, <1>3, MessageRead, FirstLineIs
<1>5. r \in Numbers(s)
  BY <1>2, <1>4, LenProperties DEF Numbers
<1>6. r \in Numbers(Outbound(p))
  BY <1>2, <1>5, NumbersOfConcat
<1>7. Outbound(p)' = t
  <2>1. Outbound(p)' = line'[p] \o toEngine'[p]
    BY DEF Outbound
  <2>2. line'[p] = <<>> /\ toEngine'[p] = t
    BY <1>1 DEF IInv, TypeOK
  <2>3. QED BY <1>2, <2>1, <2>2, ConcatEmptySeq
<1>8. ASSUME p = conn PROVE \A k \in Numbers(t) : r < k
  <2>1. Ascending(s \o t)
    BY <1>2, <1>8, StreamTypes DEF IInv, Order
  <2>2. QED BY <1>1, <1>2, <1>4, <2>1, RestOfLine
<1>9. QED BY <1>6, <1>7, <1>8

LEMMA ReadLineIInv ==
  ASSUME IInv, History, NEW p \in Processes, NEW n \in 1..Len(toEngine[p]), ReadLine(p, n)
  PROVE  IInv'
<1> USE DEF IInv
<1> DEFINE data == line[p] \o Take(toEngine[p], n)
           first == Take(data, FirstLine(data))
<1>1. /\ UNCHANGED driverVars /\ UNCHANGED toDriver
      /\ \/ \E r \in Requests :
               /\ first = Message(r)
               /\ eng' = [eng EXCEPT ![p] = "computing"]
               /\ work' = [work EXCEPT ![p] = r]
               /\ executed' = r
               /\ UNCHANGED link
         \/ Leaves(p) /\ UNCHANGED <<work, executed>>
  BY DEF ReadLine
<1>2. /\ eng[p] = "reading" /\ link[p] \notin {"none", "queued"}
      /\ line' \in [Processes -> Seq(Pieces)] /\ toEngine' \in [Processes -> Seq(Pieces)]
      /\ line'[p] = <<>>
      /\ \A q \in Processes : q # p => line'[q] = line[q] /\ toEngine'[q] = toEngine[q]
      /\ Numbers(Outbound(p)') \subseteq Numbers(Outbound(p))
      /\ p = conn => Ascending(Outbound(p)')
  BY ReadLineIs
<1>3. CASE Leaves(p) /\ UNCHANGED <<work, executed>>
  BY <1>1, <1>2, <1>3, LeavesIInv
<1>4. CASE \E r \in Requests :
             /\ first = Message(r)
             /\ eng' = [eng EXCEPT ![p] = "computing"]
             /\ work' = [work EXCEPT ![p] = r]
             /\ executed' = r
             /\ UNCHANGED link
  <2>1. PICK r \in Requests :
             /\ first = Message(r)
             /\ eng' = [eng EXCEPT ![p] = "computing"]
             /\ work' = [work EXCEPT ![p] = r]
             /\ executed' = r
             /\ UNCHANGED link
    BY <1>4
  <2>2. r \in Numbers(Outbound(p)) /\ (p = conn => \A k \in Numbers(Outbound(p)') : r < k)
    BY <2>1, RequestRead
  <2> HIDE DEF first, data
  <2>3. /\ Phase' /\ AnswerIsToThisCallOnceClosed'
        /\ ~interrupted' => ~interrupted
        /\ ~notebook' <=> ~notebook
        /\ ~notebook => ~interrupted' /\ outcome' # "interrupted"
        /\ UNCHANGED <<call, outcome, asked, got, started, server, conn, chan, buf, proc>>
    BY <1>1, DriverStays
  <2>4. /\ eng'[p] = "computing" /\ work'[p] = r
        /\ \A q \in Processes : q # p => eng'[q] = eng[q] /\ work'[q] = work[q]
    BY <2>1 DEF TypeOK
  <2>5. r \in Nat /\ r \in 0..MaxCalls /\ r # Exit
    BY ConstantsOK DEF Requests, Exit
  <2>6. TypeOK'
    <3>1. work' \in [Processes -> 0..MaxCalls] /\ executed' \in 0..MaxCalls
      BY <2>1, <2>5 DEF TypeOK
    <3>2. QED BY <1>1, <1>2, <2>1, <2>3, <3>1 DEF TypeOK
  <2>7. /\ Inbound' = Inbound /\ Working(p)' = {r} /\ Live(p) /\ Working(p) = {}
        /\ \A q \in Processes : q # p => Outbound(q)' = Outbound(q) /\ Working(q)' = Working(q)
        /\ \A q \in Processes : Live(q)' <=> Live(q)
    BY <1>1, <1>2, <2>3, <2>4 DEF Inbound, Outbound, Working, Live
  <2>8. Links'
    <3>1. ASSUME NEW q \in Processes PROVE Linked(q)'
      <4>1. CASE q = p
        BY <1>2, <2>1, <2>3, <2>4, <4>1 DEF Links, Linked, Live
      <4>2. CASE q # p
        <5>1. /\ Linked(q) /\ eng'[q] = eng[q] /\ work'[q] = work[q]
              /\ line'[q] = line[q] /\ toEngine'[q] = toEngine[q]
          BY <1>2, <2>4, <4>2 DEF Links
        <5>2. QED BY <1>1, <2>1, <2>3, <5>1 DEF Linked, Live
      <4>3. QED BY <4>1, <4>2
    <3>2. QED BY <2>1, <2>3, <3>1 DEF Links
  <2>9. p = conn => conn # 0 /\ started
    BY <2>2, StreamTypes DEF Order
  <2>10. Order'
    <3>1. CASE p = conn
      <4>1. \A m \in Numbers(Inbound) : m < r
        BY <2>2, <2>9, <3>1 DEF Order
      <4>2. got < r /\ r <= asked /\ (call = "send" => r < asked)
        BY <2>2, <2>9, <3>1 DEF Order
      <4>3. \A m \in Numbers(Inbound) : \A k \in Numbers(Outbound(p)') : m < k
        BY <1>2, <2>9, <3>1 DEF Order
      <4>4. /\ Ascending(Inbound) /\ Whole(Inbound) /\ Ascending(Outbound(p)')
            /\ \A m \in Numbers(Inbound) \cup Numbers(Outbound(p)') :
                 got < m /\ m <= asked /\ (call = "send" => m < asked)
        BY <1>2, <2>9, <3>1 DEF Order
      <4>5. started' /\ call' # "handshake"
        BY <2>3, <2>9, <3>1 DEF Phase
      <4>6. QED BY <2>2, <2>3, <2>7, <2>9, <3>1, <4>1, <4>2, <4>3, <4>4, <4>5 DEF Order
    <3>2. CASE p # conn
      BY <2>3, <2>7, <3>2, StreamTypes DEF Order
    <3>3. QED BY <3>1, <3>2
  <2>11. p = conn /\ ~interrupted => call = "await" /\ r = asked
    BY <2>2, <2>7, <2>9 DEF Clean, Phase
  <2>12. Clean'
    <3>1. CASE p = conn
      BY <1>2, <2>3, <2>7, <2>11, <3>1 DEF Clean
    <3>2. CASE p # conn
      BY <2>3, <2>7, <3>2, StreamTypes DEF Clean
    <3>3. QED BY <3>1, <3>2
  <2>13. ~notebook => p = conn
    BY <1>2, <2>2, <2>5 DEF OneEngine
  <2>14. OneEngine'
    BY <1>2, <2>3, <2>4, <2>7, <2>13 DEF OneEngine, NoOrphans, Alive
  <2>15. Progress'
    <3>1. SUFFICES ASSUME ~notebook PROVE Progress'
      BY <2>3 DEF Progress
    <3>2. p = conn /\ call = "await" /\ r = asked /\ asked \in Nat
      BY <2>11, <2>13, <3>1, StreamTypes DEF OneEngine
    <3>3. Numbers(Outbound(p)') = {}
      BY <1>2, <2>2, <2>7, <2>9, <3>1, <3>2 DEF Clean, OneEngine
    <3>4. \A q \in Processes : eng'[q] = "computing" => q = p
      BY <2>4, <3>1, <3>2 DEF OneEngine
    <3>5. QED BY <2>1, <2>3, <2>4, <3>2, <3>3, <3>4 DEF Progress
  <2>16. QED BY <2>3, <2>6, <2>8, <2>10, <2>12, <2>14, <2>15
<1>5. QED BY <1>1, <1>3, <1>4

LEMMA RespondIInv ==
  ASSUME IInv, History, NEW p \in Processes, Respond(p)
  PROVE  IInv'
<1> USE DEF IInv
<1>1. /\ UNCHANGED driverVars /\ UNCHANGED <<line, executed, link, toEngine>>
      /\ eng[p] = "computing" /\ eng' = [eng EXCEPT ![p] = "reading"]
      /\ work' = [work EXCEPT ![p] = 0]
      /\ link[p] = "cut" => toDriver' = toDriver
      /\ link[p] # "cut" => toDriver' = [toDriver EXCEPT ![p] = toDriver[p] \o Message(work[p])]
  BY DEF Respond
<1>2. /\ Phase' /\ AnswerIsToThisCallOnceClosed'
      /\ ~interrupted' => ~interrupted
      /\ ~notebook' <=> ~notebook
      /\ ~notebook => ~interrupted' /\ outcome' # "interrupted"
      /\ UNCHANGED <<call, outcome, asked, got, started, server, conn, chan, buf, proc>>
  BY <1>1, DriverStays
<1>3. /\ work[p] \in Requests /\ work[p] \in Messages /\ work[p] \in Nat /\ Working(p) = {work[p]}
      /\ Live(p)
  BY <1>1, ConstantsOK DEF Links, Linked, Requests, Messages, Exit, Working, Live
<1>4. /\ eng'[p] = "reading"
      /\ \A q \in Processes : q # p => eng'[q] = eng[q] /\ work'[q] = work[q]
      /\ Working(p)' = {} /\ \A q \in Processes : q # p => Working(q)' = Working(q)
      /\ \A q \in Processes : Outbound(q)' = Outbound(q) /\ (Live(q)' <=> Live(q))
  BY <1>1 DEF TypeOK, Working, Outbound, Live
<1>5. link[p] \in {"open", "cut"} /\ (link[p] = "open" <=> p = conn)
  BY <1>1, <1>3, StreamTypes DEF Links, Linked, TypeOK
<1>6. /\ toDriver' \in [Processes -> Seq(Pieces)]
      /\ \A q \in Processes : q # p => toDriver'[q] = toDriver[q]
      /\ link[p] # "cut" => toDriver'[p] = toDriver[p] \o Message(work[p])
  <2>1. toDriver[p] \in Seq(Pieces) /\ Message(work[p]) \in Seq(Pieces)
    BY <1>3, StreamTypes, MessageFacts
  <2>2. toDriver[p] \o Message(work[p]) \in Seq(Pieces)
    BY <2>1, Concat
  <2>3. QED BY <1>1, <2>2 DEF TypeOK
<1>7. TypeOK'
  <2>1. work' \in [Processes -> 0..MaxCalls] /\ 0 \in 0..MaxCalls
    BY <1>1, ConstantsOK DEF TypeOK
  <2>2. QED BY <1>1, <1>2, <1>6, <2>1 DEF TypeOK
<1>8. Links'
  <2>1. ASSUME NEW q \in Processes PROVE Linked(q)'
    <3>1. CASE q = p
      BY <1>1, <1>2, <1>3, <1>4, <1>5, <3>1 DEF Links, Linked, Live
    <3>2. CASE q # p
      <4>1. Linked(q) /\ eng'[q] = eng[q] /\ work'[q] = work[q] /\ toDriver'[q] = toDriver[q]
        BY <1>4, <1>6, <3>2 DEF Links
      <4>2. QED BY <1>1, <1>2, <4>1 DEF Linked, Live
    <3>3. QED BY <3>1, <3>2
  <2>2. QED BY <1>1, <1>2, <2>1 DEF Links
<1>9. CASE p = conn
  <2>1. conn # 0 /\ buf \in Seq(Pieces) /\ toDriver[conn] \in Seq(Pieces) /\ started
        /\ call # "handshake"
    BY <1>3, <1>9, StreamTypes DEF Order, Phase
  <2>2. Inbound' = Inbound \o Message(work[p])
    <3>1. Inbound' = buf \o (toDriver[conn] \o Message(work[p]))
      BY <1>2, <1>5, <1>6, <1>9 DEF Inbound
    <3>2. Message(work[p]) \in Seq(Pieces)
      BY <1>3, MessageFacts
    <3>3. (buf \o toDriver[conn]) \o Message(work[p]) = buf \o (toDriver[conn] \o Message(work[p]))
      BY <2>1, <3>2, PiecesAssociative
    <3>4. QED BY <3>1, <3>3 DEF Inbound
  <2>3. /\ Ascending(Inbound') /\ Whole(Inbound')
        /\ Numbers(Inbound') = Numbers(Inbound) \cup {work[p]}
    <3>1. Ascending(Inbound) /\ \A k \in Numbers(Inbound) : k < work[p]
      BY <1>3, <1>9, <2>1 DEF Order
    <3>2. Inbound \in Seq(Pieces)
      BY <2>1, StreamTypes
    <3>3. QED BY <1>3, <2>2, <3>1, <3>2, Sending
  <2>4. Order'
    <3>1. /\ \A m \in Numbers(Inbound') : \A n \in Numbers(Outbound(conn)) : m < n
          /\ \A m \in Numbers(Inbound') \cup Numbers(Outbound(conn)) :
               got < m /\ m <= asked /\ (call = "send" => m < asked)
          /\ Ascending(Outbound(conn))
      BY <1>3, <1>9, <2>1, <2>3 DEF Order
    <3>2. QED BY <1>2, <1>4, <1>9, <2>1, <2>3, <3>1 DEF Order
  <2>5. ~interrupted => call = "await" /\ work[p] = asked
    BY <1>3, <1>9, <2>1 DEF Clean
  <2>6. Clean'
    BY <1>2, <1>4, <1>9, <2>1, <2>3, <2>5 DEF Clean
  <2>7. OneEngine'
    BY <1>1, <1>2, <1>4, <1>9 DEF OneEngine, NoOrphans, Alive
  <2>8. Progress'
    <3>1. SUFFICES ASSUME ~notebook PROVE Progress'
      BY <1>2 DEF Progress
    <3>2. call = "await" /\ executed = asked /\ asked \in Nat
      BY <1>1, <2>5, <3>1, StreamTypes DEF Progress, OneEngine
    <3>3. \A q \in Processes : eng'[q] = "computing" => eng[q] = "computing" /\ work'[q] = work[q]
      BY <1>4
    <3>4. QED BY <1>1, <1>2, <1>4, <1>9, <3>1, <3>2, <3>3 DEF Progress
  <2>9. QED BY <1>2, <1>7, <1>8, <2>4, <2>6, <2>7, <2>8
<1>10. CASE p # conn
  <2>1. conn # 0 => conn \in Processes /\ Inbound' = Inbound /\ Working(conn)' = Working(conn)
    BY <1>2, <1>4, <1>6, <1>10, StreamTypes DEF Inbound
  <2>2. Order' /\ Clean'
    BY <1>2, <1>4, <1>10, <2>1 DEF Order, Clean
  <2>3. notebook
    BY <1>1, <1>10 DEF OneEngine
  <2>4. OneEngine' /\ Progress'
    BY <1>2, <2>3 DEF OneEngine, Progress
  <2>5. QED BY <1>2, <1>7, <1>8, <2>2, <2>4
<1>11. QED BY <1>9, <1>10
-----------------------------------------------------------------------------
(***************************************************************************)
(* The session.                                                            *)
(***************************************************************************)
\* What the driver of a script may do.
Uninterrupted ==
  \/ Compute \/ Launch \/ LaunchFails \/ Accept \/ ReceiveSome \/ Handshake
  \/ ConnectionLost \/ FindsExited \/ SendRequest \/ SendFails \/ Answered
  \/ Close \/ AcceptTimeout \/ Reaped \/ Kill

LEMMA ScriptIsUninterrupted ==
  Script!Next => Uninterrupted \/ \E p \in Processes : Engine(p)
<1> USE DEF Script!Processes, Processes, Script!engineVars, engineVars, Script!wireVars, wireVars,
            Script!driverVars, driverVars, Script!vars, vars
<1>1. Script!Interrupt => FALSE
  BY DEF Script!Interrupt
<1>2. /\ Script!Compute => Compute
      /\ Script!Launch => Launch
      /\ Script!LaunchFails => LaunchFails
      /\ Script!Accept => Accept
  <2> USE DEF Script!Queued, Queued, Script!Cut, Cut, Script!Returns, Returns
  <2>1. Script!Compute => Compute
    BY DEF Script!Compute, Compute
  <2>2. Script!Launch => Launch
    BY DEF Script!Launch, Launch
  <2>3. Script!LaunchFails => LaunchFails
    BY DEF Script!LaunchFails, LaunchFails
  <2>4. Script!Accept => Accept
    BY DEF Script!Accept, Accept
  <2>5. QED BY <2>1, <2>2, <2>3, <2>4
<1>3. /\ Script!ReceiveSome => ReceiveSome
      /\ Script!Handshake => Handshake
      /\ Script!ConnectionLost => ConnectionLost
      /\ Script!Answered => Answered
  <2> USE DEF Script!Complete, Complete, Script!FirstLine, FirstLine, Script!Take, Take,
              Script!Drop, Drop, Script!Returns, Returns
  <2>1. Script!ReceiveSome => ReceiveSome
    BY DEF Script!ReceiveSome, ReceiveSome, Script!Receive, Receive
  <2>2. Script!Handshake => Handshake
    BY DEF Script!Handshake, Handshake
  <2>3. Script!ConnectionLost => ConnectionLost
    BY DEF Script!ConnectionLost, ConnectionLost, Script!PeerClosed, PeerClosed
  <2>4. Script!Answered => Answered
    BY DEF Script!Answered, Answered
  <2>5. QED BY <2>1, <2>2, <2>3, <2>4
<1>4. /\ Script!FindsExited => FindsExited
      /\ Script!SendRequest => SendRequest
      /\ Script!SendFails => SendFails
  <2> USE DEF Script!HasExited, HasExited, Script!Returns, Returns
  <2>1. Script!FindsExited => FindsExited
    BY DEF Script!FindsExited, FindsExited
  <2>2. Script!SendRequest => SendRequest
    BY DEF Script!SendRequest, SendRequest, Script!Sends, Sends, Script!Message, Message
  <2>3. Script!SendFails => SendFails
    BY DEF Script!SendFails, SendFails
  <2>4. QED BY <2>1, <2>2, <2>3
<1>5. /\ Script!Close => Close
      /\ Script!AcceptTimeout => AcceptTimeout
      /\ Script!Reaped => Reaped
      /\ Script!Kill => Kill
  <2> USE DEF Script!HasExited, HasExited, Script!Returns, Returns, Script!Cut, Cut
  <2>1. \A then \in {"reap", "abandon"} : Script!CloseSockets(then) => CloseSockets(then)
    BY DEF Script!CloseSockets, CloseSockets, Script!Sends, Sends, Script!Message, Message,
           Script!Queued, Queued, Script!Exit, Exit
  <2>2. (Script!Close => Close) /\ (Script!AcceptTimeout => AcceptTimeout)
    BY <2>1 DEF Script!Close, Close, Script!AcceptTimeout, AcceptTimeout
  <2>3. Script!Reaped => Reaped
    BY DEF Script!Reaped, Reaped
  <2>4. Script!Kill => Kill
    BY DEF Script!Kill, Kill
  <2>5. QED BY <2>2, <2>3, <2>4
<1>6. Script!Driver => Uninterrupted
  BY <1>1, <1>2, <1>3, <1>4, <1>5 DEF Script!Driver, Uninterrupted
<1>7. ASSUME NEW p \in Processes, Script!Engine(p) PROVE Engine(p)
  <2> USE DEF Script!Leaves, Leaves, Script!Cut, Cut
  <2>1. Script!Connect(p) => Connect(p)
    BY DEF Script!Connect, Connect, Script!Message, Message, Script!Ready, Ready
  <2>2. Script!ConnectFails(p) => ConnectFails(p)
    BY DEF Script!ConnectFails, ConnectFails
  <2>3. Script!Read(p) => Read(p)
    <3>1. ASSUME NEW n \in 1..Len(toEngine[p]), Script!ReadPart(p, n) PROVE ReadPart(p, n)
      BY <3>1 DEF Script!ReadPart, ReadPart, Script!Complete, Complete, Script!Take, Take,
                  Script!Drop, Drop
    <3>2. ASSUME NEW n \in 1..Len(toEngine[p]), Script!ReadLine(p, n) PROVE ReadLine(p, n)
      BY <3>2 DEF Script!ReadLine, ReadLine, Script!Complete, Complete, Script!Take, Take,
                  Script!Drop, Drop, Script!FirstLine, FirstLine, Script!Message, Message,
                  Script!Requests, Requests
    <3>3. QED BY <3>1, <3>2 DEF Script!Read, Read
  <2>4. Script!ReadEnd(p) => ReadEnd(p)
    BY DEF Script!ReadEnd, ReadEnd
  <2>5. Script!Respond(p) => Respond(p)
    BY DEF Script!Respond, Respond, Script!Message, Message
  <2>6. Script!Die(p) => Die(p)
    BY DEF Script!Die, Die
  <2>7. Script!Gone(p) => Gone(p)
    BY DEF Script!Gone, Gone
  <2>8. QED BY <1>7, <2>1, <2>2, <2>3, <2>4, <2>5, <2>6, <2>7 DEF Script!Engine, Engine
<1>8. QED BY <1>6, <1>7 DEF Script!Next

LEMMA StepIs ==
  ASSUME MCNext
  PROVE  History /\ (Uninterrupted \/ (notebook /\ Interrupt) \/ \E p \in Processes : Engine(p))
BY ScriptIsUninterrupted DEF MCNext, History, Next, Driver, Uninterrupted

LEMMA InitIInv == MCInit => IInv
<1> SUFFICES ASSUME MCInit PROVE IInv
  OBVIOUS
<1> USE DEF MCInit, Init
<1>1. TypeOK
  <2>1. got \in Messages /\ asked \in 0..MaxCalls /\ executed \in 0..MaxCalls
    BY ConstantsOK DEF Messages, Exit
  <2>2. {conn, chan, proc} \subseteq 0..MaxLaunches
    BY ConstantsOK
  <2>3. work \in [Processes -> 0..MaxCalls]
    BY ConstantsOK
  <2>4. buf \in Seq(Pieces)
    BY EmptySeq
  <2>5. \A s \in {line, toEngine, toDriver} : s \in [Processes -> Seq(Pieces)]
    BY EmptySeq
  <2>6. QED BY <2>1, <2>2, <2>3, <2>4, <2>5 DEF TypeOK
<1>2. Phase /\ Links /\ Order /\ Clean
  <2>1. Phase
    <3>1. notebook \in BOOLEAN /\ interrupted \in BOOLEAN
      OBVIOUS
    <3>2. call = "none" /\ got <= asked
      OBVIOUS
    <3>3. QED BY <3>1, <3>2 DEF Phase
  <2>2. ASSUME NEW p \in Processes PROVE Linked(p)
    BY <2>2 DEF Linked, Live
  <2>3. QED BY <2>1, <2>2 DEF Links, Order, Clean
<1>3. AnswerIsToThisCallOnceClosed /\ OneEngine /\ Progress
  BY DEF AnswerIsToThisCallOnceClosed, AnswerIsToThisCall, OneEngine, NoOrphans, Alive, Progress
<1>4. QED BY <1>1, <1>2, <1>3 DEF IInv

LEMMA StutterIInv == IInv /\ UNCHANGED mcVars => IInv'
<1> SUFFICES ASSUME IInv, UNCHANGED mcVars PROVE IInv'
  OBVIOUS
<1> USE DEF IInv
<1>1. /\ UNCHANGED <<call, outcome, asked, got, started, server, conn, chan, buf, proc>>
      /\ UNCHANGED <<eng, work, line, executed, link, toEngine, toDriver, notebook, interrupted>>
  BY DEF mcVars, vars, driverVars, engineVars, wireVars
<1>2. TypeOK' /\ Phase'
  BY <1>1 DEF TypeOK, Phase
<1>3. /\ Inbound' = Inbound
      /\ \A p \in Processes : Outbound(p)' = Outbound(p) /\ Working(p)' = Working(p)
                                /\ (Live(p)' <=> Live(p)) /\ (Alive(p)' <=> Alive(p))
  BY <1>1 DEF Inbound, Outbound, Working, Live, Alive
<1>4. Links'
  BY <1>1 DEF Links, Linked, Live
<1>5. Order' /\ Clean' /\ AnswerIsToThisCallOnceClosed'
  BY <1>1, <1>3, StreamTypes DEF Order, Clean, AnswerIsToThisCallOnceClosed, AnswerIsToThisCall
<1>6. OneEngine'
  BY <1>1, <1>3 DEF OneEngine, NoOrphans
<1>7. Progress'
  <2>1. call = "await" => conn \in Processes
    BY StreamTypes DEF Phase
  <2>2. QED BY <1>1, <1>3, <2>1 DEF Progress
<1>8. QED BY <1>2, <1>4, <1>5, <1>6, <1>7

LEMMA NextIInv == IInv /\ [MCNext]_mcVars => IInv'
<1>1. ASSUME IInv, UNCHANGED mcVars PROVE IInv'
  BY <1>1, StutterIInv
<1>2. ASSUME IInv, MCNext PROVE IInv'
  <2>1. History /\ (Uninterrupted \/ (notebook /\ Interrupt) \/ \E p \in Processes : Engine(p))
    BY <1>2, StepIs
  <2>2. CASE Uninterrupted
    BY <1>2, <2>1, <2>2, ComputeIInv, LaunchIInv, LaunchFailsIInv, AcceptIInv, ReceiveIInv,
       HandshakeIInv, ConnectionLostIInv, SendEndsIInv, SendRequestIInv, AnsweredIInv,
       CloseSocketsIInv, ReapedIInv, KillIInv DEF Uninterrupted
  <2>3. CASE notebook /\ Interrupt
    BY <1>2, <2>1, <2>3, InterruptIInv
  <2>4. ASSUME NEW p \in Processes, Engine(p) PROVE IInv'
    <3>1. ASSUME NEW n \in 1..Len(toEngine[p]), ReadPart(p, n) \/ ReadLine(p, n) PROVE IInv'
      BY <1>2, <2>1, <3>1, ReadPartIInv, ReadLineIInv
    <3>2. QED BY <1>2, <2>1, <2>4, <3>1, ConnectIInv, EndsIInv, RespondIInv, GoneIInv DEF Engine, Read
  <2>5. QED BY <2>1, <2>2, <2>3, <2>4
<1>3. QED BY <1>1, <1>2

\* The invariant of a session: IInv holds in every state of the backend, its
\* engines and the streams between them.
THEOREM Invariance == MCSpec => []IInv
BY InitIInv, NextIInv, PTL DEF MCSpec

\* Whatever is called, interrupted, lost or killed, SocketBackend's attributes,
\* the engines and the bytes under way keep their types.
THEOREM TypeCorrect == MCSpec => []TypeOK
BY Invariance, PTL DEF IInv

\* Unless a call was interrupted and the backend not closed since, compute()
\* returns the response to its own request.
THEOREM AnswersAreToThisCall == MCSpec => []AnswerIsToThisCallOnceClosed
BY Invariance, PTL DEF IInv

LEMMA IInvReleases == IInv => ScriptsReleaseAll
<1>1. SUFFICES ASSUME IInv, ~notebook PROVE NoOrphans /\ CloseReleasesAll
  BY DEF ScriptsReleaseAll
<1>2. NoOrphans
  BY <1>1 DEF IInv, OneEngine
<1>3. ASSUME call = "none", outcome = "closed"
      PROVE  /\ ~server /\ conn = 0
             /\ \A p \in Processes : ~Alive(p) /\ link[p] \in {"none", "cut"}
  <2>1. ~server /\ conn = 0 /\ proc = 0
    BY <1>1, <1>3 DEF IInv, OneEngine
  <2>2. ASSUME NEW p \in Processes PROVE ~Alive(p) /\ link[p] \in {"none", "cut"}
    <3>1. ~Alive(p) /\ p # 0
      BY <1>1, <1>2, <2>1, StreamTypes DEF IInv, NoOrphans
    <3>2. Linked(p) /\ link[p] \in {"none", "queued", "open", "cut"}
      BY <1>1 DEF IInv, Links, TypeOK
    <3>3. eng[p] \in {"unborn", "exited"}
      BY <3>1 DEF Alive
    <3>4. link[p] # "queued"
      BY <3>2, <3>3 DEF Linked
    <3>5. link[p] # "open"
      BY <2>1, <3>1, <3>2 DEF Linked
    <3>6. QED BY <3>1, <3>2, <3>4, <3>5
  <2>3. QED BY <2>1, <2>2
<1>4. QED BY <1>2, <1>3 DEF CloseReleasesAll

\* A script's backend holds the only engine that runs, and a close() that returns
\* leaves no process, no listening socket and no connection behind.
THEOREM ScriptsRelease == MCSpec => []ScriptsReleaseAll
BY Invariance, IInvReleases, PTL

\* No response is returned twice, or after a later one, however many calls were
\* interrupted before: also a stale answer is later than the one before it.
THEOREM EveryAnswerIsLater == MCSpec => AnswersAdvance
<1>1. IInv /\ [MCNext]_mcVars => [Answered => got' > got]_vars
  <2> SUFFICES ASSUME IInv, Answered PROVE got' > got
    OBVIOUS
  <2>1. got < got' /\ got' \in Nat /\ got \in Nat
    BY AnsweredIs, StreamTypes DEF IInv
  <2>2. QED BY <2>1
<1>2. QED BY <1>1, Invariance, PTL DEF MCSpec, AnswersAdvance
-----------------------------------------------------------------------------
(***************************************************************************)
(* A script's session implements the remote procedure call, step by step.  *)
(***************************************************************************)
InCall == call \in {"launch", "accept", "handshake", "send", "await", "abandon"}

Asks ==
  ~InCall /\ InCall' /\ asked' = asked + 1 /\ executed' = executed /\ got' = got
Executes ==
  executed < asked /\ executed' = asked /\ asked' = asked /\ got' = got /\ (InCall' <=> InCall)
Answers ==
  /\ InCall /\ ~InCall' /\ executed = asked /\ got' = asked
  /\ asked' = asked /\ executed' = executed
Fails ==
  InCall /\ ~InCall' /\ asked' = asked /\ executed' = executed /\ got' = got
Idles ==
  (InCall' <=> InCall) /\ asked' = asked /\ executed' = executed /\ got' = got

\* The engine of a script takes up the request of the present call, once.
LEMMA ExecutesOnce ==
  ASSUME IInv, ~notebook, NEW p \in Processes, NEW n \in 1..Len(toEngine[p]), ReadLine(p, n)
  PROVE  Executes \/ Idles
<1> DEFINE data == line[p] \o Take(toEngine[p], n)
           first == Take(data, FirstLine(data))
<1> USE DEF IInv
<1>1. /\ UNCHANGED driverVars /\ eng[p] = "reading"
      /\ \/ \E r \in Requests : first = Message(r) /\ executed' = r
         \/ executed' = executed
  BY DEF ReadLine
<1>2. asked' = asked /\ got' = got /\ (InCall' <=> InCall)
  BY <1>1 DEF driverVars, InCall
<1>3. ASSUME NEW r \in Requests, first = Message(r) PROVE r = asked /\ executed < asked
  <2>1. r \in Numbers(Outbound(p))
    BY <1>3, RequestRead
  <2>2. r # Exit /\ r \in Nat
    BY ConstantsOK DEF Requests, Exit
  <2>3. p = conn /\ Live(p) /\ conn # 0 /\ ~interrupted
    BY <1>1, <2>1, <2>2, StreamTypes DEF OneEngine, Live
  <2>4. call = "await"
    BY <2>1, <2>3 DEF Clean, Order, Phase
  <2>5. QED BY <2>1, <2>3, <2>4 DEF Clean, Progress
<1>4. QED BY <1>1, <1>2, <1>3 DEF Executes, Idles

LEMMA ScriptStep ==
  ASSUME IInv, ~notebook, MCNext
  PROVE  Asks \/ Executes \/ Answers \/ Fails \/ Idles
<1> USE DEF InCall
<1>1. CASE Uninterrupted
  <2>1. CASE Compute
    BY <2>1 DEF Compute, Asks, engineVars
  <2>2. CASE LaunchFails \/ ConnectionLost \/ FindsExited \/ SendFails
    BY <2>2 DEF LaunchFails, ConnectionLost, FindsExited, SendFails, Returns, Fails, engineVars
  <2>3. CASE Answered
    <3>1. call = "await" /\ call' = "none" /\ asked' = asked /\ executed' = executed
      BY <2>3 DEF Answered, Returns, engineVars
    <3>2. got' \in Numbers(Inbound) /\ conn # 0 /\ ~interrupted
      BY <2>3, AnsweredIs DEF IInv, OneEngine
    <3>3. got' = asked /\ executed = asked
      BY <3>1, <3>2 DEF IInv, Clean, Progress
    <3>4. QED BY <3>1, <3>3 DEF Answers
  <2>4. CASE Reaped
    BY <2>4 DEF Reaped, Returns, Fails, Idles, engineVars
  <2>5. CASE Launch \/ Accept \/ Handshake \/ SendRequest \/ Kill
    BY <2>5 DEF Launch, Accept, Handshake, SendRequest, Kill, Idles, engineVars, driverVars
  <2>6. CASE ReceiveSome
    BY <2>6 DEF ReceiveSome, Receive, Idles, engineVars
  <2>7. CASE Close \/ AcceptTimeout
    BY <2>7 DEF Close, AcceptTimeout, CloseSockets, Idles, engineVars
  <2>8. QED BY <1>1, <2>1, <2>2, <2>3, <2>4, <2>5, <2>6, <2>7 DEF Uninterrupted
<1>2. ASSUME NEW p \in Processes, Engine(p) PROVE Executes \/ Idles
  <2>1. CASE Read(p)
    <3>1. PICK n \in 1..Len(toEngine[p]) : ReadPart(p, n) \/ ReadLine(p, n)
      BY <2>1 DEF Read
    <3>2. ReadPart(p, n) => Idles
      BY DEF ReadPart, Idles, driverVars
    <3>3. QED BY <3>1, <3>2, ExecutesOnce
  <2>2. CASE Connect(p) \/ ConnectFails(p) \/ ReadEnd(p) \/ Respond(p) \/ Die(p) \/ Gone(p)
    BY <2>2 DEF Connect, ConnectFails, ReadEnd, Respond, Die, Gone, Idles, driverVars
  <2>3. QED BY <1>2, <2>1, <2>2 DEF Engine
<1>3. Uninterrupted \/ \E p \in Processes : Engine(p)
  BY StepIs
<1>4. QED BY <1>1, <1>2, <1>3

LEMMA RemoteCallStep ==
  ASSUME IInv, [MCNext]_mcVars
  PROVE  [RemoteCall!Next]_(RemoteCall!vars)
<1>1. ASSUME UNCHANGED mcVars PROVE UNCHANGED RemoteCall!vars
  BY <1>1 DEF mcVars, vars, driverVars, engineVars, RemoteCall!vars
<1>2. ASSUME MCNext, notebook PROVE UNCHANGED RemoteCall!vars
  <2>1. notebook'
    BY <1>2 DEF MCNext
  <2>2. QED BY <1>2, <2>1 DEF RemoteCall!vars
<1>3. ASSUME MCNext, ~notebook PROVE [RemoteCall!Next]_(RemoteCall!vars)
  <2>1. Asks \/ Executes \/ Answers \/ Fails \/ Idles
    BY <1>3, ScriptStep
  <2>2. ~notebook'
    BY <1>3 DEF MCNext
  <2>3. CASE Asks
    BY <1>3, <2>2, <2>3 DEF Asks, InCall, RemoteCall!Next, RemoteCall!Ask
  <2>4. CASE Executes
    BY <1>3, <2>2, <2>4 DEF Executes, InCall, RemoteCall!Next, RemoteCall!Execute
  <2>5. CASE Answers
    BY <1>3, <2>2, <2>5 DEF Answers, InCall, RemoteCall!Next, RemoteCall!Answer
  <2>6. CASE Fails
    BY <1>3, <2>2, <2>6 DEF Fails, InCall, RemoteCall!Next, RemoteCall!Fail
  <2>7. CASE Idles
    BY <1>3, <2>2, <2>7 DEF Idles, InCall, RemoteCall!vars
  <2>8. QED BY <2>1, <2>3, <2>4, <2>5, <2>6, <2>7
<1>4. QED BY <1>1, <1>2, <1>3

\* compute() of a script is a remote procedure call: every step of the backend, the
\* engines and the streams is a step of RequestResponse or leaves it alone, so a
\* request is executed at most once and an answer is the answer to that call.
THEOREM ScriptsCallIsRemote ==
  MCSpec => RemoteCall!Init /\ [][RemoteCall!Next]_(RemoteCall!vars)
<1>1. MCInit => RemoteCall!Init
  BY DEF MCInit, Init, RemoteCall!Init
<1>2. IInv /\ [MCNext]_mcVars => [RemoteCall!Next]_(RemoteCall!vars)
  BY RemoteCallStep
<1>3. QED BY <1>1, <1>2, Invariance, PTL DEF MCSpec
==============================================================================
