--------------------------- MODULE HashChainProofs ---------------------------
(***************************************************************************)
(* Facts about audit files that hold whatever wrote them: the head of a    *)
(* chain that verifies determines everything the file says.                *)
(***************************************************************************)
EXTENDS HashChain, Integers, TLAPS, WellFoundedInduction, SequenceTheorems

NatLess == {p \in Nat \X Nat : p[1] < p[2]}

\* The order of the natural numbers, as a relation the library's theorems on
\* well-founded relations can be cited for.
LEMMA NatLessWellFounded == IsWellFoundedOn(NatLess, Nat)
BY NatLessThanWellFounded DEF OpToRel, NatLess

\* The least-number principle for sets; it stands in for induction on lines.
LEMMA LeastElement ==
  ASSUME NEW T, T \subseteq Nat, T # {}
  PROVE  \E x \in T : \A y \in T : x <= y
<1>1. PICK x \in T : \A y \in T : ~(<<y, x>> \in NatLess)
  BY NatLessWellFounded, WFMin
<1>2. ASSUME NEW y \in T PROVE x <= y
  <2>1. x \in Nat /\ y \in Nat
    OBVIOUS
  <2>2. SUFFICES ASSUME y < x PROVE FALSE
    BY <2>1
  <2>3. <<y, x>> \in Nat \X Nat
    BY <2>1
  <2>4. <<y, x>> \in NatLess
    BY <2>2, <2>3 DEF NatLess
  <2>5. QED BY <1>1, <2>4
<1>3. QED BY <1>2

\* Digests are digests.
LEMMA HashType ==
  ASSUME NEW prev \in Hash, NEW body \in Body
  PROVE  HashOf(prev, body) \in Hash
BY DEF Hash, HashOf

\* The line append builds is a line.
LEMMA EventLineType ==
  ASSUME NEW prev \in Hash, NEW body \in Body
  PROVE  EventLine(prev, body) \in Line
BY HashType DEF EventLine, Line

\* Text joined to a line makes a line, which is no JSON.
LEMMA JoinedType ==
  ASSUME NEW line \in Line, NEW more \in Line
  PROVE  Joined(line, more) \in Line /\ ~Parses(Joined(line, more))
<1>1. line.joined \in Seq(Hash) /\ more.hash \in Hash /\ more.eol \in BOOLEAN
  BY DEF Line
<1>2. Append(line.joined, more.hash) \in Seq(Hash)
  BY <1>1
<1>3. Append(line.joined, more.hash) # << >>
  BY <1>1
<1>4. QED BY <1>1, <1>2, <1>3 DEF Joined, Line, Parses

\* What is left of a line is a line, without its newline.
LEMMA CutShortType ==
  ASSUME NEW line \in Line, NEW part \in CutShort(line)
  PROVE  part \in Line /\ ~part.eol /\ part.prev = line.prev
<1>1. \A n \in 0..Len(line.joined) : SubSeq(line.joined, 1, n) \in Seq(Hash)
  <2>1. line.joined \in Seq(Hash)
    BY DEF Line
  <2>2. QED BY <2>1
<1>2. << >> \in Seq(Hash)
  OBVIOUS
<1>3. QED BY <1>1, <1>2 DEF CutShort, Line

\* Writing to a file leaves a file, at most one line longer.
LEMMA PutType ==
  ASSUME NEW f \in Seq(Line), NEW line \in Line
  PROVE  Put(f, line) \in Seq(Line)
<1>1. CASE f # << >> /\ ~f[Len(f)].eol
  <2>1. Len(f) \in 1..Len(f)
    BY <1>1
  <2>2. Joined(f[Len(f)], line) \in Line
    BY <2>1, JoinedType
  <2>3. [f EXCEPT ![Len(f)] = Joined(f[Len(f)], line)] \in Seq(Line)
    BY <2>1, <2>2, ExceptSeq
  <2>4. QED BY <1>1, <2>3 DEF Put
<1>2. CASE ~(f # << >> /\ ~f[Len(f)].eol)
  BY <1>2 DEF Put
<1>3. QED BY <1>1, <1>2

\* In a chain that verifies, the digest of a line is the history up to it.
LEMMA LineHashIsHistory ==
  ASSUME NEW f \in Seq(Line), ChainOK(f)
  PROVE  \A i \in 1..Len(f) : f[i].hash = [j \in 1..i |-> f[j].body]
<1> DEFINE T == {i \in 1..Len(f) : f[i].hash # [j \in 1..i |-> f[j].body]}
<1>1. SUFFICES ASSUME T # {} PROVE FALSE
  OBVIOUS
<1>2. T \subseteq Nat
  OBVIOUS
<1>3. PICK i \in T : \A k \in T : i <= k
  <2> HIDE DEF T
  <2> QED BY <1>1, <1>2, LeastElement
<1>4. i \in 1..Len(f) /\ f[i] \in Line
  OBVIOUS
<1>5. /\ f[i].prev = ExpectedPrev(f, i)
      /\ f[i].hash = Append(f[i].prev, f[i].body)
  BY <1>4 DEF ChainOK, LineAccepted, HashOf
<1>6. CASE i = 1
  <2>1. f[i].hash = <<f[1].body>>
    BY <1>5, <1>6 DEF ExpectedPrev, Genesis
  <2>2. [j \in 1..1 |-> f[j].body] = <<f[1].body>>
    OBVIOUS
  <2>3. QED BY <1>6, <2>1, <2>2
<1>7. CASE i # 1
  <2>1. i - 1 \in 1..Len(f) /\ i - 1 < i
    BY <1>4, <1>7
  <2>2. f[i - 1].hash = [j \in 1..(i - 1) |-> f[j].body]
    BY <1>3, <2>1
  <2>3. f[i].prev = [j \in 1..(i - 1) |-> f[j].body]
    BY <1>5, <1>7, <2>2 DEF ExpectedPrev
  <2>4. Append([j \in 1..(i - 1) |-> f[j].body], f[i].body)
          = [j \in 1..i |-> f[j].body]
    BY <2>1
  <2>5. QED BY <1>5, <2>3, <2>4
<1>8. QED BY <1>6, <1>7

\* What the loop has after i lines, said without a loop.
AfterLines(f, i) ==
  [ok       |-> \A j \in 1..i : LineAccepted(f, j),
   expected |-> IF i = 0 THEN Genesis ELSE HashOf(f[i].prev, f[i].body)]

\* A line that is accepted after accepted lines is one the loop goes on from.
LEMMA ScanRound ==
  ASSUME NEW f \in Seq(Line), NEW i \in 1..Len(f)
  PROVE  AfterLines(f, i) = ScanLine(AfterLines(f, i - 1), f[i])
<1> DEFINE before == \A j \in 1..(i - 1) : LineAccepted(f, j)
           expected == IF i - 1 = 0 THEN Genesis ELSE HashOf(f[i - 1].prev, f[i - 1].body)
<1>1. (\A j \in 1..i : LineAccepted(f, j)) <=> before /\ LineAccepted(f, i)
  OBVIOUS
<1>2. before => expected = ExpectedPrev(f, i)
  <2>1. i # 1 => i - 1 \in 1..(i - 1)
    OBVIOUS
  <2>2. QED BY <2>1 DEF ExpectedPrev, LineAccepted
<1>3. AfterLines(f, i - 1) = [ok |-> before, expected |-> expected]
  BY DEF AfterLines
<1>4. AfterLines(f, i) = [ok |-> before /\ LineAccepted(f, i),
                          expected |-> HashOf(f[i].prev, f[i].body)]
  <2>1. (\A j \in 1..i : LineAccepted(f, j)) = (before /\ LineAccepted(f, i))
    BY <1>1
  <2>2. i # 0
    OBVIOUS
  <2> HIDE DEF before
  <2>3. QED BY Zenon, <2>1, <2>2 DEF AfterLines
<1> HIDE DEF before, expected
<1>5. ScanLine(AfterLines(f, i - 1), f[i]) =
        [ok |-> before /\ Parses(f[i]) /\ f[i].prev = expected
                  /\ f[i].hash = HashOf(f[i].prev, f[i].body),
         expected |-> HashOf(f[i].prev, f[i].body)]
  BY <1>3 DEF ScanLine
<1>6. before /\ LineAccepted(f, i) <=>
        before /\ Parses(f[i]) /\ f[i].prev = expected
          /\ f[i].hash = HashOf(f[i].prev, f[i].body)
  BY <1>2 DEF LineAccepted
<1>7. QED BY <1>4, <1>5, <1>6

\* The loop of verify_audit_chain, on any file of any length: it accepts exactly the
\* files that ChainOK accepts, and what it carries in the end is their HeadHash.
THEOREM ScanDecidesChain ==
  ASSUME NEW f \in Seq(Line)
  PROVE  /\ ChainScan(f).ok <=> ChainOK(f)
         /\ ChainOK(f) => ChainScan(f).expected = HeadHash(f)
<1> DEFINE after[i \in 0..Len(f)] ==
             IF i = 0 THEN [ok |-> TRUE, expected |-> Genesis] ELSE ScanLine(after[i - 1], f[i])
           closed == [i \in 0..Len(f) |-> AfterLines(f, i)]
<1>1. \A i \in 0..Len(f) :
        closed[i] = IF i = 0 THEN [ok |-> TRUE, expected |-> Genesis]
                    ELSE ScanLine(closed[i - 1], f[i])
  <2>1. closed[0] = [ok |-> TRUE, expected |-> Genesis]
    <3>1. (\A j \in 1..0 : LineAccepted(f, j)) = TRUE /\ 0 \in 0..Len(f)
      OBVIOUS
    <3>2. QED BY Zenon, <3>1 DEF AfterLines
  <2>2. ASSUME NEW i \in 1..Len(f) PROVE closed[i] = ScanLine(closed[i - 1], f[i])
    BY ScanRound
  <2> HIDE DEF closed
  <2>3. QED BY <2>1, <2>2
<1>2. closed = [i \in 0..Len(f) |-> IF i = 0 THEN [ok |-> TRUE, expected |-> Genesis]
                                   ELSE ScanLine(closed[i - 1], f[i])]
  BY <1>1
<1>3. after = [i \in 0..Len(f) |-> IF i = 0 THEN [ok |-> TRUE, expected |-> Genesis]
                                  ELSE ScanLine(after[i - 1], f[i])]
  <2> HIDE DEF closed
  <2>1. QED BY Zenon, <1>2 DEF after
<1> HIDE DEF after, closed
<1>4. \A i \in 0..Len(f) : after[i] = closed[i]
  <2> DEFINE T == {i \in 0..Len(f) : after[i] # closed[i]}
  <2>1. SUFFICES ASSUME T # {} PROVE FALSE
    OBVIOUS
  <2>2. PICK i \in T : \A k \in T : i <= k
    <3>1. T \subseteq Nat
      OBVIOUS
    <3> HIDE DEF T
    <3>2. QED BY <2>1, <3>1, LeastElement
  <2>3. i # 0
    BY <1>1, <1>3
  <2>4. i - 1 \in 0..Len(f) /\ i - 1 \notin T
    BY <2>2, <2>3
  <2>5. QED BY <1>1, <1>3, <2>2, <2>3, <2>4
<1>5. ChainScan(f) = AfterLines(f, Len(f))
  <2>1. ChainScan(f) = after[Len(f)]
    BY DEF ChainScan, after
  <2>2. Len(f) \in 0..Len(f)
    OBVIOUS
  <2>3. QED BY <1>4, <2>1, <2>2 DEF closed
<1>6. ChainScan(f).ok <=> ChainOK(f)
  BY <1>5 DEF AfterLines, ChainOK
<1>7. ASSUME ChainOK(f) PROVE ChainScan(f).expected = HeadHash(f)
  <2>1. Len(f) \in Nat /\ (Len(f) = 0 <=> f = << >>)
    OBVIOUS
  <2>2. CASE f = << >>
    BY <1>5, <2>2, <2>1 DEF AfterLines, HeadHash
  <2>3. CASE f # << >>
    <3>1. LineAccepted(f, Len(f))
      BY <1>7, <2>1, <2>3 DEF ChainOK
    <3>2. QED BY <1>5, <2>1, <2>3, <3>1 DEF AfterLines, HeadHash, LineAccepted
  <2>4. QED BY <2>2, <2>3
<1>8. QED BY <1>6, <1>7

\* The head of a chain that verifies is the whole history the file tells, so
\* two files that verify with one head say the same: what a seal's audit head
\* relies on.
THEOREM HeadIsHistory ==
  ASSUME NEW f \in Seq(Line), ChainOK(f)
  PROVE  HeadHash(f) = Bodies(f)
<1>1. CASE f = << >>
  BY <1>1 DEF HeadHash, Genesis, Bodies
<1>2. CASE f # << >>
  <2>1. Len(f) \in 1..Len(f)
    BY <1>2
  <2>2. QED BY <1>2, <2>1, LineHashIsHistory DEF HeadHash, Bodies
<1>3. QED BY <1>1, <1>2
=============================================================================
