--------------------------- MODULE AuditLogProofs ---------------------------
(* Theorems about AuditLog, for any processes, bodies and bounds. *)
EXTENDS AuditLog, HashChainProofs

-----------------------------------------------------------------------------
(* What the operators of AuditLog return *)

\* A session that is writing has a line to write.
LEMMA PendingType ==
  ASSUME TypeOK, SessionChained,
         NEW p \in Proc, session[p].status = "writing"
  PROVE  Pending(session[p]) \in Line
<1>1. session[p].events \in Seq(Line) /\ session[p].events # << >>
  BY DEF TypeOK, SessionChained, Session
<1>2. Len(session[p].events) \in 1..Len(session[p].events)
  BY <1>1
<1>3. QED BY <1>1, <1>2 DEF Pending

\* An edited line is a line.
LEMMA EditedType ==
  ASSUME NEW line \in Line, NEW b \in Body
  PROVE  Edited(line, b) \in Line
BY DEF Edited, Line

\* Damage leaves a file of lines.
LEMMA DamageType ==
  ASSUME TypeOK, Damage
  PROVE  file' \in Seq(Line)
<1>1. file \in Seq(Line)
  BY DEF TypeOK
<1>2. PICK i \in 1..Len(file) :
       \/ \E b \in Body : file' = [file EXCEPT ![i] = Edited(@, b)]
       \/ \E b \in Body : file' = [file EXCEPT ![i] = EventLine(@.prev, b)]
       \/ file' = SubSeq(file, 1, i - 1) \o SubSeq(file, i + 1, Len(file))
       \/ file' = SubSeq(file, 1, i) \o SubSeq(file, i, Len(file))
       \/ /\ i < Len(file)
          /\ file' = [file EXCEPT ![i] = file[i + 1], ![i + 1] = file[i]]
  BY DEF Damage
<1>3. file[i] \in Line /\ \A k \in 1..Len(file) : file[k] \in Line
  BY <1>1
<1>4. CASE \E b \in Body : file' = [file EXCEPT ![i] = Edited(@, b)]
  BY <1>1, <1>3, <1>4, EditedType, ExceptSeq
<1>5. CASE \E b \in Body : file' = [file EXCEPT ![i] = EventLine(@.prev, b)]
  <2>1. file[i].prev \in Hash
    BY <1>3 DEF Line
  <2>2. QED BY <1>1, <1>3, <1>5, <2>1, EventLineType, ExceptSeq
<1>6. CASE file' = SubSeq(file, 1, i - 1) \o SubSeq(file, i + 1, Len(file))
  <2>1. SubSeq(file, 1, i - 1) \in Seq(Line)
    BY <1>3, SubSeqProperties
  <2>2. SubSeq(file, i + 1, Len(file)) \in Seq(Line)
    BY <1>1, <1>3, SubSeqProperties
  <2>3. QED BY <1>6, <2>1, <2>2, ConcatProperties
<1>7. CASE file' = SubSeq(file, 1, i) \o SubSeq(file, i, Len(file))
  <2>1. SubSeq(file, 1, i) \in Seq(Line)
    BY <1>3, SubSeqProperties
  <2>2. SubSeq(file, i, Len(file)) \in Seq(Line)
    BY <1>1, <1>3, SubSeqProperties
  <2>3. QED BY <1>7, <2>1, <2>2, ConcatProperties
<1>8. CASE /\ i < Len(file)
           /\ file' = [file EXCEPT ![i] = file[i + 1], ![i + 1] = file[i]]
  <2> DEFINE h == [file EXCEPT ![i] = file[i + 1]]
  <2>1. i + 1 \in 1..Len(file) /\ file[i + 1] \in Line
    BY <1>1, <1>3, <1>8
  <2>2. h \in Seq(Line) /\ Len(h) = Len(file)
    BY <1>1, <2>1, ExceptSeq
  <2>3. [h EXCEPT ![i + 1] = file[i]] \in Seq(Line)
    <3> HIDE DEF h
    <3> QED BY <1>3, <2>1, <2>2, ExceptSeq
  <2>4. QED BY <1>8, <2>3
<1>9. QED BY <1>2, <1>4, <1>5, <1>6, <1>7, <1>8

\* Writing, whole or in part, leaves a file of lines and a history of numbers.
LEMMA WriteType ==
  ASSUME TypeOK, NEW line \in Line, NEW p \in Proc
  PROVE  /\ Put(file, line) \in Seq(Line)
         /\ Credit(Put(file, line), session[p].sid) \in Seq(Nat)
         /\ Credit(file, session[p].sid) = writers
<1>1. file \in Seq(Line) /\ session[p].sid \in Nat /\ writers \in Seq(Nat)
  BY DEF TypeOK, Session
<1>2. QED BY <1>1, PutType DEF Credit

\* Appending an event built on the head keeps a chain a chain.
LEMMA ExtendChain ==
  ASSUME NEW f \in Seq(Line), ChainOK(f), NEW b \in Body
  PROVE  LET g == Append(f, EventLine(HeadHash(f), b))
         IN  ChainOK(g) /\ HeadHash(g) = HashOf(HeadHash(f), b) /\ g # << >>
<1> DEFINE e == EventLine(HeadHash(f), b)
           g == Append(f, e)
<1>1. /\ Len(g) = Len(f) + 1 /\ g[Len(f) + 1] = e
      /\ \A i \in 1..Len(f) : g[i] = f[i]
      /\ g # << >>
  <2> HIDE DEF e
  <2> QED OBVIOUS
<1>2. /\ Parses(e) /\ e.prev = HeadHash(f) /\ e.body = b
      /\ e.hash = HashOf(HeadHash(f), b)
  BY DEF EventLine, Parses
<1> HIDE DEF e, g
<1>3. ASSUME NEW i \in 1..Len(g) PROVE LineAccepted(g, i)
  <2>1. CASE i \in 1..Len(f)
    <3>1. LineAccepted(f, i)
      BY <2>1 DEF ChainOK
    <3>2. ExpectedPrev(g, i) = ExpectedPrev(f, i)
      BY <1>1, <2>1 DEF ExpectedPrev
    <3>3. g[i] = f[i]
      BY <1>1, <2>1
    <3>4. QED BY <3>1, <3>2, <3>3 DEF LineAccepted
  <2>2. CASE i = Len(f) + 1
    <3>1. ExpectedPrev(g, i) = HeadHash(f)
      <4>1. CASE f = << >>
        BY <2>2, <4>1 DEF ExpectedPrev, HeadHash
      <4>2. CASE f # << >>
        <5>1. Len(f) \in 1..Len(f) /\ i # 1 /\ i - 1 = Len(f)
          BY <2>2, <4>2
        <5>2. QED BY <1>1, <4>2, <5>1 DEF ExpectedPrev, HeadHash
      <4>3. QED BY <4>1, <4>2
    <3>2. QED BY <1>1, <1>2, <2>2, <3>1 DEF LineAccepted
  <2>3. QED BY <1>1, <2>1, <2>2
<1>4. ChainOK(g)
  BY <1>3 DEF ChainOK
<1>5. HeadHash(g) = HashOf(HeadHash(f), b)
  BY <1>1, <1>2 DEF HeadHash
<1>6. QED BY <1>1, <1>4, <1>5 DEF g, e

-----------------------------------------------------------------------------
(* Types, and the object in memory *)

IInv == TypeOK /\ SessionChained

\* A new object has no events and the initial hash.
LEMMA FreshSession ==
  /\ Genesis \in Hash
  /\ << >> \in Seq(Line)
  /\ ChainOK(<< >>)
  /\ HeadHash(<< >>) = Genesis
BY DEF Genesis, Hash, ChainOK, HeadHash

LEMMA InitIInv == Init => IInv
<1> SUFFICES ASSUME Init PROVE IInv
  OBVIOUS
<1>1. NoSession \in Session
  BY FreshSession DEF NoSession, Session, Status
<1>2. TypeOK
  BY <1>1 DEF Init, TypeOK
<1>3. SessionChained
  BY FreshSession DEF Init, SessionChained, NoSession
<1>4. QED BY <1>2, <1>3 DEF IInv

\* A step that gives p a session that is chained keeps the invariant on memory.
LEMMA UpdateSession ==
  ASSUME IInv, NEW p \in Proc, NEW s \in Session,
         session' = [session EXCEPT ![p] = s],
         ChainOK(s.events), s.prev = HeadHash(s.events),
         s.status = "writing" => s.events # << >>
  PROVE  session' \in [Proc -> Session] /\ SessionChained'
BY DEF IInv, TypeOK, SessionChained

\* A status change that does not start a write keeps it too.
LEMMA UpdateStatus ==
  ASSUME IInv, NEW p \in Proc, NEW st \in Status, st # "writing",
         session' = [session EXCEPT ![p].status = st]
  PROVE  session' \in [Proc -> Session] /\ SessionChained'
<1> DEFINE s == [status |-> st, prev |-> session[p].prev,
                 events |-> session[p].events, sid |-> session[p].sid]
<1>1. session[p] \in Session /\ session \in [Proc -> Session]
  BY DEF IInv, TypeOK
<1>2. s \in Session
  BY <1>1 DEF Session
<1>3. [session[p] EXCEPT !.status = st] = s
  BY <1>1 DEF Session
<1>4. session' = [session EXCEPT ![p] = s]
  <2> HIDE DEF s
  <2> QED BY <1>3
<1>5. ChainOK(s.events) /\ s.prev = HeadHash(s.events) /\ s.status # "writing"
  BY DEF IInv, SessionChained
<1> HIDE DEF s
<1>6. QED BY <1>2, <1>4, <1>5, UpdateSession

\* What a partial write leaves.
LEMMA PartialWriteType ==
  ASSUME IInv, NEW p \in Proc, session[p].status = "writing", PartialWrite(p)
  PROVE  /\ file' \in Seq(Line)
         /\ writers' \in Seq(Nat)
         /\ file' = file \/ \E line \in Line : file' = Put(file, line)
<1>1. Pending(session[p]) \in Line
  BY PendingType DEF IInv
<1>2. CASE file' = file
  BY <1>2, <1>1, WriteType DEF PartialWrite, IInv, TypeOK
<1>3. CASE \E part \in CutShort(Pending(session[p])) : file' = Put(file, part)
  BY <1>3, <1>1, WriteType, CutShortType DEF PartialWrite, IInv
<1>4. QED BY <1>2, <1>3 DEF PartialWrite

LEMMA StepIInv == IInv /\ [Next]_vars => IInv'
<1> SUFFICES ASSUME IInv, [Next]_vars PROVE IInv'
  OBVIOUS
<1> USE DEF IInv
<1>1. ASSUME NEW p \in Proc, Open(p) PROVE IInv'
  <2> DEFINE s == [status |-> "open", prev |-> Genesis, events |-> << >>, sid |-> opens']
  <2>1. opens' \in Nat
    BY <1>1 DEF Open, TypeOK
  <2>2. s \in Session
    BY <2>1, FreshSession DEF Session, Status
  <2>3. session' = [session EXCEPT ![p] = s]
    BY <1>1 DEF Open
  <2>4. session' \in [Proc -> Session] /\ SessionChained'
    BY <2>2, <2>3, FreshSession, UpdateSession
  <2>5. QED BY <1>1, <2>1, <2>4 DEF Open, TypeOK
<1>2. ASSUME NEW p \in Proc, NEW b \in Body, Prepare(p, b) PROVE IInv'
  <2> DEFINE s == [status |-> "writing", prev |-> HashOf(session[p].prev, b),
                   events |-> Append(session[p].events, EventLine(session[p].prev, b)),
                   sid |-> session[p].sid]
  <2>1. session[p] \in Session
    BY DEF TypeOK
  <2>2. /\ session[p].prev \in Hash /\ session[p].events \in Seq(Line)
        /\ session[p].sid \in Nat
    BY <2>1 DEF Session
  <2>3. EventLine(session[p].prev, b) \in Line /\ HashOf(session[p].prev, b) \in Hash
    BY <2>2, EventLineType, HashType
  <2>4. s \in Session
    BY <2>2, <2>3 DEF Session, Status
  <2>5. session' = [session EXCEPT ![p] = s]
    BY <1>2 DEF Prepare
  <2>6. ChainOK(s.events) /\ s.prev = HeadHash(s.events) /\ s.events # << >>
    BY <2>2, ExtendChain DEF SessionChained
  <2>7. session' \in [Proc -> Session] /\ SessionChained'
    <3> HIDE DEF s
    <3> QED BY <2>4, <2>5, <2>6, UpdateSession
  <2>8. QED BY <1>2, <2>7 DEF Prepare, TypeOK
<1>3. ASSUME NEW p \in Proc, Write(p) PROVE IInv'
  <2>1. session' \in [Proc -> Session] /\ SessionChained'
    BY <1>3, UpdateStatus DEF Write, Status
  <2>2. file' \in Seq(Line) /\ writers' \in Seq(Nat)
    BY <1>3, PendingType, WriteType DEF Write
  <2>3. QED BY <1>3, <2>1, <2>2 DEF Write, TypeOK
<1>4. ASSUME NEW p \in Proc, WriteFails(p) PROVE IInv'
  <2>1. session' \in [Proc -> Session] /\ SessionChained'
    BY <1>4, UpdateStatus DEF WriteFails, Status
  <2>2. file' \in Seq(Line) /\ writers' \in Seq(Nat)
    BY <1>4, PartialWriteType DEF WriteFails
  <2>3. QED BY <1>4, <2>1, <2>2 DEF WriteFails, TypeOK
<1>5. ASSUME NEW p \in Proc, Crash(p) PROVE IInv'
  <2>1. NoSession \in Session
    BY FreshSession DEF NoSession, Session, Status
  <2>2. session' \in [Proc -> Session] /\ SessionChained'
    BY <1>5, <2>1, FreshSession, UpdateSession DEF Crash, NoSession
  <2>3. file' \in Seq(Line) /\ writers' \in Seq(Nat)
    BY <1>5, PartialWriteType DEF Crash, TypeOK
  <2>4. QED BY <1>5, <2>2, <2>3 DEF Crash, TypeOK
<1>6. ASSUME NEW p \in Proc, Finish(p) PROVE IInv'
  <2>1. session' \in [Proc -> Session] /\ SessionChained'
    BY <1>6, UpdateStatus DEF Finish, Status
  <2>2. QED BY <1>6, <2>1 DEF Finish, TypeOK
<1>7. CASE Damage
  <2>1. file' \in Seq(Line)
    BY <1>7, DamageType
  <2>2. faults' = faults + 1 /\ UNCHANGED <<session, opens, writers>>
    BY <1>7 DEF Damage
  <2>3. QED BY <2>1, <2>2 DEF TypeOK, SessionChained
<1>8. CASE UNCHANGED vars
  BY <1>8 DEF vars, TypeOK, SessionChained
<1>9. QED BY <1>1, <1>2, <1>3, <1>4, <1>5, <1>6, <1>7, <1>8 DEF Next

LEMMA Invariance == Spec => []IInv
BY InitIInv, StepIInv, PTL DEF Spec

\* Every variable keeps its type.
THEOREM TypeCorrect == Spec => []TypeOK
<1>1. IInv => TypeOK
  BY DEF IInv
<1>2. QED BY <1>1, Invariance, PTL

\* What the verifier's loop says of a file is what ChainOK and HeadHash say.
THEOREM ScanDecides == Spec => []ScanIsChainOK
<1>1. TypeOK => ScanIsChainOK
  BY ScanDecidesChain DEF TypeOK, ScanIsChainOK
<1>2. QED BY <1>1, TypeCorrect, PTL

-----------------------------------------------------------------------------
(* The head binds the history *)

\* Two chains with one head tell one history; the session's own events are a
\* chain whose head it holds, whatever the file has been through.
THEOREM Binding == Spec => []HeadBindsHistory
<1>1. IInv => HeadBindsHistory
  <2> SUFFICES ASSUME IInv, NEW p \in Proc, ChainOK(file),
                      HeadHash(file) = session[p].prev
               PROVE  Bodies(file) = Bodies(session[p].events)
    BY DEF HeadBindsHistory
  <2>1. file \in Seq(Line) /\ session[p].events \in Seq(Line)
    BY DEF IInv, TypeOK, Session
  <2>2. HeadHash(file) = Bodies(file)
    BY <2>1, HeadIsHistory
  <2>3. HeadHash(session[p].events) = Bodies(session[p].events)
    BY <2>1, HeadIsHistory DEF IInv, SessionChained
  <2>4. QED BY <2>2, <2>3 DEF IInv, SessionChained
<1>2. QED BY <1>1, Invariance, PTL

-----------------------------------------------------------------------------
(* What the log itself can do to a file *)

\* A broken chain with more text at its end is a broken chain.
LEMMA PutKeepsBroken ==
  ASSUME NEW f \in Seq(Line), NEW line \in Line, ~ChainOK(f)
  PROVE  ~ChainOK(Put(f, line))
<1>1. PICK i \in 1..Len(f) : ~LineAccepted(f, i)
  BY DEF ChainOK
<1>2. CASE f # << >> /\ ~f[Len(f)].eol
  <2> DEFINE j == Joined(f[Len(f)], line)
             g == [f EXCEPT ![Len(f)] = j]
  <2>1. Len(f) \in 1..Len(f)
    BY <1>2
  <2>2. g \in Seq(Line) /\ Len(g) = Len(f) /\ g[Len(f)] = j
    BY <2>1, JoinedType, ExceptSeq
  <2>3. ~Parses(j)
    BY <2>1, JoinedType
  <2> HIDE DEF g, j
  <2>4. ~LineAccepted(g, Len(f))
    BY <2>2, <2>3 DEF LineAccepted
  <2>5. ~ChainOK(g)
    BY <2>1, <2>2, <2>4 DEF ChainOK
  <2>6. QED BY <1>2, <2>5 DEF Put, g, j
<1>3. CASE ~(f # << >> /\ ~f[Len(f)].eol)
  <2> DEFINE g == Append(f, line)
  <2>1. Len(g) = Len(f) + 1 /\ \A k \in 1..Len(f) : g[k] = f[k]
    OBVIOUS
  <2> HIDE DEF g
  <2>2. g[i] = f[i] /\ ExpectedPrev(g, i) = ExpectedPrev(f, i) /\ i \in 1..Len(g)
    BY <2>1 DEF ExpectedPrev
  <2>3. ~LineAccepted(g, i)
    BY <1>1, <2>2 DEF LineAccepted
  <2>4. ~ChainOK(g)
    BY <2>2, <2>3 DEF ChainOK
  <2>5. QED BY <1>3, <2>4 DEF Put, g
<1>4. QED BY <1>2, <1>3

\* Ended lines survive more text.
LEMMA PutKeepsLines ==
  ASSUME NEW f \in Seq(Line), NEW line \in Line
  PROVE  /\ Len(f) <= Len(Put(f, line))
         /\ \A i \in 1..Len(f) : f[i].eol => Put(f, line)[i] = f[i]
<1>1. CASE f # << >> /\ ~f[Len(f)].eol
  <2>1. Len(f) \in 1..Len(f)
    BY <1>1
  <2>2. QED BY <1>1, <2>1, JoinedType, ExceptSeq DEF Put
<1>2. CASE ~(f # << >> /\ ~f[Len(f)].eol)
  BY <1>2 DEF Put
<1>3. QED BY <1>1, <1>2

\* Without damage, a step leaves the file alone or writes at its end.
LEMMA StepWritesAtEnd ==
  ASSUME IInv, [Next]_vars, faults' = faults
  PROVE  file' = file \/ \E line \in Line : file' = Put(file, line)
<1>1. ASSUME NEW p \in Proc, Write(p)
      PROVE  \E line \in Line : file' = Put(file, line)
  BY <1>1, PendingType DEF Write, IInv
<1>2. ASSUME NEW p \in Proc, WriteFails(p)
      PROVE  file' = file \/ \E line \in Line : file' = Put(file, line)
  BY <1>2, PartialWriteType DEF WriteFails
<1>3. ASSUME NEW p \in Proc, Crash(p)
      PROVE  file' = file \/ \E line \in Line : file' = Put(file, line)
  BY <1>3, PartialWriteType DEF Crash
<1>4. ASSUME NEW p \in Proc,
             Open(p) \/ (\E b \in Body : Prepare(p, b)) \/ Finish(p)
      PROVE  file' = file
  BY <1>4 DEF Open, Prepare, Finish
<1>5. ~Damage
  BY DEF Damage, IInv, TypeOK
<1>6. CASE UNCHANGED vars
  BY <1>6 DEF vars
<1>7. QED BY <1>1, <1>2, <1>3, <1>4, <1>5, <1>6 DEF Next

\* A chain reported broken stays broken under every step of the log.
THEOREM BrokenForEver == Spec => BrokenStaysBroken
<1>1. IInv /\ [Next]_vars
        => [~ChainOK(file) /\ faults' = faults => ~ChainOK(file')]_vars
  <2> SUFFICES ASSUME IInv, [Next]_vars, ~ChainOK(file), faults' = faults
               PROVE  ~ChainOK(file')
    OBVIOUS
  <2>1. file \in Seq(Line)
    BY DEF IInv, TypeOK
  <2>2. QED BY <2>1, StepWritesAtEnd, PutKeepsBroken
<1>2. QED BY <1>1, Invariance, PTL DEF Spec, BrokenStaysBroken

\* Ended lines are never rewritten.
THEOREM LinesAreKept == Spec => AppendOnly
<1> DEFINE A == faults' = faults =>
                  /\ Len(file) <= Len(file')
                  /\ \A i \in 1..Len(file) : file[i].eol => file'[i] = file[i]
<1>1. IInv /\ [Next]_vars => [A]_vars
  <2> SUFFICES ASSUME IInv, [Next]_vars, faults' = faults
               PROVE  /\ Len(file) <= Len(file')
                      /\ \A i \in 1..Len(file) : file[i].eol => file'[i] = file[i]
    OBVIOUS
  <2>1. file \in Seq(Line)
    BY DEF IInv, TypeOK
  <2>2. QED BY <2>1, StepWritesAtEnd, PutKeepsLines
<1>2. QED BY <1>1, Invariance, PTL DEF Spec, AppendOnly

-----------------------------------------------------------------------------
(* One writer per verified file *)

Active(s) == s.status \in {"open", "writing"}

\* How many of a session's events have been written out.
Written(s) == IF s.status = "writing" THEN Len(s.events) - 1 ELSE Len(s.events)

\* While a session that has written something may write more, a file that
\* verifies is that session's alone.
WriterInv ==
  /\ faults = 0 => Len(writers) = Len(file)
  /\ faults = 0 /\ ChainOK(file) =>
       \A p \in Proc : Active(session[p]) /\ Written(session[p]) > 0 =>
         /\ file # << >>
         /\ \A i \in 1..Len(writers) : writers[i] = session[p].sid
  /\ VerifiedHasOneWriter

\* A line whose chain verifies goes where its writer's other lines are: if it
\* is the first of its session it carries the initial hash, so the file must
\* have been empty.
LEMMA PutByWriter ==
  ASSUME IInv, WriterInv, faults = 0,
         NEW p \in Proc, session[p].status = "writing",
         NEW line \in Line, line.prev = Pending(session[p]).prev,
         ChainOK(Put(file, line))
  PROVE  /\ ChainOK(file)
         /\ Len(Put(file, line)) = Len(file) + 1
         /\ Len(Credit(Put(file, line), session[p].sid)) = Len(file) + 1
         /\ \A i \in 1..(Len(file) + 1) :
              Credit(Put(file, line), session[p].sid)[i] = session[p].sid
<1>1. /\ file \in Seq(Line) /\ writers \in Seq(Nat)
      /\ session[p].sid \in Nat /\ session[p].events \in Seq(Line)
  BY DEF IInv, TypeOK, Session
<1>2. ChainOK(file)
  BY <1>1, PutKeepsBroken
<1>3. ~(file # << >> /\ ~file[Len(file)].eol)
  <2> SUFFICES ASSUME file # << >> /\ ~file[Len(file)].eol PROVE FALSE
    OBVIOUS
  <2> DEFINE j == Joined(file[Len(file)], line)
             g == [file EXCEPT ![Len(file)] = j]
  <2>1. Len(file) \in 1..Len(file)
    BY <1>1
  <2>2. g \in Seq(Line) /\ Len(g) = Len(file) /\ g[Len(file)] = j
    BY <1>1, <2>1, JoinedType, ExceptSeq
  <2>3. ~Parses(j)
    BY <1>1, <2>1, JoinedType
  <2>4. ChainOK(g)
    BY DEF Put
  <2> HIDE DEF g, j
  <2>5. QED BY <2>1, <2>2, <2>3, <2>4 DEF ChainOK, LineAccepted
<1> DEFINE g == Append(file, line)
<1>4. /\ Put(file, line) = g /\ Len(g) = Len(file) + 1 /\ g[Len(file) + 1] = line
      /\ \A i \in 1..Len(file) : g[i] = file[i]
  BY <1>1, <1>3 DEF Put
<1>5. Credit(g, session[p].sid) = Append(writers, session[p].sid)
  BY <1>1, <1>4 DEF Credit
<1>6. Len(writers) = Len(file)
  BY DEF WriterInv
<1>7. \A i \in 1..Len(writers) : writers[i] = session[p].sid
  <2>1. CASE Written(session[p]) > 0
    BY <1>2, <2>1 DEF WriterInv, Active
  <2>2. CASE ~(Written(session[p]) > 0)
    <3>1. Len(session[p].events) = 1
      <4>1. session[p].events # << >>
        BY DEF IInv, SessionChained
      <4>2. Len(session[p].events) \in Nat /\ Len(session[p].events) # 0
        BY <1>1, <4>1
      <4>3. Written(session[p]) = Len(session[p].events) - 1
        BY DEF Written
      <4>4. ~(Len(session[p].events) - 1 > 0)
        BY <2>2, <4>3
      <4>5. \A n \in Nat : n # 0 /\ ~(n - 1 > 0) => n = 1
        OBVIOUS
      <4>6. QED BY <4>2, <4>4, <4>5
    <3>2. LineAccepted(session[p].events, 1)
      <4>1. ChainOK(session[p].events)
        BY DEF IInv, SessionChained
      <4>2. 1 \in 1..Len(session[p].events)
        BY <3>1
      <4>3. QED BY <4>1, <4>2 DEF ChainOK
    <3>3. line.prev = Genesis
      BY <3>1, <3>2 DEF LineAccepted, ExpectedPrev, Pending
    <3>4. CASE file = << >>
      BY <1>6, <3>4
    <3>5. CASE file # << >>
      <4>1. Len(file) \in 1..Len(file) /\ file[Len(file)] \in Line
        BY <1>1, <3>5
      <4>2. LineAccepted(g, Len(file) + 1)
        BY <1>1, <1>4 DEF ChainOK
      <4>3. ExpectedPrev(g, Len(file) + 1) = file[Len(file)].hash
        <5> HIDE DEF g
        <5> QED BY <1>1, <1>4, <4>1 DEF ExpectedPrev
      <4>4. file[Len(file)].hash = Genesis
        <5> HIDE DEF g
        <5> QED BY <1>4, <3>3, <4>2, <4>3 DEF LineAccepted
      <4>5. file[Len(file)].hash = Append(file[Len(file)].prev, file[Len(file)].body)
        BY <1>2, <4>1 DEF ChainOK, LineAccepted, HashOf
      <4>6. file[Len(file)].prev \in Seq(Body) /\ file[Len(file)].body \in Body
        BY <4>1 DEF Line, Hash
      <4>7. Append(file[Len(file)].prev, file[Len(file)].body) # << >>
        BY <4>6
      <4>8. QED BY <4>4, <4>5, <4>7 DEF Genesis
    <3>6. QED BY <3>4, <3>5
  <2>3. QED BY <2>1, <2>2
<1>8. QED BY <1>1, <1>2, <1>4, <1>5, <1>6, <1>7

LEMMA PutLength ==
  ASSUME IInv, WriterInv, faults = 0, NEW line \in Line, NEW sid \in Nat
  PROVE  Len(Credit(Put(file, line), sid)) = Len(Put(file, line))
<1>1. file \in Seq(Line) /\ writers \in Seq(Nat) /\ Len(writers) = Len(file)
  BY DEF IInv, TypeOK, WriterInv
<1>2. CASE file # << >> /\ ~file[Len(file)].eol
  <2>1. Len(file) \in 1..Len(file)
    BY <1>1, <1>2
  <2>2. Len(Put(file, line)) = Len(file)
    BY <1>1, <1>2, <2>1, JoinedType, ExceptSeq DEF Put
  <2>3. QED BY <1>1, <2>2 DEF Credit
<1>3. CASE ~(file # << >> /\ ~file[Len(file)].eol)
  <2>1. Len(Put(file, line)) = Len(file) + 1
    BY <1>1, <1>3 DEF Put
  <2>2. QED BY <1>1, <2>1 DEF Credit
<1>4. QED BY <1>2, <1>3

\* After such a write every other session with written lines had to be its
\* writer's twin: the invariant is kept whatever becomes of the writer.
LEMMA WriterKept ==
  ASSUME IInv, WriterInv, NEW p \in Proc, session[p].status = "writing",
         NEW line \in Line, line.prev = Pending(session[p]).prev,
         file' = Put(file, line), writers' = Credit(file', session[p].sid),
         faults' = faults,
         NEW s \in Session, Active(s) => s.sid = session[p].sid,
         session' = [session EXCEPT ![p] = s]
  PROVE  WriterInv'
<1>1. session \in [Proc -> Session] /\ file \in Seq(Line)
  BY DEF IInv, TypeOK
<1>2. session[p].sid \in Nat
  BY <1>1 DEF Session
<1>3. faults' = 0 => Len(writers') = Len(file')
  BY <1>2, PutLength
<1>4. ASSUME faults = 0, ChainOK(file')
      PROVE  /\ ChainOK(file) /\ file' # << >>
             /\ \A i \in 1..Len(writers') : writers'[i] = session[p].sid
  <2>1. /\ ChainOK(file) /\ Len(file') = Len(file) + 1
        /\ Len(writers') = Len(file) + 1
        /\ \A i \in 1..(Len(file) + 1) : writers'[i] = session[p].sid
    BY <1>4, PutByWriter
  <2>2. file' # << >>
    BY <1>1, <2>1
  <2>3. QED BY <2>1, <2>2
<1>5. ASSUME faults = 0, ChainOK(file'), NEW q \in Proc,
             Active(session'[q]), Written(session'[q]) > 0
      PROVE  \A i \in 1..Len(writers') : writers'[i] = session'[q].sid
  <2>1. CASE q = p
    BY <1>1, <1>4, <1>5, <2>1
  <2>2. CASE q # p
    <3>1. session'[q] = session[q]
      BY <1>1, <2>2
    <3>2. file # << >> /\ \A i \in 1..Len(writers) : writers[i] = session[q].sid
      BY <1>4, <1>5, <3>1 DEF WriterInv
    <3>3. Len(writers) = Len(file) /\ 1 \in 1..Len(writers) /\ 1 \in 1..Len(writers')
      <4>1. Len(writers) = Len(file) /\ Len(writers') = Len(file')
        BY <1>3, <1>5 DEF WriterInv
      <4>2. Len(file') = Len(file) + 1
        BY <1>5, PutByWriter
      <4>3. QED BY <1>1, <3>2, <4>1, <4>2
    <3>4. writers'[1] = writers[1]
      BY <1>2, <3>3 DEF Credit, IInv, TypeOK
    <3>5. session[q].sid = session[p].sid
      BY <1>4, <1>5, <3>2, <3>3, <3>4
    <3>6. QED BY <1>4, <1>5, <3>1, <3>5
  <2>3. QED BY <2>1, <2>2
<1>6. VerifiedHasOneWriter'
  BY <1>4 DEF VerifiedHasOneWriter
<1>7. QED BY <1>3, <1>4, <1>5, <1>6 DEF WriterInv

\* A step that writes nothing and starts no session with written lines.
LEMMA WriterIdle ==
  ASSUME IInv, WriterInv, NEW p \in Proc, NEW s \in Session,
         UNCHANGED <<file, writers, faults>>,
         session' = [session EXCEPT ![p] = s],
         Active(s) /\ Written(s) > 0 =>
           /\ Active(session[p]) /\ Written(session[p]) > 0
           /\ s.sid = session[p].sid
  PROVE  WriterInv'
<1>1. session \in [Proc -> Session]
  BY DEF IInv, TypeOK
<1>2. VerifiedHasOneWriter'
  BY DEF WriterInv, VerifiedHasOneWriter
<1>3. QED BY <1>1, <1>2 DEF WriterInv

LEMMA InitWriterInv == Init => WriterInv
BY DEF Init, WriterInv, VerifiedHasOneWriter, Active, NoSession

\* What a session becomes when only its status changes.
LEMMA WithStatus ==
  ASSUME IInv, NEW p \in Proc, NEW st \in Status,
         session' = [session EXCEPT ![p].status = st]
  PROVE  \E s \in Session :
           /\ s.status = st /\ s.prev = session[p].prev
           /\ s.events = session[p].events /\ s.sid = session[p].sid
           /\ session' = [session EXCEPT ![p] = s]
<1> DEFINE s == [status |-> st, prev |-> session[p].prev,
                 events |-> session[p].events, sid |-> session[p].sid]
<1>1. session[p] \in Session /\ session \in [Proc -> Session]
  BY DEF IInv, TypeOK
<1>2. s \in Session
  BY <1>1 DEF Session
<1>3. [session[p] EXCEPT !.status = st] = s
  BY <1>1 DEF Session
<1>4. session' = [session EXCEPT ![p] = s]
  <2> HIDE DEF s
  <2> QED BY <1>3
<1>5. QED BY <1>2, <1>4

\* A partial write, after which the session appends no more.
LEMMA WriterPartial ==
  ASSUME IInv, WriterInv, NEW p \in Proc, session[p].status = "writing",
         PartialWrite(p), faults' = faults,
         NEW s \in Session, ~Active(s), session' = [session EXCEPT ![p] = s]
  PROVE  WriterInv'
<1>1. Pending(session[p]) \in Line
  BY PendingType DEF IInv
<1>2. CASE file' = file
  <2>1. writers' = writers
    BY <1>1, <1>2, WriteType DEF PartialWrite, IInv
  <2>2. QED BY <1>2, <2>1, WriterIdle
<1>3. CASE \E part \in CutShort(Pending(session[p])) : file' = Put(file, part)
  <2>1. PICK part \in CutShort(Pending(session[p])) : file' = Put(file, part)
    BY <1>3
  <2>2. part \in Line /\ part.prev = Pending(session[p]).prev
    BY <1>1, CutShortType
  <2>3. writers' = Credit(file', session[p].sid)
    BY DEF PartialWrite
  <2>4. QED BY <2>1, <2>2, <2>3, WriterKept
<1>4. QED BY <1>2, <1>3 DEF PartialWrite

LEMMA StepWriterInv == IInv /\ WriterInv /\ [Next]_vars => WriterInv'
<1> SUFFICES ASSUME IInv, WriterInv, [Next]_vars PROVE WriterInv'
  OBVIOUS
<1>0. IInv' /\ session \in [Proc -> Session]
  BY StepIInv DEF IInv, TypeOK
<1>1. ASSUME NEW p \in Proc, Open(p) PROVE WriterInv'
  <2> DEFINE s == [status |-> "open", prev |-> Genesis, events |-> << >>, sid |-> opens']
  <2>1. session' = [session EXCEPT ![p] = s]
    BY <1>1 DEF Open
  <2>2. s \in Session
    BY <1>0, <2>1 DEF IInv, TypeOK
  <2>3. ~(Written(s) > 0)
    BY DEF Written
  <2>4. QED
    <3> HIDE DEF s
    <3> QED BY <1>1, <2>1, <2>2, <2>3, WriterIdle DEF Open
<1>2. ASSUME NEW p \in Proc, NEW b \in Body, Prepare(p, b) PROVE WriterInv'
  <2> DEFINE s == [status |-> "writing", prev |-> HashOf(session[p].prev, b),
                   events |-> Append(session[p].events, EventLine(session[p].prev, b)),
                   sid |-> session[p].sid]
  <2>1. session' = [session EXCEPT ![p] = s]
    BY <1>2 DEF Prepare
  <2>2. s \in Session
    BY <1>0, <2>1 DEF IInv, TypeOK
  <2>3. session[p].events \in Seq(Line) /\ session[p].status = "open"
    BY <1>0, <1>2 DEF Session, Prepare
  <2>4. Written(s) = Written(session[p])
    BY <2>3 DEF Written
  <2>5. Active(session[p]) /\ s.sid = session[p].sid
    BY <2>3 DEF Active
  <2>6. QED
    <3> HIDE DEF s
    <3> QED BY <1>2, <2>1, <2>2, <2>4, <2>5, WriterIdle DEF Prepare
<1>3. ASSUME NEW p \in Proc, Write(p) PROVE WriterInv'
  <2>0. "open" \in Status /\ session' = [session EXCEPT ![p].status = "open"]
    BY <1>3 DEF Write, Status
  <2>1. PICK s \in Session :
           /\ s.status = "open" /\ s.prev = session[p].prev
           /\ s.events = session[p].events /\ s.sid = session[p].sid
           /\ session' = [session EXCEPT ![p] = s]
    BY <2>0, WithStatus
  <2>2. Pending(session[p]) \in Line
    BY <1>3, PendingType DEF Write, IInv
  <2>3. QED BY <1>3, <2>1, <2>2, WriterKept DEF Write
<1>4. ASSUME NEW p \in Proc, WriteFails(p) PROVE WriterInv'
  <2>1. PICK s \in Session : s.status = "failed"
                             /\ session' = [session EXCEPT ![p] = s]
    BY ZenonT(40), <1>4, WithStatus DEF WriteFails, Status
  <2>2. QED BY <1>4, <2>1, WriterPartial DEF WriteFails, Active
<1>5. ASSUME NEW p \in Proc, Crash(p) PROVE WriterInv'
  <2>1. NoSession \in Session /\ ~Active(NoSession)
    BY FreshSession DEF NoSession, Session, Status, Active
  <2>2. CASE session[p].status = "writing"
    BY <1>5, <2>1, <2>2, WriterPartial DEF Crash
  <2>3. CASE session[p].status # "writing"
    BY <1>5, <2>1, <2>3, WriterIdle DEF Crash
  <2>4. QED BY <2>2, <2>3
<1>6. ASSUME NEW p \in Proc, Finish(p) PROVE WriterInv'
  <2>1. PICK s \in Session : s.status = "done"
                             /\ session' = [session EXCEPT ![p] = s]
    BY ZenonT(40), <1>6, WithStatus DEF Finish, Status
  <2>2. ~Active(s)
    BY <2>1 DEF Active
  <2>3. QED BY <1>6, <2>1, <2>2, WriterIdle DEF Finish
<1>7. CASE Damage
  <2>1. faults' # 0
    BY <1>7 DEF Damage, IInv, TypeOK
  <2>2. QED BY <2>1 DEF WriterInv, VerifiedHasOneWriter
<1>8. CASE UNCHANGED vars
  BY <1>8 DEF vars, WriterInv, VerifiedHasOneWriter
<1>9. QED BY <1>1, <1>2, <1>3, <1>4, <1>5, <1>6, <1>7, <1>8 DEF Next

\* An undamaged file that verifies was written by one session.
THEOREM OneWriter == Spec => []VerifiedHasOneWriter
<1>1. WriterInv => VerifiedHasOneWriter
  BY DEF WriterInv
<1>2. QED BY <1>1, InitWriterInv, StepWriterInv, Invariance, PTL DEF Spec

-----------------------------------------------------------------------------
(* A run that has the file to itself *)

\* Nothing happens before the first session; while there has been only one,
\* it is one process's, and the file is what that process has in memory.
SoleInv ==
  /\ opens = 0 => /\ file = << >>
                  /\ \A p \in Proc : session[p].status = "none"
  /\ opens = 1 => \A p, q \in Proc :
                    session[p].status # "none" /\ session[q].status # "none" => p = q
  /\ opens = 1 /\ faults = 0 => \A p \in Proc :
       /\ session[p].status \in {"open", "done"} => file = session[p].events
       /\ session[p].status = "writing" =>
            file = SubSeq(session[p].events, 1, Len(session[p].events) - 1)
  /\ \A p \in Proc : \A i \in 1..Len(session[p].events) : session[p].events[i].eol

\* A process steps and its session keeps being the only one.
LEMMA SoleStep ==
  ASSUME IInv, SoleInv, NEW p \in Proc, session[p].status # "none",
         NEW s \in Session, session' = [session EXCEPT ![p] = s],
         UNCHANGED <<opens, faults>>,
         \A i \in 1..Len(s.events) : s.events[i].eol,
         opens = 1 /\ faults = 0 =>
           /\ s.status \in {"open", "done"} => file' = s.events
           /\ s.status = "writing" => file' = SubSeq(s.events, 1, Len(s.events) - 1)
  PROVE  SoleInv'
<1>1. session \in [Proc -> Session]
  BY DEF IInv, TypeOK
<1>2. opens # 0
  BY DEF SoleInv
<1>3. session'[p] = s /\ \A q \in Proc : q # p => session'[q] = session[q]
  BY <1>1
<1>4. ASSUME opens = 1, NEW q \in Proc, q # p
      PROVE  session'[q].status = "none"
  BY <1>3, <1>4 DEF SoleInv
<1>5. ASSUME opens = 1, NEW q \in Proc, NEW r \in Proc,
             session'[q].status # "none", session'[r].status # "none"
      PROVE  q = r
  BY <1>4, <1>5
<1>6. ASSUME opens = 1, faults = 0, NEW q \in Proc
      PROVE  /\ session'[q].status \in {"open", "done"} => file' = session'[q].events
             /\ session'[q].status = "writing" =>
                  file' = SubSeq(session'[q].events, 1, Len(session'[q].events) - 1)
  <2>1. CASE q = p
    BY <1>3, <1>6, <2>1
  <2>2. CASE q # p
    BY <1>4, <1>6, <2>2
  <2>3. QED BY <2>1, <2>2
<1>7. ASSUME NEW q \in Proc
      PROVE  \A i \in 1..Len(session'[q].events) : session'[q].events[i].eol
  <2>1. CASE q = p
    BY <1>3, <2>1
  <2>2. CASE q # p
    BY <1>3, <2>2 DEF SoleInv
  <2>3. QED BY <2>1, <2>2
<1>8. QED BY <1>2, <1>5, <1>6, <1>7 DEF SoleInv

LEMMA InitSoleInv == Init => SoleInv
<1> SUFFICES ASSUME Init PROVE SoleInv
  OBVIOUS
<1>1. \A p \in Proc : session[p].status = "none" /\ session[p].events = << >>
  BY DEF Init, NoSession
<1>2. opens = 0 /\ file = << >>
  BY DEF Init
<1>3. QED BY <1>1, <1>2 DEF SoleInv

LEMMA StepSoleInv == IInv /\ SoleInv /\ [Next]_vars => SoleInv'
<1> SUFFICES ASSUME IInv, SoleInv, [Next]_vars PROVE SoleInv'
  OBVIOUS
<1>0. /\ IInv' /\ session \in [Proc -> Session] /\ opens \in Nat
      /\ file \in Seq(Line)
  BY StepIInv DEF IInv, TypeOK
<1>1. ASSUME NEW p \in Proc, Open(p) PROVE SoleInv'
  <2> DEFINE s == [status |-> "open", prev |-> Genesis, events |-> << >>, sid |-> opens']
  <2>1. /\ session' = [session EXCEPT ![p] = s]
        /\ opens' = opens + 1 /\ file' = file /\ faults' = faults
    BY <1>1 DEF Open
  <2>2. /\ session'[p] = s
        /\ \A q \in Proc : q # p => session'[q] = session[q]
    BY <1>0, <2>1
  <2>3. s.events = << >> /\ s.status = "open"
    OBVIOUS
  <2> HIDE DEF s
  <2>4. \A q \in Proc : \A i \in 1..Len(session'[q].events) : session'[q].events[i].eol
    <3> TAKE q \in Proc
    <3>1. CASE q = p
      BY <2>2, <2>3, <3>1
    <3>2. CASE q # p
      BY <2>2, <3>2 DEF SoleInv
    <3>3. QED BY <3>1, <3>2
  <2>5. opens' # 0
    BY <1>0, <2>1
  <2>6. CASE opens = 0
    <3>1. \A q \in Proc : q # p => session'[q].status = "none"
      BY <2>2, <2>6 DEF SoleInv
    <3>2. file' = s.events
      BY <2>1, <2>3, <2>6 DEF SoleInv
    <3>3. \A q, r \in Proc :
            session'[q].status # "none" /\ session'[r].status # "none" => q = r
      BY <3>1
    <3>4. \A q \in Proc :
            /\ session'[q].status \in {"open", "done"} => file' = session'[q].events
            /\ session'[q].status # "writing"
      BY <2>2, <2>3, <3>1, <3>2
    <3>5. QED BY <2>4, <2>5, <3>3, <3>4 DEF SoleInv
  <2>7. CASE opens # 0
    <3>1. opens' # 1
      BY <1>0, <2>1, <2>7
    <3>2. QED BY <2>4, <2>5, <3>1 DEF SoleInv
  <2>8. QED BY <2>6, <2>7
<1>2. ASSUME NEW p \in Proc, NEW b \in Body, Prepare(p, b) PROVE SoleInv'
  <2> DEFINE e == EventLine(session[p].prev, b)
             es == session[p].events
             s == [status |-> "writing", prev |-> HashOf(session[p].prev, b),
                   events |-> Append(es, e), sid |-> session[p].sid]
  <2>1. session' = [session EXCEPT ![p] = s]
    BY <1>2 DEF Prepare
  <2>2. s \in Session
    BY <1>0, <2>1 DEF IInv, TypeOK
  <2>3. es \in Seq(Line) /\ session[p].prev \in Hash
    BY <1>0 DEF Session
  <2>4. e \in Line /\ e.eol
    BY <2>3, EventLineType DEF EventLine
  <2>5. s.status = "writing" /\ s.events = Append(es, e)
    OBVIOUS
  <2> HIDE DEF s, e
  <2>6. \A i \in 1..Len(es) : es[i].eol
    BY DEF SoleInv
  <2>7. \A i \in 1..Len(s.events) : s.events[i].eol
    <3> HIDE DEF es
    <3> QED BY <2>3, <2>4, <2>5, <2>6
  <2>8. SubSeq(s.events, 1, Len(s.events) - 1) = es
    <3> HIDE DEF es
    <3> QED BY <2>3, <2>4, <2>5
  <2>9. opens = 1 /\ faults = 0 => file' = es
    BY <1>2 DEF Prepare, SoleInv
  <2>10. session[p].status # "none" /\ UNCHANGED <<opens, faults>>
    BY <1>2 DEF Prepare
  <2>11. QED
    <3> HIDE DEF es
    <3> QED BY <2>1, <2>2, <2>5, <2>7, <2>8, <2>9, <2>10, SoleStep
<1>3. ASSUME NEW p \in Proc, Write(p) PROVE SoleInv'
  <2> DEFINE es == session[p].events
  <2>1. "open" \in Status /\ session' = [session EXCEPT ![p].status = "open"]
    BY <1>3 DEF Write, Status
  <2>2. PICK s \in Session :
           /\ s.status = "open" /\ s.prev = session[p].prev
           /\ s.events = es /\ s.sid = session[p].sid
           /\ session' = [session EXCEPT ![p] = s]
    BY <2>1, WithStatus
  <2>3. /\ session[p].status = "writing" /\ UNCHANGED <<opens, faults>>
        /\ file' = Put(file, es[Len(es)])
    BY <1>3 DEF Write, Pending
  <2>4. es \in Seq(Line) /\ es # << >>
    BY <1>0, <2>3 DEF Session, IInv, SessionChained
  <2>5. \A i \in 1..Len(es) : es[i].eol
    BY DEF SoleInv
  <2>6. ASSUME opens = 1, faults = 0 PROVE file' = es
    <3>1. file = SubSeq(es, 1, Len(es) - 1)
      BY <2>3, <2>6 DEF SoleInv
    <3> HIDE DEF es
    <3>2. /\ Len(es) \in Nat \ {0} /\ Len(file) = Len(es) - 1
          /\ \A i \in 1..Len(file) : file[i] = es[i]
      <4>1. Len(es) \in Nat /\ Len(es) # 0
        BY <2>4
      <4>2. \A i \in 1..(Len(es) - 1) : es[i] \in Line
        BY <2>4
      <4>3. Len(es) - 1 \in Nat /\ 1 \in Int
        BY <4>1
      <4>4. /\ Len(file) = IF 1 <= Len(es) - 1 THEN (Len(es) - 1) - 1 + 1 ELSE 0
            /\ \A i \in 1..((Len(es) - 1) - 1 + 1) : file[i] = es[1 + i - 1]
        BY <3>1, <4>2, <4>3, SubSeqProperties
      <4> DEFINE n == Len(es)
      <4>5. n \in Nat /\ n # 0 /\ n \in Nat \ {0}
        BY <4>1
      <4>6. Len(file) = IF 1 <= n - 1 THEN (n - 1) - 1 + 1 ELSE 0
        BY <4>4
      <4>7. \A i \in 1..((n - 1) - 1 + 1) : file[i] = es[1 + i - 1]
        BY <4>4
      <4> HIDE DEF n
      <4>8. Len(file) = n - 1
        BY <4>5, <4>6
      <4>9. ASSUME NEW i \in 1..Len(file) PROVE file[i] = es[i]
        <5>1. i \in 1..((n - 1) - 1 + 1) /\ 1 + i - 1 = i
          BY <4>5, <4>8
        <5>2. QED BY <4>7, <5>1
      <4>10. QED BY <4>5, <4>8, <4>9 DEF n
    <3>3. file # << >> => Len(file) \in 1..Len(file) /\ file[Len(file)].eol
      BY <1>0, <2>5, <3>2
    <3>4. Put(file, es[Len(es)]) = Append(file, es[Len(es)])
      BY <3>3 DEF Put
    <3>5. Append(SubSeq(es, 1, Len(es) - 1), es[Len(es)]) = es
      BY <2>4, <3>2
    <3>6. QED BY <2>3, <3>1, <3>4, <3>5
  <2>7. QED
    <3> HIDE DEF es
    <3> QED BY <2>2, <2>3, <2>5, <2>6, SoleStep
<1>4. ASSUME NEW p \in Proc, WriteFails(p) PROVE SoleInv'
  <2>1. "failed" \in Status /\ session' = [session EXCEPT ![p].status = "failed"]
    BY <1>4 DEF WriteFails, Status
  <2>2. PICK s \in Session :
           /\ s.status = "failed" /\ s.prev = session[p].prev
           /\ s.events = session[p].events /\ s.sid = session[p].sid
           /\ session' = [session EXCEPT ![p] = s]
    BY <2>1, WithStatus
  <2>3. session[p].status # "none" /\ UNCHANGED <<opens, faults>>
    BY <1>4 DEF WriteFails
  <2>4. \A i \in 1..Len(s.events) : s.events[i].eol
    BY <2>2 DEF SoleInv
  <2>5. QED BY <2>2, <2>3, <2>4, SoleStep
<1>5. ASSUME NEW p \in Proc, Crash(p) PROVE SoleInv'
  <2>1. NoSession \in Session /\ NoSession.status = "none" /\ NoSession.events = << >>
    BY FreshSession DEF NoSession, Session, Status
  <2>2. /\ session[p].status # "none" /\ UNCHANGED <<opens, faults>>
        /\ session' = [session EXCEPT ![p] = NoSession]
    BY <1>5 DEF Crash
  <2>3. \A i \in 1..Len(NoSession.events) : NoSession.events[i].eol
    BY <2>1
  <2>4. NoSession.status \notin {"open", "done", "writing"}
    BY <2>1
  <2>5. QED BY <2>1, <2>2, <2>3, <2>4, SoleStep
<1>6. ASSUME NEW p \in Proc, Finish(p) PROVE SoleInv'
  <2>1. "done" \in Status /\ session' = [session EXCEPT ![p].status = "done"]
    BY <1>6 DEF Finish, Status
  <2>2. PICK s \in Session :
           /\ s.status = "done" /\ s.prev = session[p].prev
           /\ s.events = session[p].events /\ s.sid = session[p].sid
           /\ session' = [session EXCEPT ![p] = s]
    BY <2>1, WithStatus
  <2>3. session[p].status = "open" /\ UNCHANGED <<opens, faults>> /\ file' = file
    BY <1>6 DEF Finish
  <2>4. \A i \in 1..Len(s.events) : s.events[i].eol
    BY <2>2 DEF SoleInv
  <2>5. opens = 1 /\ faults = 0 => file' = s.events
    BY <2>2, <2>3 DEF SoleInv
  <2>6. QED BY <2>2, <2>3, <2>4, <2>5, SoleStep
<1>7. CASE Damage
  <2>1. faults' # 0 /\ UNCHANGED <<session, opens>>
    BY <1>7 DEF Damage, IInv, TypeOK
  <2>2. opens # 0
    <3> SUFFICES ASSUME opens = 0 PROVE FALSE
      OBVIOUS
    <3>1. Len(file) = 0
      BY DEF SoleInv
    <3>2. QED BY <1>7, <3>1 DEF Damage
  <2>3. QED BY <2>1, <2>2 DEF SoleInv
<1>8. CASE UNCHANGED vars
  BY <1>8 DEF vars, SoleInv
<1>9. QED BY <1>1, <1>2, <1>3, <1>4, <1>5, <1>6, <1>7, <1>8 DEF Next

\* A run alone on its file leaves a chain that verifies against its head.
THEOREM SoleRun == Spec => []SoleRunVerifies
<1>1. IInv /\ SoleInv => SoleRunVerifies
  BY DEF SoleInv, SoleRunVerifies, IInv, SessionChained
<1>2. QED BY <1>1, InitSoleInv, StepSoleInv, Invariance, PTL DEF Spec
=============================================================================
