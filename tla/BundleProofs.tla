----------------------------- MODULE BundleProofs -----------------------------
(***************************************************************************)
(* Proofs about Bundle, for all requests and numbers of calls: what a      *)
(* verdict on the bundle directory is worth, whatever commands wrote it    *)
(* and died in it.                                                         *)
(***************************************************************************)
EXTENDS Bundle, PipelineProofs

-----------------------------------------------------------------------------
(* The inductive invariant *)

\* What holds of the pipeline under the bundle: its own invariants, and, as no
\* other process is at work, its files are what it left there.
Beneath == IInv /\ Solitude /\ OwnFiles(proc[Me])

\* What the artifact's file can be when it is read again.
Sources == {Absent} \union Replacement \union {req.values : req \in Request}

Shape ==
  /\ DOMAIN flat = Names
  /\ command \in Commands
  /\ source \in Sources
  /\ step \in 1..10
  /\ opened => Copying
  /\ proc[Me].pc # "done" => step = 1 /\ ~opened

\* A manifest has the digests of the evidence of one run.
OneRun(m) ==
  \E req \in Sealing, hit \in BOOLEAN, sid \in 1..MaxRuns :
    LET head == SealedHistory(req, hit)
        seal == SealFor(req, head, sid)
    IN  /\ DOMAIN m.files = Listed /\ m.files["audit"] # Absent
        /\ m.seal = seal.epw /\ m.head = head /\ m.values = req.values
        /\ m.report = ReportFor(req, head, sid, hit)
        /\ m.files["seal"] = seal /\ m.files["report"] = m.report
        /\ m.files["verify"].seal = seal.epw
        /\ m.files["verify"].ok <=>
             VerifySeal(req.values, seal, FileVerdict(m.files["audit"])) = None

\* Whatever the commands before left, the files that are read back hold what
\* some run wrote there, or part of it.
FlatTexts ==
  /\ flat["artifact"] \in {Absent} \union Seq(Byte)
  /\ flat["audit"] \in {Absent} \union LogFile
  /\ flat["seal"] \in {Absent, Torn} \union SealTexts
  /\ flat["report"] \in {Absent, Torn} \union ReportTexts
  /\ flat["manifest"] \notin {Absent, Torn} => OneRun(flat["manifest"])

\* The files that the command has written so far hold what it means them to.
InPlace ==
  proc[Me].pc = "done" =>
    LET req == proc[Me].req
        n   == Len(FlatOrder(req))
    IN  /\ step > 1 \/ opened => CopiedArtifact # Absent
        /\ step > 1 => flat["artifact"] = CopiedArtifact
        /\ step > 2 => flat["audit"] = audit[req.run]
        /\ step > 3 => flat["seal"] = SealOf(Me)
        /\ step > 4 => flat["verify"] = VerifyJson(req.values, req)
        /\ step > n - 1 => flat["report"] = ReportOf(Me)
        /\ step > n => flat["manifest"] = ManifestJson(req)

BInv == Beneath /\ Shape /\ FlatTexts /\ InPlace

-----------------------------------------------------------------------------
(* One process *)

LEMMA MeAlone == Me \in Proc /\ Proc = {Me}
BY OneProcess DEF Me

\* Two sequences, one after the other.
LEMMA TwoParts ==
  ASSUME NEW S, NEW a \in Seq(S), NEW b \in Seq(S)
  PROVE  /\ a \o b \in Seq(S) /\ Len(a \o b) = Len(a) + Len(b)
         /\ \A i \in 1..Len(a) : (a \o b)[i] = a[i]
         /\ \A i \in 1..Len(b) : (a \o b)[Len(a) + i] = b[i]
<1>1. /\ a \o b \in Seq(S) /\ Len(a \o b) = Len(a) + Len(b)
      /\ \A i \in 1..(Len(a) + Len(b)) :
           (a \o b)[i] = IF i <= Len(a) THEN a[i] ELSE b[i - Len(a)]
  BY ConcatProperties
<1>2. Len(a) \in Nat /\ Len(b) \in Nat
  OBVIOUS
<1>3. ASSUME NEW i \in 1..Len(a) PROVE (a \o b)[i] = a[i]
  <2>1. i \in 1..(Len(a) + Len(b)) /\ i <= Len(a)
    BY <1>2
  <2>2. QED BY <1>1, <2>1
<1>4. ASSUME NEW i \in 1..Len(b) PROVE (a \o b)[Len(a) + i] = b[i]
  <2>1. /\ Len(a) + i \in 1..(Len(a) + Len(b)) /\ ~(Len(a) + i <= Len(a))
        /\ Len(a) + i - Len(a) = i
    BY <1>2
  <2>2. QED BY <1>1, <2>1
<1>5. QED BY <1>1, <1>3, <1>4

\* Three sequences, one after the other.
LEMMA ThreeParts ==
  ASSUME NEW S, NEW a \in Seq(S), NEW b \in Seq(S), NEW c \in Seq(S)
  PROVE  /\ Len((a \o b) \o c) = Len(a) + Len(b) + Len(c)
         /\ \A i \in 1..Len(a) : ((a \o b) \o c)[i] = a[i]
         /\ \A i \in 1..Len(b) : ((a \o b) \o c)[Len(a) + i] = b[i]
         /\ \A i \in 1..Len(c) : ((a \o b) \o c)[Len(a) + Len(b) + i] = c[i]
<1>1. PICK ab \in Seq(S) : ab = a \o b
  BY TwoParts
<1>2. /\ Len(ab) = Len(a) + Len(b)
      /\ \A i \in 1..Len(a) : ab[i] = a[i]
      /\ \A i \in 1..Len(b) : ab[Len(a) + i] = b[i]
  BY <1>1, TwoParts
<1>3. /\ Len(ab \o c) = Len(ab) + Len(c)
      /\ \A i \in 1..Len(ab) : (ab \o c)[i] = ab[i]
      /\ \A i \in 1..Len(c) : (ab \o c)[Len(ab) + i] = c[i]
  BY TwoParts
<1>4. Len(a) \in Nat /\ Len(b) \in Nat /\ Len(c) \in Nat
  OBVIOUS
<1>5. ASSUME NEW i \in 1..Len(a) PROVE (ab \o c)[i] = a[i]
  <2>1. i \in 1..Len(ab)
    BY <1>2, <1>4
  <2>2. QED BY <1>2, <1>3, <2>1
<1>6. ASSUME NEW i \in 1..Len(b) PROVE (ab \o c)[Len(a) + i] = b[i]
  <2>1. PICK j : j = Len(a) + i
    OBVIOUS
  <2>2. j \in 1..Len(ab) /\ ab[j] = b[i]
    BY <1>2, <1>4, <2>1
  <2>3. QED BY <1>3, <2>1, <2>2
<1>7. ASSUME NEW i \in 1..Len(c) PROVE (ab \o c)[Len(a) + Len(b) + i] = c[i]
  BY <1>2, <1>3
<1>8. Len(ab \o c) = Len(a) + Len(b) + Len(c)
  BY <1>2, <1>3
<1>9. QED BY <1>1, <1>5, <1>6, <1>7, <1>8

\* The order of the flat files: artifact, log, seal and verdict first, report
\* and manifest last.
LEMMA OrderFacts ==
  ASSUME NEW req
  PROVE  LET order == FlatOrder(req)
             n     == Len(order)
         IN  /\ n \in 6..9
             /\ order[1] = "artifact" /\ order[2] = "audit" /\ order[3] = "seal"
             /\ order[4] = "verify" /\ order[n - 1] = "report" /\ order[n] = "manifest"
             /\ \A i \in 5..(n - 2) : order[i] \in {"verify_ok", "tampered", "verify_fail"}
<1> DEFINE extra == {"verify_ok", "tampered", "verify_fail"}
           first == <<"artifact", "audit", "seal", "verify">>
           last == <<"report", "manifest">>
           demo == Demonstration(req)
           order == FlatOrder(req)
<1>1. demo \in Seq(extra) /\ Len(demo) \in 0..3
  <2>1. << >> \in Seq(extra) /\ Len(<< >>) = 0
    OBVIOUS
  <2>2. <<"verify_ok", "tampered", "verify_fail">> \in Seq(extra)
        /\ Len(<<"verify_ok", "tampered", "verify_fail">>) = 3
    OBVIOUS
  <2>3. <<"tampered", "verify_fail">> \in Seq(extra) /\ Len(<<"tampered", "verify_fail">>) = 2
    OBVIOUS
  <2>4. demo \in {<< >>, <<"verify_ok", "tampered", "verify_fail">>, <<"tampered", "verify_fail">>}
    BY DEF Demonstration
  <2>5. CASE demo = << >>
    BY <2>1, <2>5
  <2>6. CASE demo = <<"verify_ok", "tampered", "verify_fail">>
    BY <2>2, <2>6
  <2>7. CASE demo = <<"tampered", "verify_fail">>
    BY <2>3, <2>7
  <2> HIDE DEF demo
  <2>8. QED BY <2>4, <2>5, <2>6, <2>7
<1>2. /\ first \in Seq(Names) /\ Len(first) = 4
      /\ first[1] = "artifact" /\ first[2] = "audit" /\ first[3] = "seal" /\ first[4] = "verify"
  BY DEF Names, Listed
<1>3. last \in Seq(Names) /\ Len(last) = 2 /\ last[1] = "report" /\ last[2] = "manifest"
  BY DEF Names, Listed
<1>4. demo \in Seq(Names)
  BY <1>1 DEF Names
<1>5. order = first \o demo \o last
  BY DEF FlatOrder
<1> HIDE DEF first, last, demo, order, extra
<1>6. /\ Len(order) = Len(first) + Len(demo) + Len(last)
      /\ \A i \in 1..Len(first) : order[i] = first[i]
      /\ \A i \in 1..Len(demo) : order[Len(first) + i] = demo[i]
      /\ \A i \in 1..Len(last) : order[Len(first) + Len(demo) + i] = last[i]
  <2>1. /\ Len((first \o demo) \o last) = Len(first) + Len(demo) + Len(last)
        /\ \A i \in 1..Len(first) : ((first \o demo) \o last)[i] = first[i]
        /\ \A i \in 1..Len(demo) : ((first \o demo) \o last)[Len(first) + i] = demo[i]
        /\ \A i \in 1..Len(last) : ((first \o demo) \o last)[Len(first) + Len(demo) + i] = last[i]
    <3>1. first \in Seq(Names) /\ demo \in Seq(Names) /\ last \in Seq(Names)
      BY <1>2, <1>3, <1>4
    <3>2. QED BY <3>1, ThreeParts
  <2>2. QED BY <1>5, <2>1
<1>7. Len(order) = Len(demo) + 6 /\ Len(order) \in 6..9
  <2>1. PICK n \in 0..3 : n = Len(demo)
    BY <1>1
  <2>2. Len(order) = 4 + n + 2
    BY <1>2, <1>3, <1>6, <2>1
  <2>3. Len(order) = n + 6 /\ Len(order) \in 6..9
    BY <2>2
  <2>4. QED BY <2>1, <2>3
<1>8. order[1] = "artifact" /\ order[2] = "audit" /\ order[3] = "seal" /\ order[4] = "verify"
  <2>1. 1 \in 1..Len(first) /\ 2 \in 1..Len(first) /\ 3 \in 1..Len(first) /\ 4 \in 1..Len(first)
    BY <1>2
  <2>2. QED BY <1>2, <1>6, <2>1
<1>9. order[Len(order) - 1] = "report" /\ order[Len(order)] = "manifest"
  <2>1. /\ order[Len(first) + Len(demo) + 1] = last[1]
        /\ order[Len(first) + Len(demo) + 2] = last[2]
    <3>1. 1 \in 1..Len(last) /\ 2 \in 1..Len(last)
      BY <1>3
    <3>2. QED BY <1>6, <3>1
  <2>2. /\ Len(first) + Len(demo) + 1 = Len(order) - 1
        /\ Len(first) + Len(demo) + 2 = Len(order)
    BY <1>1, <1>2, <1>7
  <2>3. QED BY <1>3, <2>1, <2>2
<1>10. ASSUME NEW i \in 5..(Len(order) - 2) PROVE order[i] \in extra
  <2>1. i - 4 \in 1..Len(demo) /\ Len(first) + (i - 4) = i
    BY <1>1, <1>2, <1>7
  <2>2. order[i] = demo[i - 4]
    BY <1>6, <2>1
  <2>3. QED BY <1>1, <2>1, <2>2
<1>11. QED BY <1>7, <1>8, <1>9, <1>10 DEF order, extra

-----------------------------------------------------------------------------
(* What is written *)

\* What verify_seal answers.
LEMMA VerdictRange ==
  ASSUME NEW values, NEW record, NEW log
  PROVE  VerifySeal(values, record, log) \in SealReasons \union {None}
BY DEF VerifySeal, AuditReason, SealReasons

\* Seals and reports can be read, and have their history in them.
LEMMA TextFacts ==
  ASSUME NEW req \in Sealing, NEW hit \in BOOLEAN, NEW sid \in 1..MaxRuns
  PROVE  LET head   == SealedHistory(req, hit)
             seal   == SealFor(req, head, sid)
             report == ReportFor(req, head, sid, hit)
         IN  /\ seal \in SealTexts /\ seal \notin {Absent, Torn}
             /\ seal.head = head /\ seal.epw.head = head
             /\ report \in ReportTexts /\ report \notin {Absent, Torn}
             /\ report.seal = seal.epw /\ report.head = head
             /\ head # Broken /\ head # None
<1> DEFINE head == SealedHistory(req, hit)
           seal == SealFor(req, head, sid)
           report == ReportFor(req, head, sid, hit)
<1>1. req \in Request /\ ~ExtractRaises(req.values, req.config)
  BY DEF Sealing
<1>2. seal \in SealTexts /\ report \in ReportTexts
  BY DEF SealTexts, ReportTexts
<1>3. /\ head # Broken /\ head # None
      /\ {seal, report} \intersect {Absent, Torn} = {}
  BY <1>1, TextAssumption
<1>4. seal.head = head /\ seal.epw.head = head
  BY SealForHead
<1>5. report.seal = seal.epw /\ report.head = head
  BY DEF ReportFor
<1> HIDE DEF seal, report, head
<1>6. seal \notin {Absent, Torn} /\ report \notin {Absent, Torn}
  BY <1>3
<1>7. QED BY <1>2, <1>3, <1>4, <1>5, <1>6 DEF seal, report, head

\* Where the run of the command stands when it has returned.
LEMMA DoneFacts ==
  ASSUME Beneath, proc[Me].pc = "done"
  PROVE  LET req == proc[Me].req
         IN  /\ req \in Sealing /\ req.run \in RunIds
             /\ proc[Me].hit \in BOOLEAN /\ proc[Me].sid \in 1..MaxRuns
             /\ proc[Me].prev = SealedHistory(req, proc[Me].hit)
             /\ proc[Me].prev \in Seq(Event)
             /\ disk[SealPath(req)] = SealOf(Me) /\ disk[ReportPath(req)] = ReportOf(Me)
             /\ audit[req.run] \in LogFile /\ audit[req.run] \in Seq(LoggedLine)
             /\ audit[req.run] # << >>
<1>1. /\ proc[Me] \in RunRecord /\ RunOK(proc[Me])
      /\ audit \in [RunIds -> LogFile]
  BY MeAlone DEF Beneath, IInv, Types, Progress
<1>2. /\ proc[Me].req \in Request /\ ~ExtractRaises(proc[Me].req.values, proc[Me].req.config)
      /\ proc[Me].hit \in BOOLEAN /\ proc[Me].sid \in 1..MaxRuns
      /\ proc[Me].prev = SealedHistory(proc[Me].req, proc[Me].hit)
      /\ proc[Me].prev \in Seq(Event)
  BY <1>1 DEF RunRecord, RunOK, Past
<1>3. proc[Me].req.run \in RunIds
  BY <1>2, RequestWords
<1>4. proc[Me].prev # << >>
  BY <1>2 DEF SealedHistory
<1>5. proc[Me].prev \in Logged(proc[Me].req.run)
  BY <1>3, <1>4, MeAlone DEF Beneath, IInv, HeadsLogged
<1>6. audit[proc[Me].req.run] # << >>
  BY <1>5 DEF Logged, Closed
<1>7. /\ disk[SealPath(proc[Me].req)] = SealOf(Me)
      /\ disk[ReportPath(proc[Me].req)] = ReportOf(Me)
  BY DEF Beneath, OwnFiles, SealOf, ReportOf
<1>8. audit[proc[Me].req.run] \in LogFile /\ audit[proc[Me].req.run] \in Seq(LoggedLine)
  BY <1>1, <1>3 DEF LogFile
<1>9. QED BY <1>2, <1>3, <1>6, <1>7, <1>8 DEF Sealing

\* The verdicts that the command writes out can be read.
LEMMA VerdictText ==
  ASSUME Beneath, proc[Me].pc = "done", NEW values
  PROVE  LET req == proc[Me].req
             v   == VerifyJson(values, req)
         IN  /\ v \in VerdictTexts /\ v \notin {Absent, Torn}
             /\ v.seal = SealOf(Me).epw
             /\ v.ok <=> VerifySeal(values, SealOf(Me), FileVerdict(audit[req.run])) = None
<1> DEFINE req == proc[Me].req
           v == VerifyJson(values, req)
<1>1. /\ req \in Sealing /\ proc[Me].hit \in BOOLEAN /\ proc[Me].sid \in 1..MaxRuns
      /\ proc[Me].prev = SealedHistory(req, proc[Me].hit) /\ proc[Me].prev \in Seq(Event)
      /\ disk[SealPath(req)] = SealOf(Me) /\ audit[req.run] # << >>
  BY DoneFacts
<1>2. SealOf(Me) \in SealTexts
  BY <1>1, TextFacts DEF SealOf
<1>3. LogVerdict(req.run) = FileVerdict(audit[req.run])
  BY <1>1 DEF LogVerdict, FileVerdict
<1>4. /\ SelfVerdict(values, req) = VerifySeal(values, SealOf(Me), FileVerdict(audit[req.run]))
      /\ SelfVerdict(values, req) \in SealReasons \union {None}
  BY <1>1, <1>3, VerdictRange DEF SelfVerdict
<1>5. /\ v.seal = SealOf(Me).epw
      /\ v.ok <=> VerifySeal(values, SealOf(Me), FileVerdict(audit[req.run])) = None
  BY <1>4 DEF VerifyJson
<1>6. v \in VerdictTexts
  BY <1>1, <1>2, <1>4 DEF VerifyJson, VerdictTexts
<1>7. v \notin {Absent, Torn}
  BY <1>6, FileAssumption
<1>8. QED BY <1>5, <1>6, <1>7

-----------------------------------------------------------------------------
(* The pipeline under the bundle *)

\* A run that has written no evidence yet has none to lose.
LEMMA NothingWritten ==
  ASSUME NEW r, r.pc \notin {"c2pa_stub", "reports", "done"}, ~r.filling
  PROVE  OwnFiles(r)'
BY DEF OwnFiles

\* What the pipeline does keeps what is known of it.
LEMMA BeneathMoves ==
  ASSUME Beneath,
         (\E req \in Request : Start(Me, req)) \/ Step(Me) \/ Crash(Me)
  PROVE  Beneath'
<1>1. [Next]_vars /\ Me \in Proc
  BY MeAlone DEF Next
<1>2. IInv' /\ Solitude'
  BY <1>1, NextIInv, NextSolitude DEF Beneath
<1>3. /\ proc[Me] \in RunRecord /\ RunOK(proc[Me]) /\ proc \in [Proc -> RunRecord]
      /\ proc' \in [Proc -> RunRecord]
  BY <1>1, <1>2 DEF Beneath, IInv, Types, Progress
<1>4. CASE OpenFile(Me)
  BY <1>1, <1>2, <1>4, OwnFilesOpen DEF Beneath
<1>5. CASE FillFile(Me)
  BY <1>1, <1>2, <1>5, OwnFilesFill DEF Beneath
<1>6. CASE ~OpenFile(Me) /\ ~FillFile(Me)
  <2>1. proc'[Me].pc \notin {"c2pa_stub", "reports", "done"} /\ ~proc'[Me].filling
    <3>1. ASSUME NEW req \in Request, Start(Me, req)
          PROVE  proc'[Me].pc = "received" /\ ~proc'[Me].filling
      <4>1. PICK alone : proc'[Me] = [Idle EXCEPT !.pc = "received", !.req = req, !.sid = runs',
                                         !.alone = alone]
        BY <1>1, <3>1 DEF Start
      <4>2. QED BY <4>1 DEF Idle
    <3>2. ASSUME Crash(Me) PROVE proc'[Me] = Idle
      BY <1>1, <1>3, <3>2 DEF Crash
    <3>3. ASSUME NEW next \in {"policy", "denied", "features", "lookup", "emit", "store", "seals"},
                 LogEvents(Me, next), ~proc[Me].filling
          PROVE  proc'[Me].pc = next /\ ~proc'[Me].filling
      BY <1>1, <1>3, <3>3 DEF LogEvents, RunRecord
    <3>4. ASSUME Received(Me) \/ Policy(Me) \/ Features(Me) \/ Cached(Me) \/ Emit(Me)
          PROVE  proc'[Me].pc \notin {"c2pa_stub", "reports", "done"} /\ ~proc'[Me].filling
      <4>1. ~proc[Me].filling
        BY <1>3, <3>4 DEF RunOK, AfterWrite, Received, Policy, Features, Cached, Emit
      <4>2. \E next \in {"policy", "denied", "features", "lookup", "emit", "store", "seals"} :
              LogEvents(Me, next)
        BY <3>4 DEF Received, Policy, Features, Cached, Emit
      <4>3. QED BY <3>3, <4>1, <4>2
    <3>5. ASSUME FeaturesRaise(Me)
          PROVE  proc'[Me].pc = "raised" /\ ~proc'[Me].filling
      <4>1. ~proc[Me].filling
        BY <1>3, <3>5 DEF RunOK, AfterWrite, FeaturesRaise
      <4>2. QED BY <1>1, <1>3, <3>5, <4>1 DEF FeaturesRaise, RunRecord
    <3>6. ASSUME Lookup(Me)
          PROVE  proc'[Me].pc = "cached" /\ ~proc'[Me].filling
      <4>1. ~proc[Me].filling
        BY <1>3, <3>6 DEF RunOK, AfterWrite, Lookup
      <4>2. PICK hit : proc' = [proc EXCEPT ![Me].pc = "cached", ![Me].hit = hit]
        BY <3>6 DEF Lookup
      <4>3. QED BY <1>1, <1>3, <4>1, <4>2 DEF RunRecord
    <3>7. Idle.pc = "idle" /\ ~Idle.filling
      BY DEF Idle
    <3>8. QED BY <1>6, <3>1, <3>2, <3>4, <3>5, <3>6, <3>7 DEF Step
  <2>2. QED BY <1>2, <2>1, NothingWritten DEF Beneath, OwnFiles
<1>7. QED BY <1>4, <1>5, <1>6

\* A command that ends takes its run with it.
LEMMA BeneathEnds ==
  ASSUME Beneath, proc' = [proc EXCEPT ![Me] = Idle], UNCHANGED <<audit, disk, runs>>
  PROVE  Beneath'
<1>1. Idle \in RunRecord /\ RunOK(Idle) /\ Idle.prev = << >>
  BY BoundAssumption DEF Idle, RunRecord, RunOK, Ended, Genesis, Past
<1>2. DOMAIN disk' = Paths /\ runs' \in 0..MaxRuns
  BY DEF Beneath, IInv, Types
<1>3. IInv'
  BY <1>1, <1>2, MeAlone, MoveKeeps DEF Beneath
<1>4. proc'[Me] = Idle
  BY MeAlone DEF Beneath, IInv, Types
<1>5. ~Idle.alone /\ Idle.pc = "idle" /\ ~Idle.filling
  BY DEF Idle
<1>6. Solitude'
  BY <1>4, <1>5, MeAlone DEF Solitude, Undisturbed
<1>7. OwnFiles(proc[Me])'
  BY <1>4, <1>5 DEF OwnFiles
<1>8. QED BY <1>3, <1>6, <1>7 DEF Beneath

LEMMA BeneathStays == Beneath /\ UNCHANGED vars => Beneath'
<1> SUFFICES ASSUME Beneath, UNCHANGED vars PROVE Beneath'
  OBVIOUS
<1>1. IInv' /\ Solitude'
  BY NextIInv, NextSolitude DEF Beneath
<1>2. OwnFiles(proc[Me])'
  BY DEF Beneath, OwnFiles, vars
<1>3. QED BY <1>1, <1>2 DEF Beneath

-----------------------------------------------------------------------------
(* The command keeps the invariant *)

\* The place of a file in the order tells which one it is.
LEMMA CurrentFacts ==
  ASSUME Copying, Shape
  PROVE  LET n == Len(FlatOrder(proc[Me].req))
         IN  /\ n \in 6..9 /\ step \in 1..n
             /\ Current = "artifact" <=> step = 1
             /\ Current = "audit" <=> step = 2
             /\ Current = "seal" <=> step = 3
             /\ Current = "verify" <=> step = 4
             /\ Current = "report" <=> step = n - 1
             /\ Current = "manifest" <=> step = n
             /\ Current \in Names
<1> DEFINE order == FlatOrder(proc[Me].req)
           n == Len(order)
<1>1. /\ n \in 6..9
      /\ order[1] = "artifact" /\ order[2] = "audit" /\ order[3] = "seal"
      /\ order[4] = "verify" /\ order[n - 1] = "report" /\ order[n] = "manifest"
      /\ \A i \in 5..(n - 2) : order[i] \in {"verify_ok", "tampered", "verify_fail"}
  BY OrderFacts
<1>2. step \in Int /\ 1 <= step /\ step <= n /\ Current = order[step]
  BY DEF Copying, Shape, Current
<1> HIDE DEF order, n
<1>3. step \in 1..n
  BY <1>1, <1>2
<1>4. \/ step \in {1, 2, 3, 4, n - 1, n}
      \/ step \in 5..(n - 2)
  BY <1>1, <1>3
<1>5. CASE step \in 5..(n - 2)
  <2>1. /\ step # 1 /\ step # 2 /\ step # 3 /\ step # 4 /\ step # n - 1 /\ step # n
        /\ Current \in {"verify_ok", "tampered", "verify_fail"}
    BY <1>1, <1>2, <1>5
  <2>2. QED BY <1>1, <1>3, <2>1 DEF Names, Listed, n, order
<1>6. CASE step \in {1, 2, 3, 4, n - 1, n}
  BY <1>1, <1>2, <1>3, <1>6 DEF Names, Listed, n, order
<1>7. QED BY <1>4, <1>5, <1>6

\* There are always as many files to write.
LEMMA OrderLength == \A req : Len(FlatOrder(req)) \in 6..9
BY OrderFacts

LEMMA OrderLengthNext == (\A req : Len(FlatOrder(req)) \in 6..9)'
BY OrderLength, PTL

\* Before the first file is opened nothing has to be in place.
LEMMA StartsOver ==
  ASSUME BInv, Beneath', UNCHANGED flat, step' = 1, ~opened', command' \in Commands,
         source' \in Sources
  PROVE  BInv'
<1>1. Shape'
  BY DEF BInv, Shape
<1>2. FlatTexts'
  BY DEF BInv, FlatTexts
<1>3. InPlace'
  <2>1. PICK n \in 6..9 : n = Len(FlatOrder(proc[Me].req))'
    BY OrderLengthNext
  <2>2. /\ ~(1 > 1) /\ ~(1 > 2) /\ ~(1 > 3) /\ ~(1 > 4)
        /\ ~(1 > n - 1) /\ ~(1 > n)
    OBVIOUS
  <2>3. QED BY <2>1, <2>2 DEF InPlace
<1>4. QED BY <1>1, <1>2, <1>3 DEF BInv

\* What the command writes depends on nothing that it writes itself, but for the
\* manifest, which depends on the files that it lists.
LEMMA ReadsAlike ==
  ASSUME UNCHANGED <<vars, command, source>>
  PROVE  /\ \A req : FlatOrder(req)' = FlatOrder(req)
         /\ \A values, req : VerifyJson(values, req)' = VerifyJson(values, req)
         /\ SealOf(Me)' = SealOf(Me) /\ ReportOf(Me)' = ReportOf(Me)
         /\ CopiedArtifact' = CopiedArtifact
         /\ (\A name \in Listed : flat'[name] = flat[name]) =>
              \A req : ManifestJson(req)' = ManifestJson(req)
<1>1. UNCHANGED <<proc, audit, disk, command, source>>
  BY DEF vars
<1>2. \A values, req : SelfVerdict(values, req)' = SelfVerdict(values, req)
  BY <1>1 DEF SelfVerdict, LogVerdict, SealPath
<1>3. \A req : FlatOrder(req)' = FlatOrder(req)
  BY <1>1, <1>2 DEF FlatOrder, Demonstration
<1>4. SealOf(Me)' = SealOf(Me) /\ ReportOf(Me)' = ReportOf(Me)
  BY <1>1 DEF SealOf, ReportOf
<1>5. \A values, req : VerifyJson(values, req)' = VerifyJson(values, req)
  BY <1>1, <1>2, <1>4 DEF VerifyJson
<1>6. CopiedArtifact' = CopiedArtifact
  BY <1>1 DEF CopiedArtifact
<1>7. ASSUME \A name \in Listed : flat'[name] = flat[name], NEW req
      PROVE  ManifestJson(req)' = ManifestJson(req)
  BY <1>1, <1>4, <1>7 DEF ManifestJson, Present, Listed
<1>8. QED BY <1>3, <1>4, <1>5, <1>6, <1>7

\* The bytes copied are those of the artifact, or of what replaced it.
LEMMA CopiedBytes ==
  ASSUME BInv, proc[Me].pc = "done"
  PROVE  CopiedArtifact \in {Absent} \union Seq(Byte)
<1>1. proc[Me].req \in Request
  BY DoneFacts DEF BInv, Sealing
<1>2. \A req \in Request : req.values \in Seq(Byte)
  BY RequestAssumption
<1>3. source \in {Absent} \union Seq(Byte)
  BY <1>2, ReplacementAssumption DEF BInv, Shape, Sources
<1>4. QED BY <1>1, <1>2, <1>3 DEF CopiedArtifact

\* With all the other files in place the manifest lists every one of them, and
\* they are of one run.
LEMMA ManifestMade ==
  ASSUME BInv, proc[Me].pc = "done", step > Len(FlatOrder(proc[Me].req)) - 1
  PROVE  LET req == proc[Me].req
             m   == ManifestJson(req)
         IN  /\ \A name \in Listed : Present(name)
             /\ DOMAIN m.files = Listed
             /\ \A name \in Listed : m.files[name] = flat[name]
             /\ m.seal = SealOf(Me).epw /\ m.head = proc[Me].prev
             /\ m.values = req.values /\ m.report = ReportOf(Me)
             /\ OneRun(m) /\ m \notin {Absent, Torn}
<1> DEFINE req == proc[Me].req
           m == ManifestJson(req)
           verdict == VerifyJson(req.values, req)
<1>1. /\ req \in Sealing /\ proc[Me].hit \in BOOLEAN /\ proc[Me].sid \in 1..MaxRuns
      /\ proc[Me].prev = SealedHistory(req, proc[Me].hit) /\ proc[Me].prev \in Seq(Event)
      /\ audit[req.run] \in Seq(LoggedLine)
  BY DoneFacts DEF BInv
<1>2. PICK n \in 6..9 : n = Len(FlatOrder(req))
  BY OrderFacts
<1>3. step > n - 1 /\ step > 1 /\ step > 2 /\ step > 3 /\ step > 4
  <2>1. PICK i \in 1..10 : i = step
    BY DEF BInv, Shape
  <2>2. i > n - 1
    BY <1>2, <2>1
  <2>3. i > 1 /\ i > 2 /\ i > 3 /\ i > 4
    BY <2>2
  <2>4. QED BY <2>1, <2>2, <2>3
<1>4. /\ CopiedArtifact # Absent
      /\ flat["artifact"] = CopiedArtifact /\ flat["audit"] = audit[req.run]
      /\ flat["seal"] = SealOf(Me) /\ flat["verify"] = verdict
      /\ flat["report"] = ReportOf(Me)
  BY <1>2, <1>3 DEF BInv, InPlace
<1>5. /\ SealOf(Me) \in SealTexts /\ SealOf(Me) \notin {Absent, Torn}
      /\ ReportOf(Me) \in ReportTexts /\ ReportOf(Me) \notin {Absent, Torn}
  BY <1>1, TextFacts DEF SealOf, ReportOf
<1>6. /\ verdict \in VerdictTexts /\ verdict \notin {Absent, Torn}
      /\ verdict.seal = SealOf(Me).epw
      /\ verdict.ok <=>
           VerifySeal(req.values, SealOf(Me), FileVerdict(audit[req.run])) = None
  BY VerdictText DEF BInv
<1>7. CopiedArtifact \in Seq(Byte)
  BY <1>4, CopiedBytes
<1>8. flat["audit"] # Absent
  BY <1>1, <1>4, FileAssumption
<1>9. \A name \in Listed : Present(name)
  <2> HIDE DEF verdict
  <2>1. QED BY <1>4, <1>5, <1>6, <1>8 DEF Listed, Present
<1>10. m = [files |-> [name \in Listed |-> flat[name]], seal |-> SealOf(Me).epw,
            head |-> proc[Me].prev, values |-> req.values, report |-> flat["report"]]
  <2>1. {name \in Listed : Present(name)} = Listed
    BY <1>9
  <2>2. QED BY <2>1 DEF ManifestJson
<1>11. /\ DOMAIN m.files = Listed
       /\ \A name \in Listed : m.files[name] = flat[name]
       /\ m.seal = SealOf(Me).epw /\ m.head = proc[Me].prev
       /\ m.values = req.values /\ m.report = ReportOf(Me)
  BY <1>4, <1>10
<1>12. req.values \in Seq(Byte)
  BY <1>1, RequestAssumption DEF Sealing
<1>13. m \in ManifestTexts
  <2> DEFINE text == Seq(Byte) \union Seq(LoggedLine) \union SealTexts
                       \union ReportTexts \union VerdictTexts
  <2>1. \A name \in Listed : flat[name] \in text
    <3> HIDE DEF verdict
    <3>1. QED BY <1>1, <1>4, <1>5, <1>6, <1>7 DEF Listed
  <2> HIDE DEF text
  <2>2. [name \in Listed |-> flat[name]] \in [Listed -> text]
    BY <2>1
  <2>3. SealOf(Me).epw \in {seal.epw : seal \in SealTexts}
    BY <1>5
  <2>4. flat["report"] \in ReportTexts
    BY <1>4, <1>5
  <2>5. QED BY <1>1, <1>10, <1>12, <2>2, <2>3, <2>4 DEF ManifestTexts, text
<1>14. m \notin {Absent, Torn}
  BY <1>13, FileAssumption
<1>15. OneRun(m)
  <2>1. PICK hit \in BOOLEAN, sid \in 1..MaxRuns : hit = proc[Me].hit /\ sid = proc[Me].sid
    BY <1>1
  <2>2. /\ SealOf(Me) = SealFor(req, SealedHistory(req, hit), sid)
        /\ ReportOf(Me) = ReportFor(req, SealedHistory(req, hit), sid, hit)
        /\ proc[Me].prev = SealedHistory(req, hit)
    BY <1>1, <2>1 DEF SealOf, ReportOf
  <2>3. /\ m.files["seal"] = SealOf(Me) /\ m.files["report"] = m.report
        /\ m.files["verify"] = verdict /\ m.files["audit"] = audit[req.run]
    BY <1>4, <1>11 DEF Listed
  <2> HIDE DEF m, verdict, req
  <2>4. audit[req.run] # Absent
    BY <1>1, FileAssumption DEF req
  <2>5. QED BY <1>1, <1>6, <1>11, <2>2, <2>3, <2>4 DEF OneRun, req
<1>16. QED BY <1>9, <1>11, <1>14, <1>15

\* What is left of a line that is cut short.
LEMMA PartialLine ==
  ASSUME NEW line \in LoggedLine, NEW part \in CutShort(line)
  PROVE  part \in LoggedLine
<1>1. \A n \in 0..Len(line.joined) : SubSeq(line.joined, 1, n) \in Seq(Seq(Event))
  <2>1. line.joined \in Seq(Seq(Event))
    BY DEF LoggedLine
  <2>2. QED BY <2>1, Prefix
<1>2. << >> \in Seq(Seq(Event))
  OBVIOUS
<1>3. CASE part = [line EXCEPT !.whole = FALSE, !.joined = << >>, !.eol = FALSE]
  BY <1>2, <1>3 DEF LoggedLine
<1>4. ASSUME NEW n \in 0..Len(line.joined),
             part = [line EXCEPT !.joined = SubSeq(line.joined, 1, n), !.eol = FALSE]
      PROVE  part \in LoggedLine
  BY <1>1, <1>4 DEF LoggedLine
<1>5. QED BY <1>3, <1>4 DEF CutShort

\* A copy of a log that stops somewhere has lines, and only the last one may lack its
\* newline.
LEMMA CopyStops ==
  ASSUME NEW f \in LogFile, NEW g \in LogParts(f)
  PROVE  g \in LogFile
<1>1. f \in Seq(LoggedLine) /\ \A i \in 1..(Len(f) - 1) : f[i].eol
  BY DEF LogFile
<1>2. PICK n \in 0..Len(f) :
        \/ g = SubSeq(f, 1, n)
        \/ n # Len(f) /\ \E part \in CutShort(f[n + 1]) : g = Append(SubSeq(f, 1, n), part)
  BY DEF LogParts
<1> DEFINE h == SubSeq(f, 1, n)
<1>3. h \in Seq(LoggedLine) /\ Len(h) = n /\ \A i \in 1..n : h[i] = f[i]
  BY <1>1, Prefix
<1>4. \A i \in 1..(n - 1) : i \in 1..n /\ i \in 1..(Len(f) - 1)
  <2>1. n \in Nat /\ Len(f) \in Nat /\ n <= Len(f)
    BY <1>1
  <2>2. QED BY <2>1
<1>5. \/ g = h
      \/ n # Len(f) /\ \E part \in CutShort(f[n + 1]) : g = Append(h, part)
  BY <1>2
<1> HIDE DEF h
<1>6. CASE g = h
  <2>1. \A i \in 1..(Len(g) - 1) : g[i].eol
    BY <1>1, <1>3, <1>4, <1>6
  <2>2. QED BY <1>3, <1>6, <2>1 DEF LogFile
<1>7. CASE n # Len(f) /\ \E part \in CutShort(f[n + 1]) : g = Append(h, part)
  <2>1. n + 1 \in 1..Len(f) /\ \A i \in 1..n : i \in 1..(Len(f) - 1)
    BY <1>1, <1>2, <1>7
  <2>2. PICK part \in CutShort(f[n + 1]) : g = Append(h, part)
    BY <1>7
  <2>3. f[n + 1] \in LoggedLine
    BY <1>1, <2>1
  <2>4. part \in LoggedLine
    BY <2>2, <2>3, PartialLine
  <2>5. /\ g \in Seq(LoggedLine) /\ Len(g) = n + 1
        /\ \A i \in 1..n : g[i] = h[i]
    BY <1>3, <2>2, <2>4, AppendProperties
  <2>6. \A i \in 1..(Len(g) - 1) : g[i].eol
    <3>1. Len(g) - 1 = n
      BY <2>5
    <3>2. QED BY <1>1, <1>3, <2>1, <2>5, <3>1
  <2>7. QED BY <2>5, <2>6 DEF LogFile
<1>8. QED BY <1>5, <1>6, <1>7

\* A file that is being written holds part of what it will.
LEMMA OpenKeeps == BInv /\ OpenFlat => BInv'
<1> SUFFICES ASSUME BInv, OpenFlat PROVE BInv'
  OBVIOUS
<1> DEFINE req == proc[Me].req
           n == Len(FlatOrder(req))
<1>1. /\ Copying /\ ~opened /\ opened' = TRUE /\ FlatContent(Current) # Absent
      /\ UNCHANGED <<vars, command, source, step>>
  BY DEF OpenFlat
<1>2. PICK part \in PartOf(Current) : flat' = [flat EXCEPT ![Current] = part]
  BY DEF OpenFlat
<1>3. /\ proc[Me].pc = "done" /\ n \in 6..9 /\ step \in 1..n
      /\ Current = "artifact" <=> step = 1
      /\ Current = "audit" <=> step = 2
      /\ Current = "seal" <=> step = 3
      /\ Current = "verify" <=> step = 4
      /\ Current = "report" <=> step = n - 1
      /\ Current = "manifest" <=> step = n
      /\ Current \in Names
  BY <1>1, CurrentFacts DEF BInv, Copying
<1>4. /\ flat'[Current] = part
      /\ \A name \in Names : name # Current => flat'[name] = flat[name]
      /\ DOMAIN flat' = Names
  BY <1>2, <1>3 DEF BInv, Shape
<1>5. /\ proc' = proc /\ audit' = audit /\ FlatOrder(req)' = FlatOrder(req)
      /\ VerifyJson(req.values, req)' = VerifyJson(req.values, req)
      /\ SealOf(Me)' = SealOf(Me) /\ ReportOf(Me)' = ReportOf(Me)
      /\ CopiedArtifact' = CopiedArtifact
  BY <1>1, ReadsAlike DEF vars
<1>6. Beneath'
  BY <1>1, BeneathStays DEF BInv
<1>7. Shape'
  <2>1. Copying'
    BY <1>1, <1>5 DEF Copying
  <2>2. QED BY <1>1, <1>3, <1>4, <1>5, <2>1 DEF BInv, Shape
<1>8. step = 1 => CopiedArtifact # Absent
  BY <1>1, <1>3 DEF FlatContent
<1>9. CopiedArtifact # Absent
  <2>1. step > 1 => CopiedArtifact # Absent
    BY <1>3 DEF BInv, InPlace
  <2>2. step = 1 \/ step > 1
    BY <1>3
  <2>3. QED BY <1>8, <2>1, <2>2
<1>10. FlatTexts'
  <2>1. CopiedArtifact \in Seq(Byte) /\ audit[req.run] \in LogFile
    BY <1>3, <1>9, CopiedBytes, DoneFacts DEF BInv
  <2>2. \A S : \A s \in Seq(S) : \A k \in 0..Len(s) : SubSeq(s, 1, k) \in Seq(S)
    BY Prefix
  <2>3. Current = "artifact" => part \in Seq(Byte)
    <3>1. ASSUME Current = "artifact" PROVE \E k \in 0..Len(CopiedArtifact) : part = SubSeq(CopiedArtifact, 1, k)
      BY <1>2, <3>1 DEF PartOf, FlatContent
    <3>2. QED BY <2>1, <2>2, <3>1
  <2>4. Current = "audit" => part \in LogFile
    <3>1. ASSUME Current = "audit" PROVE part \in LogParts(audit[req.run])
      BY <1>2, <3>1 DEF PartOf, FlatContent
    <3>2. QED BY <2>1, <3>1, CopyStops
  <2>5. Current \in {"seal", "report", "manifest"} => part = Torn
    BY <1>2 DEF PartOf
  <2>6. {"artifact", "audit", "seal", "report", "manifest"} \subseteq Names
    BY DEF Names, Listed
  <2>7. QED BY <1>4, <2>3, <2>4, <2>5, <2>6 DEF BInv, FlatTexts
<1>11. InPlace'
  <2>1. {"artifact", "audit", "seal", "verify", "report"} \subseteq Names
    BY DEF Names, Listed
  <2>2. /\ step > 1 => Current # "artifact"
        /\ step > 2 => Current # "audit"
        /\ step > 3 => Current # "seal"
        /\ step > 4 => Current # "verify"
        /\ step > n - 1 => Current # "report"
        /\ ~(step > n)
    BY <1>3
  <2> HIDE DEF n
  <2>3. /\ step > 1 => flat'["artifact"] = CopiedArtifact
        /\ step > 2 => flat'["audit"] = audit[req.run]
        /\ step > 3 => flat'["seal"] = SealOf(Me)
        /\ step > 4 => flat'["verify"] = VerifyJson(req.values, req)
        /\ step > n - 1 => flat'["report"] = ReportOf(Me)
    BY <1>3, <1>4, <2>1, <2>2 DEF BInv, InPlace, n
  <2>4. step' = step /\ Len(FlatOrder(req))' = n
    BY <1>1, <1>5 DEF n
  <2>5. QED BY <1>5, <1>9, <2>2, <2>3, <2>4 DEF InPlace
<1>12. QED BY <1>6, <1>7, <1>10, <1>11 DEF BInv

\* A file that has been written holds what the command meant it to.
LEMMA FillKeeps == BInv /\ FillFlat => BInv'
<1> SUFFICES ASSUME BInv, FillFlat PROVE BInv'
  OBVIOUS
<1> DEFINE req == proc[Me].req
           n == Len(FlatOrder(req))
<1>1. /\ Copying /\ opened /\ opened' = FALSE /\ step' = step + 1
      /\ flat' = [flat EXCEPT ![Current] = FlatContent(Current)]
      /\ UNCHANGED <<vars, command, source>>
  BY DEF FillFlat
<1>2. /\ proc[Me].pc = "done" /\ n \in 6..9 /\ step \in 1..n
      /\ Current = "artifact" <=> step = 1
      /\ Current = "audit" <=> step = 2
      /\ Current = "seal" <=> step = 3
      /\ Current = "verify" <=> step = 4
      /\ Current = "report" <=> step = n - 1
      /\ Current = "manifest" <=> step = n
      /\ Current \in Names
  BY <1>1, CurrentFacts DEF BInv, Copying
<1>3. /\ flat'[Current] = FlatContent(Current)
      /\ \A name \in Names : name # Current => flat'[name] = flat[name]
      /\ DOMAIN flat' = Names
  BY <1>1, <1>2 DEF BInv, Shape
<1>4. /\ proc' = proc /\ audit' = audit /\ FlatOrder(req)' = FlatOrder(req)
      /\ VerifyJson(req.values, req)' = VerifyJson(req.values, req)
      /\ SealOf(Me)' = SealOf(Me) /\ ReportOf(Me)' = ReportOf(Me)
      /\ CopiedArtifact' = CopiedArtifact
      /\ (\A name \in Listed : flat'[name] = flat[name]) =>
           ManifestJson(req)' = ManifestJson(req)
  BY <1>1, ReadsAlike DEF vars
<1>5. Beneath'
  BY <1>1, BeneathStays DEF BInv
<1>6. step' \in 1..10 /\ ~opened' /\ step' > 1
  <2>1. PICK i \in 1..9 : i = step
    <3>1. n \in 6..9 /\ step \in 1..n
      BY <1>2
    <3> HIDE DEF n
    <3>2. step \in 1..9
      BY <3>1
    <3>3. QED BY <3>2
  <2>2. i + 1 \in 1..10 /\ i + 1 > 1
    OBVIOUS
  <2>3. QED BY <1>1, <2>1, <2>2
<1>7. Shape'
  BY <1>1, <1>2, <1>3, <1>4, <1>6 DEF BInv, Shape
<1>8. CopiedArtifact # Absent
  BY <1>1, <1>2 DEF BInv, InPlace
<1>9. /\ FlatContent("artifact") = CopiedArtifact
      /\ FlatContent("audit") = audit[req.run]
      /\ FlatContent("seal") = SealOf(Me)
      /\ FlatContent("verify") = VerifyJson(req.values, req)
      /\ FlatContent("report") = ReportOf(Me)
      /\ FlatContent("manifest") = ManifestJson(req)
  BY <1>2, DoneFacts DEF FlatContent, BInv
<1>10. FlatTexts'
  <2>1. CopiedArtifact \in Seq(Byte)
    BY <1>2, <1>8, CopiedBytes DEF BInv
  <2>2. audit[req.run] \in LogFile
    BY <1>2, DoneFacts DEF BInv
  <2>3. SealOf(Me) \in SealTexts /\ ReportOf(Me) \in ReportTexts
    <3>1. /\ req \in Sealing /\ proc[Me].hit \in BOOLEAN /\ proc[Me].sid \in 1..MaxRuns
          /\ proc[Me].prev = SealedHistory(req, proc[Me].hit)
      BY <1>2, DoneFacts DEF BInv
    <3>2. QED BY <3>1, TextFacts DEF SealOf, ReportOf
  <2>4. Current = "manifest" => OneRun(ManifestJson(req))
    <3>1. step = n => step > n - 1
      BY <1>2
    <3>2. QED BY <1>2, <3>1, ManifestMade
  <2>5. {"artifact", "audit", "seal", "report", "manifest"} \subseteq Names
    BY DEF Names, Listed
  <2> HIDE DEF n, req
  <2>6. QED BY <1>3, <1>9, <2>1, <2>2, <2>3, <2>4, <2>5 DEF BInv, FlatTexts
<1>11. InPlace'
  <2>1. Listed \subseteq Names
    BY DEF Names
  <2>2. /\ step' > 1 => step > 1 \/ Current = "artifact"
        /\ step' > 2 => step > 2 \/ Current = "audit"
        /\ step' > 3 => step > 3 \/ Current = "seal"
        /\ step' > 4 => step > 4 \/ Current = "verify"
        /\ step' > n - 1 => step > n - 1 \/ Current = "report"
        /\ step' > n => Current = "manifest"
    BY <1>1, <1>2
  <2> HIDE DEF n
  <2>3. /\ step > 1 => flat["artifact"] = CopiedArtifact
        /\ step > 2 => flat["audit"] = audit[req.run]
        /\ step > 3 => flat["seal"] = SealOf(Me)
        /\ step > 4 => flat["verify"] = VerifyJson(req.values, req)
        /\ step > n - 1 => flat["report"] = ReportOf(Me)
    BY <1>2 DEF BInv, InPlace, n
  <2>4. \A name \in Listed : flat'[name] = flat[name] \/ Current = name
    BY <1>3, <2>1
  <2>5. /\ step' > 1 => flat'["artifact"] = CopiedArtifact
        /\ step' > 2 => flat'["audit"] = audit[req.run]
        /\ step' > 3 => flat'["seal"] = SealOf(Me)
        /\ step' > 4 => flat'["verify"] = VerifyJson(req.values, req)
        /\ step' > n - 1 => flat'["report"] = ReportOf(Me)
    BY <1>3, <1>9, <2>2, <2>3, <2>4 DEF Listed
  <2>6. step' > n => flat'["manifest"] = ManifestJson(req)'
    <3>1. Current = "manifest" => \A name \in Listed : flat'[name] = flat[name]
      BY <2>4 DEF Listed
    <3>2. QED BY <1>3, <1>4, <1>9, <2>2, <3>1
  <2>7. Len(FlatOrder(req))' = n
    BY <1>4 DEF n
  <2>8. QED BY <1>4, <1>8, <2>5, <2>6, <2>7 DEF InPlace
<1>12. QED BY <1>5, <1>7, <1>10, <1>11 DEF BInv

LEMMA StutterKeeps == BInv /\ UNCHANGED bundleVars => BInv'
<1> SUFFICES ASSUME BInv, UNCHANGED bundleVars PROVE BInv'
  OBVIOUS
<1>1. UNCHANGED <<vars, command, source, flat, step, opened, proc, audit>>
  BY DEF bundleVars, vars
<1>2. Beneath'
  BY <1>1, BeneathStays DEF BInv
<1>3. /\ \A req : FlatOrder(req)' = FlatOrder(req)
      /\ \A values, req : VerifyJson(values, req)' = VerifyJson(values, req)
      /\ SealOf(Me)' = SealOf(Me) /\ ReportOf(Me)' = ReportOf(Me)
      /\ CopiedArtifact' = CopiedArtifact
      /\ \A req : ManifestJson(req)' = ManifestJson(req)
  BY <1>1, ReadsAlike
<1>4. Shape'
  BY <1>1, <1>3 DEF BInv, Shape, Copying
<1>5. FlatTexts'
  BY <1>1 DEF BInv, FlatTexts
<1>6. InPlace'
  BY <1>1, <1>3 DEF BInv, InPlace
<1>7. QED BY <1>2, <1>4, <1>5, <1>6 DEF BInv

LEMMA InitBInv == BundleInit => BInv
<1> SUFFICES ASSUME BundleInit PROVE BInv
  OBVIOUS
<1>1. proc[Me] = Idle
  BY MeAlone DEF BundleInit, Init
<1>2. Idle.pc = "idle" /\ ~Idle.filling
  BY DEF Idle
<1>3. Beneath
  BY <1>1, <1>2, InitIInv, InitSolitude DEF BundleInit, Beneath, OwnFiles
<1>4. Shape
  BY DEF BundleInit, Shape, Commands, Sources
<1>5. FlatTexts
  BY DEF BundleInit, FlatTexts, Names, Listed
<1>6. InPlace
  BY <1>1, <1>2 DEF InPlace
<1>7. QED BY <1>3, <1>4, <1>5, <1>6 DEF BInv

LEMMA NextBInv == BInv /\ [BundleNext]_bundleVars => BInv'
<1> SUFFICES ASSUME BInv, [BundleNext]_bundleVars PROVE BInv'
  OBVIOUS
<1>1. ASSUME NEW cmd \in Commands, NEW req \in Request, Invoke(cmd, req) PROVE BInv'
  <2>1. /\ ~Copying /\ Start(Me, req) /\ command' = cmd /\ source' = req.values
        /\ step' = 1 /\ UNCHANGED <<flat, opened>>
    BY <1>1 DEF Invoke
  <2>2. ~opened' /\ source' \in Sources
    BY <2>1 DEF BInv, Shape, Sources
  <2>3. Beneath'
    BY <2>1, BeneathMoves DEF BInv
  <2>4. QED BY <2>1, <2>2, <2>3, StartsOver
<1>2. CASE RunPipeline
  <2>1. Step(Me) /\ UNCHANGED <<flat, command, source, step, opened>>
    BY <1>2 DEF RunPipeline
  <2>2. proc[Me].pc # "done"
    BY <2>1 DEF Step, Received, Policy, Features, FeaturesRaise, Lookup, Cached, Emit,
                OpenFile, FillFile, Writing, AfterWrite
  <2>3. step' = 1 /\ ~opened' /\ command' \in Commands
        /\ source' \in Sources
    BY <2>1, <2>2 DEF BInv, Shape
  <2>4. Beneath'
    BY <2>1, BeneathMoves DEF BInv
  <2>5. QED BY <2>1, <2>3, <2>4, StartsOver
<1>3. ASSUME NEW content \in Replacement \union {Absent}, ChangeSource(content)
      PROVE  BInv'
  <2>1. /\ step' = 1 /\ ~opened' /\ command' \in Commands
        /\ source' \in Sources
        /\ UNCHANGED <<vars, flat>>
    BY <1>3 DEF ChangeSource, BInv, Shape, Sources
  <2>2. Beneath'
    BY <2>1, BeneathStays DEF BInv
  <2>3. QED BY <2>1, <2>2, StartsOver
<1>4. CASE OpenFlat
  BY <1>4, OpenKeeps
<1>5. CASE CopyRaises
  <2>1. /\ step' = 1 /\ ~opened' /\ command' \in Commands
        /\ source' \in Sources
        /\ proc' = [proc EXCEPT ![Me] = Idle] /\ UNCHANGED <<audit, disk, runs, flat>>
    BY <1>5 DEF CopyRaises, BInv, Shape
  <2>2. Beneath'
    BY <2>1, BeneathEnds DEF BInv
  <2>3. QED BY <2>1, <2>2, StartsOver
<1>6. CASE FillFlat
  BY <1>6, FillKeeps
<1>7. CASE Die
  <2>1. /\ step' = 1 /\ ~opened' /\ command' \in Commands /\ UNCHANGED flat
        /\ source' \in Sources
        /\ \/ Crash(Me)
           \/ proc' = [proc EXCEPT ![Me] = Idle] /\ UNCHANGED <<audit, disk, runs>>
    BY <1>7 DEF Die, BInv, Shape
  <2>2. Beneath'
    BY <2>1, BeneathMoves, BeneathEnds DEF BInv
  <2>3. QED BY <2>1, <2>2, StartsOver
<1>8. CASE UNCHANGED bundleVars
  BY <1>8, StutterKeeps
<1>9. QED BY <1>1, <1>2, <1>3, <1>4, <1>5, <1>6, <1>7, <1>8 DEF BundleNext

\* Whatever commands ran, died and ran again in the directory: its files are
\* those of runs, and each is in place when the command has come past it.
THEOREM BundleInvariant == BundleSpec => []BInv
BY InitBInv, NextBInv, PTL DEF BundleSpec

-----------------------------------------------------------------------------
(* What the verdict is worth *)

\* Every variable has its type.  What has been copied of an artifact is bytes, what has
\* been copied of a log is the log of a run up to some place, which may be in the middle
\* of a line: but only the last line may lack its newline.
THEOREM BundleTypeCorrect == BundleSpec => []BundleTypeOK
<1>1. BInv => BundleTypeOK
  <2> SUFFICES ASSUME BInv PROVE BundleTypeOK
    OBVIOUS
  <2>1. TypeOK
    BY TypeFollows DEF BInv, Beneath
  <2>2. flat["audit"] # Torn
    BY FileAssumption DEF BInv, FlatTexts, LogFile
  <2>3. Present("audit") => \A i \in 1..(Len(flat["audit"]) - 1) : flat["audit"][i].eol
    BY DEF BInv, FlatTexts, Present, LogFile
  <2>4. source \in {Absent} \cup Replacement \cup {req.values : req \in Request}
    BY DEF BInv, Shape, Sources
  <2>5. QED BY <2>1, <2>2, <2>3, <2>4 DEF BInv, Shape, FlatTexts, BundleTypeOK
<1>2. QED BY <1>1, BundleInvariant, PTL

\* What a result is made of while the checks go on.
Answers(C, H) ==
  [ok : BOOLEAN, seal_valid : BOOLEAN, audit_chain_valid : BOOLEAN, manifest_valid : BOOLEAN,
   errors : Seq(C), reason : C \union {None}, audit_head_hash : H]

\* The reason is the first of the errors, if there is one.
FirstReason(result) ==
  result.reason = IF result.errors = << >> THEN None ELSE result.errors[1]

SameFlags(r, q) ==
  /\ r.ok = q.ok /\ r.seal_valid = q.seal_valid /\ r.audit_chain_valid = q.audit_chain_valid
  /\ r.manifest_valid = q.manifest_valid /\ r.audit_head_hash = q.audit_head_hash

LEMMA NoneIsNoCode == None \notin SealReasons /\ None \notin EarlyCode /\ None \notin Code
<1>1. None \notin Code
  BY FileAssumption
<1>2. QED BY <1>1 DEF EarlyCode, Code

\* A list that gets one more error.
LEMMA OneMore ==
  ASSUME NEW C, NEW s \in Seq(C), NEW c \in C
  PROVE  /\ Append(s, c) \in Seq(C) /\ Append(s, c) # << >>
         /\ Append(s, c)[1] = IF s = << >> THEN c ELSE s[1]
<1>1. /\ Append(s, c) \in Seq(C) /\ Len(Append(s, c)) = Len(s) + 1
      /\ Append(s, c)[Len(s) + 1] = c /\ \A i \in 1..Len(s) : Append(s, c)[i] = s[i]
  BY AppendProperties
<1>2. CASE s = << >>
  <2>1. Len(s) + 1 = 1
    BY <1>2
  <2>2. QED BY <1>1, <1>2, <2>1
<1>3. CASE s # << >>
  <2>1. 1 \in 1..Len(s)
    BY <1>3
  <2>2. QED BY <1>1, <1>3, <2>1
<1>4. QED BY <1>2, <1>3

\* An error that is listed clears no flag, and is the reason if it is the first.
LEMMA FailFacts ==
  ASSUME NEW C, NEW H, None \notin C, NEW result \in Answers(C, H), NEW code \in C,
         FirstReason(result)
  PROVE  LET failed == Fail(result, code)
         IN  /\ failed \in Answers(C, H) /\ SameFlags(failed, result)
             /\ failed.errors # << >> /\ FirstReason(failed)
<1> DEFINE failed == Fail(result, code)
<1>1. PICK errors : errors = Append(result.errors, code)
  OBVIOUS
<1>2. PICK reason : reason = IF result.reason = None THEN code ELSE result.reason
  OBVIOUS
<1>3. result.errors \in Seq(C) /\ result.reason \in C \union {None}
  BY DEF Answers
<1>4. /\ errors \in Seq(C) /\ errors # << >>
      /\ errors[1] = IF result.errors = << >> THEN code ELSE result.errors[1]
  BY <1>1, <1>3, OneMore
<1>5. reason \in C
  BY <1>2, <1>3
<1>6. reason = errors[1]
  <2>1. CASE result.errors = << >>
    BY <1>2, <1>4, <2>1 DEF FirstReason
  <2>2. CASE result.errors # << >>
    <3>1. 1 \in 1..Len(result.errors)
      BY <1>3, <2>2
    <3>2. result.errors[1] \in C
      BY <1>3, <3>1
    <3>3. QED BY <1>2, <1>4, <2>2, <3>2 DEF FirstReason
  <2>3. QED BY <2>1, <2>2
<1>7. failed = [result EXCEPT !.errors = errors, !.reason = reason]
  BY <1>1, <1>2 DEF Fail
<1> HIDE DEF failed
<1>8. /\ failed \in Answers(C, H) /\ failed.errors = errors /\ failed.reason = reason
      /\ SameFlags(failed, result)
  BY <1>4, <1>5, <1>7 DEF Answers, SameFlags
<1>9. QED BY <1>4, <1>6, <1>8 DEF FirstReason, failed

\* What the check of the seal makes of a blank result.
LEMMA AfterSeal ==
  ASSUME NEW seal, NEW H, None \in H
  PROVE  LET result == CheckSeal(Blank, seal)
         IN  /\ result \in Answers(EarlyCode, H) /\ FirstReason(result)
             /\ ~result.audit_chain_valid /\ ~result.manifest_valid
             /\ result.audit_head_hash = None
             /\ result.seal_valid <=> result.errors = << >>
             /\ result.seal_valid <=> VerifySeal(flat["artifact"], seal, None) = None
<1>1. PICK reason : reason = VerifySeal(flat["artifact"], seal, None)
  OBVIOUS
<1>2. reason \in EarlyCode \union {None}
  BY <1>1, VerdictRange DEF EarlyCode
<1>3. /\ Blank \in Answers(EarlyCode, H) /\ FirstReason(Blank)
      /\ ~Blank.seal_valid /\ ~Blank.audit_chain_valid /\ ~Blank.manifest_valid
      /\ Blank.audit_head_hash = None /\ Blank.errors = << >>
  BY DEF Blank, Answers, FirstReason
<1> DEFINE result == CheckSeal(Blank, seal)
<1>4. CASE reason = None
  <2>1. result = [Blank EXCEPT !.seal_valid = TRUE]
    BY <1>1, <1>4, NoneIsNoCode DEF CheckSeal, SealReasons
  <2> HIDE DEF result
  <2>2. /\ result \in Answers(EarlyCode, H) /\ result.seal_valid
        /\ result.errors = Blank.errors /\ result.reason = Blank.reason
        /\ ~result.audit_chain_valid /\ ~result.manifest_valid
        /\ result.audit_head_hash = None
    BY <1>3, <2>1 DEF Answers
  <2>3. QED BY <1>1, <1>3, <1>4, <2>2 DEF FirstReason, result
<1>5. CASE reason # None
  <2>1. PICK failed : failed = Fail(Blank, reason)
    OBVIOUS
  <2>2. /\ failed \in Answers(EarlyCode, H) /\ SameFlags(failed, Blank)
        /\ failed.errors # << >> /\ FirstReason(failed)
    BY <1>2, <1>3, <1>5, <2>1, FailFacts, NoneIsNoCode
  <2>3. result \in {failed, Fail(failed, "UNSUPPORTED_SCHEMA_VERSION")}
    BY <1>1, <1>5, <2>1 DEF CheckSeal
  <2>4. "UNSUPPORTED_SCHEMA_VERSION" \in EarlyCode
    BY DEF EarlyCode
  <2> HIDE DEF result
  <2>5. /\ result \in Answers(EarlyCode, H) /\ SameFlags(result, Blank)
        /\ result.errors # << >> /\ FirstReason(result)
    <3>1. CASE result = failed
      BY <2>2, <3>1
    <3>2. CASE result = Fail(failed, "UNSUPPORTED_SCHEMA_VERSION")
      <4>1. /\ result \in Answers(EarlyCode, H) /\ SameFlags(result, failed)
            /\ result.errors # << >> /\ FirstReason(result)
        BY <2>2, <2>4, <3>2, FailFacts, NoneIsNoCode
      <4>2. QED BY <2>2, <4>1 DEF SameFlags
    <3>3. QED BY <2>3, <3>1, <3>2
  <2>6. QED BY <1>1, <1>3, <1>5, <2>5 DEF SameFlags, result
<1>6. QED BY <1>4, <1>5

\* The log may be missing; if it is there, it verifies and ends in the seal's head.
LogFits(seal, log) == log = None \/ (log # Broken /\ seal.head = log)

\* What the check of the seal leaves for that of the audit log.
BeforeAudit(result) ==
  /\ FirstReason(result) /\ ~result.audit_chain_valid /\ result.audit_head_hash = None
  /\ result.seal_valid <=> result.errors = << >>

\* What the check of the audit log makes of that.
AuditChecked(next, result, seal, log) ==
  /\ FirstReason(next)
  /\ next.seal_valid = result.seal_valid /\ next.manifest_valid = result.manifest_valid
  /\ next.errors = << >> <=> result.errors = << >> /\ LogFits(seal, log)
  /\ next.errors = << >> /\ log # None => next.audit_chain_valid
  /\ next.errors = << >> => next.audit_head_hash = log

LEMMA AfterAudit ==
  ASSUME NEW seal, NEW log, NEW H, log \in H, NEW result \in Answers(EarlyCode, H),
         BeforeAudit(result)
  PROVE  /\ CheckAudit(result, seal, log) \in Answers(EarlyCode, H)
         /\ AuditChecked(CheckAudit(result, seal, log), result, seal, log)
<1> DEFINE next == CheckAudit(result, seal, log)
           C == EarlyCode
<1> USE DEF BeforeAudit, AuditChecked
<1>1. "AUDIT_CHAIN_BROKEN" \in EarlyCode
  BY DEF EarlyCode, SealReasons
<1>2. CASE log = None
  <2>1. next = result
    BY <1>2 DEF CheckAudit
  <2>2. QED BY <1>2, <2>1 DEF LogFits
<1>3. CASE log # None /\ log = Broken
  <2>1. next = Fail(result, "AUDIT_CHAIN_BROKEN")
    BY <1>3 DEF CheckAudit
  <2> HIDE DEF next
  <2>2. /\ next \in Answers(C, H) /\ SameFlags(next, result)
        /\ next.errors # << >> /\ FirstReason(next)
    BY <1>1, <2>1, FailFacts, NoneIsNoCode
  <2>3. QED BY <1>3, <2>2 DEF LogFits, SameFlags, next
<1>4. CASE log \notin {None, Broken}
  <2>1. PICK verified :
          verified = [result EXCEPT !.audit_chain_valid = TRUE, !.audit_head_hash = log]
    OBVIOUS
  <2>2. /\ verified \in Answers(C, H) /\ verified.audit_chain_valid
        /\ verified.audit_head_hash = log /\ verified.seal_valid = result.seal_valid
        /\ verified.manifest_valid = result.manifest_valid
        /\ verified.errors = result.errors /\ verified.reason = result.reason
    BY <2>1 DEF Answers
  <2>3. FirstReason(verified)
    BY <2>2 DEF FirstReason
  <2>4. CASE result.seal_valid /\ seal.head # log
    <3>1. PICK failed : failed = Fail(verified, "AUDIT_CHAIN_BROKEN")
      OBVIOUS
    <3>2. next = [failed EXCEPT !.audit_chain_valid = FALSE]
      BY <1>4, <2>1, <2>4, <3>1 DEF CheckAudit
    <3> HIDE DEF next
    <3>3. /\ failed \in Answers(C, H) /\ SameFlags(failed, verified)
          /\ failed.errors # << >> /\ FirstReason(failed)
      BY <1>1, <2>2, <2>3, <3>1, FailFacts, NoneIsNoCode
    <3>4. /\ next \in Answers(C, H) /\ next.errors = failed.errors /\ next.reason = failed.reason
          /\ next.seal_valid = failed.seal_valid /\ next.manifest_valid = failed.manifest_valid
      BY <3>2, <3>3 DEF Answers
    <3>5. FirstReason(next)
      BY <3>3, <3>4 DEF FirstReason
    <3>6. QED BY <1>4, <2>2, <2>4, <3>3, <3>4, <3>5 DEF LogFits, SameFlags, next
  <2>5. CASE ~(result.seal_valid /\ seal.head # log)
    <3>1. next = verified
      BY <1>4, <2>1, <2>5 DEF CheckAudit
    <3>2. QED BY <1>4, <2>2, <2>3, <2>5, <3>1 DEF LogFits
  <2>6. QED BY <2>4, <2>5
<1>5. QED BY <1>2, <1>3, <1>4

LEMMA ManifestReasonRange == ManifestReason \in EarlyCode \union {None}
BY DEF ManifestReason, EarlyCode, SealReasons

\* What the check of the manifest adds.
LEMMA AfterManifest ==
  ASSUME NEW H, NEW result \in Answers(EarlyCode, H), FirstReason(result)
  PROVE  LET next == CheckManifest(result)
         IN  /\ next \in Answers(EarlyCode, H) /\ FirstReason(next)
             /\ next.seal_valid = result.seal_valid
             /\ next.audit_chain_valid = result.audit_chain_valid
             /\ next.audit_head_hash = result.audit_head_hash
             /\ next.errors = << >> <=>
                  result.errors = << >> /\ (Present("manifest") => ManifestReason = None)
             /\ next.errors = << >> /\ Present("manifest") => next.manifest_valid
<1> DEFINE next == CheckManifest(result)
<1>1. CASE ~Present("manifest")
  <2>1. next = result
    BY <1>1 DEF CheckManifest
  <2>2. QED BY <1>1, <2>1
<1>2. CASE Present("manifest") /\ ManifestReason = None
  <2>1. next = [result EXCEPT !.manifest_valid = TRUE]
    BY <1>2 DEF CheckManifest
  <2> HIDE DEF next
  <2>2. /\ next \in Answers(EarlyCode, H) /\ next.manifest_valid
        /\ next.seal_valid = result.seal_valid
        /\ next.audit_chain_valid = result.audit_chain_valid
        /\ next.audit_head_hash = result.audit_head_hash
        /\ next.errors = result.errors /\ next.reason = result.reason
    BY <2>1 DEF Answers
  <2>3. QED BY <1>2, <2>2 DEF FirstReason, next
<1>3. CASE Present("manifest") /\ ManifestReason # None
  <2>1. PICK code \in EarlyCode : code = ManifestReason
    BY <1>3, ManifestReasonRange
  <2>2. next = Fail(result, code)
    BY <1>3, <2>1 DEF CheckManifest
  <2> HIDE DEF next
  <2>3. /\ next \in Answers(EarlyCode, H) /\ SameFlags(next, result)
        /\ next.errors # << >> /\ FirstReason(next)
    BY <2>2, FailFacts, NoneIsNoCode
  <2>4. QED BY <1>3, <2>3 DEF SameFlags, next
<1>4. QED BY <1>1, <1>2, <1>3

\* The report may be missing; if it is there, it can be read, names the seal and ends
\* in the head of the log.
ReportFits(seal, head) ==
  Present("report") => LET r == flat["report"]
                       IN  r # Torn /\ r.seal = seal.epw /\ head \in {None, r.head}

\* What the check of the report adds.
LEMMA AfterReport ==
  ASSUME NEW seal, NEW H, NEW result \in Answers(EarlyCode, H), FirstReason(result)
  PROVE  LET next == CheckReport(result, seal)
         IN  /\ next \in Answers(Code, H) /\ SameFlags(next, result)
             /\ next.errors = << >> => next.reason = None
             /\ next.errors # << >> => next.reason \in {None, next.errors[1]}
             /\ next.errors = << >> <=>
                  result.errors = << >> /\ ReportFits(seal, result.audit_head_hash)
             /\ ~Present("report") => next.errors \in Seq(EarlyCode)
<1> DEFINE next == CheckReport(result, seal)
           r == flat["report"]
<1>1. result \in Answers(Code, H)
  <2>1. \A s \in Seq(EarlyCode) : s \in Seq(Code)
    BY DEF Code
  <2>2. EarlyCode \subseteq Code
    BY DEF Code
  <2> HIDE DEF next, r
  <2>3. QED BY <2>1, <2>2 DEF Answers
<1>2. "REPORT_INCONSISTENT" \in Code /\ "MALFORMED_JSON" \in Code
  BY DEF Code
<1>3. CASE ~Present("report")
  <2>1. next = result
    BY <1>3 DEF CheckReport
  <2>2. result.errors \in Seq(EarlyCode)
    BY DEF Answers
  <2>3. QED BY <1>1, <1>3, <2>1, <2>2 DEF ReportFits, SameFlags, FirstReason
<1>4. CASE Present("report") /\ r = Torn
  <2>1. PICK errors : errors = Append(result.errors, "MALFORMED_JSON")
    OBVIOUS
  <2>2. next = [result EXCEPT !.errors = errors]
    BY <1>4, <2>1 DEF CheckReport
  <2>3. result.errors \in Seq(Code)
    BY <1>1 DEF Answers
  <2>4. /\ errors \in Seq(Code) /\ errors # << >>
        /\ result.errors # << >> => errors[1] = result.errors[1]
    BY <1>2, <2>1, <2>3, OneMore
  <2> HIDE DEF next
  <2>5. /\ next \in Answers(Code, H) /\ next.errors = errors /\ next.reason = result.reason
        /\ SameFlags(next, result)
    BY <1>1, <2>2, <2>4 DEF Answers, SameFlags
  <2>6. QED BY <1>4, <2>4, <2>5 DEF FirstReason, ReportFits, next
<1>5. CASE Present("report") /\ r # Torn
  <2>1. PICK sealed :
          sealed = IF r.seal # seal.epw THEN Fail(result, "REPORT_INCONSISTENT") ELSE result
    OBVIOUS
  <2>2. next = IF result.audit_head_hash \notin {None, r.head}
                 THEN Fail(sealed, "REPORT_INCONSISTENT") ELSE sealed
    BY <1>5, <2>1 DEF CheckReport
  <2> HIDE DEF next
  <2>3. /\ sealed \in Answers(Code, H) /\ SameFlags(sealed, result) /\ FirstReason(sealed)
        /\ sealed.errors = << >> <=> result.errors = << >> /\ r.seal = seal.epw
    <3>1. CASE r.seal # seal.epw
      <4>1. sealed = Fail(result, "REPORT_INCONSISTENT")
        BY <2>1, <3>1
      <4>2. QED BY <1>1, <1>2, <3>1, <4>1, FailFacts, NoneIsNoCode
    <3>2. CASE r.seal = seal.epw
      BY <1>1, <2>1, <3>2 DEF SameFlags
    <3>3. QED BY <3>1, <3>2
  <2>4. /\ next \in Answers(Code, H) /\ SameFlags(next, result) /\ FirstReason(next)
        /\ next.errors = << >> <=>
             sealed.errors = << >> /\ result.audit_head_hash \in {None, r.head}
    <3>1. CASE result.audit_head_hash \notin {None, r.head}
      <4>1. next = Fail(sealed, "REPORT_INCONSISTENT")
        BY <2>2, <3>1
      <4>2. /\ next \in Answers(Code, H) /\ SameFlags(next, sealed)
            /\ next.errors # << >> /\ FirstReason(next)
        BY <1>2, <2>3, <4>1, FailFacts, NoneIsNoCode
      <4>3. QED BY <2>3, <3>1, <4>2 DEF SameFlags
    <3>2. CASE result.audit_head_hash \in {None, r.head}
      BY <2>2, <2>3, <3>2
    <3>3. QED BY <3>1, <3>2
  <2>5. QED BY <1>5, <2>3, <2>4 DEF FirstReason, ReportFits, next
<1>6. QED BY <1>3, <1>4, <1>5

\* No error is fatal exactly when none is listed: without a report there is none about it.
LEMMA NothingFatal ==
  ASSUME NEW H, NEW result \in Answers(Code, H),
         ~Present("report") => result.errors \in Seq(EarlyCode)
  PROVE  Fatal(result) = {} <=> result.errors = << >>
<1>1. result.errors \in Seq(Code)
  BY DEF Answers
<1>2. CASE result.errors = << >>
  BY <1>2 DEF Fatal
<1>3. CASE result.errors # << >>
  <2>1. 1 \in 1..Len(result.errors)
    BY <1>1, <1>3
  <2>2. ~Present("report") => result.errors[1] \in EarlyCode
    BY <2>1
  <2>3. "REPORT_INCONSISTENT" \notin EarlyCode
    BY DEF EarlyCode, SealReasons
  <2>4. result.errors[1] \in Fatal(result)
    BY <2>1, <2>2, <2>3 DEF Fatal
  <2>5. QED BY <1>3, <2>4
<1>4. QED BY <1>2, <1>3

\* The flags that the parts set and the errors they list come to the same: the verdict
\* is good exactly when no error is listed, and that is when each part holds.  The
\* reason is the first error, whichever part it is from.
LEMMA ResultOk ==
  ASSUME NEW seal, NEW log, seal # Torn
  PROVE  LET result == Result(seal, log)
         IN  /\ result.ok <=> result.errors = << >>
             /\ result.ok <=> /\ VerifySeal(flat["artifact"], seal, None) = None
                              /\ LogFits(seal, log)
                              /\ Present("manifest") => ManifestReason = None
                              /\ ReportFits(seal, log)
             /\ FirstReason(result)
<1> DEFINE H == {None, log}
<1>1. PICK sealed : sealed = CheckSeal(Blank, seal)
  OBVIOUS
<1>2. PICK audited : audited = CheckAudit(sealed, seal, log)
  OBVIOUS
<1>3. PICK listed : listed = CheckManifest(audited)
  OBVIOUS
<1>4. PICK reported : reported = CheckReport(listed, seal)
  OBVIOUS
<1>5. Result(seal, log) = Conclude(reported, log)
  BY <1>1, <1>2, <1>3, <1>4 DEF Result
<1>6. /\ sealed \in Answers(EarlyCode, H) /\ FirstReason(sealed)
      /\ ~sealed.audit_chain_valid /\ sealed.audit_head_hash = None
      /\ sealed.seal_valid <=> sealed.errors = << >>
      /\ sealed.seal_valid <=> VerifySeal(flat["artifact"], seal, None) = None
  BY <1>1, AfterSeal
<1>7. /\ audited \in Answers(EarlyCode, H) /\ FirstReason(audited)
      /\ audited.seal_valid = sealed.seal_valid
      /\ audited.errors = << >> <=> sealed.errors = << >> /\ LogFits(seal, log)
      /\ audited.errors = << >> /\ log # None => audited.audit_chain_valid
      /\ audited.errors = << >> => audited.audit_head_hash = log
  <2>1. log \in H
    OBVIOUS
  <2> HIDE DEF H
  <2>2. sealed \in Answers(EarlyCode, H)
    BY <1>6
  <2>3. BeforeAudit(sealed)
    BY <1>6 DEF BeforeAudit
  <2>4. audited \in Answers(EarlyCode, H) /\ AuditChecked(audited, sealed, seal, log)
    BY <1>2, <2>1, <2>2, <2>3, AfterAudit
  <2>5. QED BY <2>4 DEF AuditChecked
<1>8. /\ listed \in Answers(EarlyCode, H) /\ FirstReason(listed)
      /\ listed.seal_valid = audited.seal_valid
      /\ listed.audit_chain_valid = audited.audit_chain_valid
      /\ listed.audit_head_hash = audited.audit_head_hash
      /\ listed.errors = << >> <=>
           audited.errors = << >> /\ (Present("manifest") => ManifestReason = None)
      /\ listed.errors = << >> /\ Present("manifest") => listed.manifest_valid
  BY <1>3, <1>7, AfterManifest
<1>9. /\ reported \in Answers(Code, H) /\ SameFlags(reported, listed)
      /\ reported.errors = << >> => reported.reason = None
      /\ reported.errors # << >> => reported.reason \in {None, reported.errors[1]}
      /\ reported.errors = << >> <=>
           listed.errors = << >> /\ ReportFits(seal, listed.audit_head_hash)
      /\ ~Present("report") => reported.errors \in Seq(EarlyCode)
  BY <1>4, <1>8, AfterReport
<1> DEFINE result == Conclude(reported, log)
           good == /\ reported.seal_valid
                   /\ log # None => reported.audit_chain_valid
                   /\ Present("manifest") => reported.manifest_valid
                   /\ Fatal(reported) = {}
           reason == IF reported.reason = None /\ reported.errors # << >>
                       THEN reported.errors[1] ELSE reported.reason
<1>10. result.errors = reported.errors /\ result.ok = good /\ result.reason = reason
  <2>1. result = [reported EXCEPT !.ok = good, !.reason = reason]
    BY DEF Conclude
  <2> HIDE DEF result, good, reason
  <2>2. QED BY <1>9, <2>1 DEF Answers
<1>11. Fatal(reported) = {} <=> reported.errors = << >>
  BY <1>9, NothingFatal
<1>12. good <=> reported.errors = << >>
  <2>1. ASSUME reported.errors = << >>
        PROVE  /\ reported.seal_valid
               /\ log # None => reported.audit_chain_valid
               /\ Present("manifest") => reported.manifest_valid
    BY <1>6, <1>7, <1>8, <1>9, <2>1 DEF SameFlags
  <2>2. QED BY <1>11, <2>1
<1>13. reported.errors = << >> <=>
         /\ VerifySeal(flat["artifact"], seal, None) = None
         /\ LogFits(seal, log)
         /\ Present("manifest") => ManifestReason = None
         /\ ReportFits(seal, log)
  BY <1>6, <1>7, <1>8, <1>9
<1>14. reason = IF reported.errors = << >> THEN None ELSE reported.errors[1]
  BY <1>9
<1> HIDE DEF result, good, reason
<1>15. QED BY <1>5, <1>10, <1>12, <1>13, <1>14 DEF FirstReason, result

\* Of an early return "verify" and "bundle doctor" say the same.
LEMMA MissingFails ==
  ASSUME NEW error
  PROVE  LET result == Missing(error)
         IN  /\ ~result.ok /\ result.errors # << >> /\ result.reason = None
             /\ result.errors[1] = error
<1>1. <<error>> # << >> /\ <<error>>[1] = error
  OBVIOUS
<1>2. QED BY <1>1 DEF Missing, Blank

\* The three commands that answer for a directory agree whatever it holds: the flags
\* that each check sets for itself, the errors that it lists and the reason that is
\* kept from one check to the next never come apart.
THEOREM Agreement == BundleSpec => []CommandsAgree
<1>1. CommandsAgree
  <2> SUFFICES ASSUME NEW result \in Results
               PROVE  /\ result.ok <=> Doctor(result)
                      /\ result.reason # None => ~result.ok
                      /\ ~result.ok => LegacyMessage(result) = result.errors[1]
    BY DEF CommandsAgree
  <2>1. /\ result.ok <=> result.errors = << >>
        /\ \/ result.reason = None /\ result.errors # << >>
           \/ result.reason = IF result.errors = << >> THEN None ELSE result.errors[1]
    <3>1. ASSUME NEW error, result = Missing(error)
          PROVE  ~result.ok /\ result.errors # << >> /\ result.reason = None
      BY <3>1, MissingFails
    <3>2. ASSUME NEW seal, NEW log, result = Result(seal, log)
          PROVE  /\ result.ok <=> result.errors = << >>
                 /\ \/ result.reason = None /\ result.errors # << >>
                    \/ result.reason = IF result.errors = << >> THEN None ELSE result.errors[1]
      <4>1. CASE seal = Torn
        <5>1. result = Missing("MALFORMED_JSON")
          BY <3>2, <4>1 DEF Result
        <5>2. QED BY <3>1, <5>1
      <4>2. CASE seal # Torn
        BY <3>2, <4>2, ResultOk DEF FirstReason
      <4>3. QED BY <4>1, <4>2
    <3>3. \/ result = Missing("MISSING_FILE")
          \/ \E seal, log : result = Result(seal, log)
      BY DEF Results
    <3>4. QED BY <3>1, <3>2, <3>3
  <2>2. QED BY <2>1 DEF Doctor, LegacyMessage
<1>2. QED BY <1>1, PTL

\* A seal that create_seal made has the features and the head that it hashes.
LEMMA SealTextFields ==
  ASSUME NEW seal \in SealTexts
  PROVE  seal.h1 = seal.epw.h1 /\ seal.h2 = seal.epw.h2 /\ seal.head = seal.epw.head
<1>1. PICK req \in Sealing, hit \in BOOLEAN, sid \in 1..MaxRuns :
        seal = SealFor(req, SealedHistory(req, hit), sid)
  BY DEF SealTexts
<1>2. PICK payload :
        seal = [schema |-> "v1", issued |-> sid, epw |-> EpwOf(payload, sid),
                h1 |-> payload.h1, h2 |-> payload.h2, resonance |-> payload.resonance,
                routing |-> payload.routing, config |-> payload.config,
                head |-> payload.head, sandbox |-> payload.sandbox,
                digest |-> payload.digest, cvh |-> payload.cvh]
  BY <1>1 DEF SealFor, CreateSeal
<1>3. QED BY <1>2 DEF EpwOf

\* Whatever file of the bundle the seal is read from, a run wrote it.
LEMMA ChoiceText ==
  ASSUME BInv, NEW seal \in SealChoices, seal # Torn
  PROVE  seal \in SealTexts
<1>1. CASE Present("seal")
  BY <1>1 DEF SealChoices, Present, BInv, FlatTexts
<1>2. CASE ~Present("seal")
  <2>1. PICK path \in Paths : path[1] = "seals" /\ disk[path] # Absent /\ seal = disk[path]
    BY <1>2 DEF SealChoices
  <2>2. Whole(path)
    BY <2>1 DEF Whole
  <2>3. PICK req \in Request, hit \in BOOLEAN, sid \in 1..MaxRuns :
          /\ ~ExtractRaises(req.values, req.config)
          /\ disk[path] = SealFor(req, SealedHistory(req, hit), sid)
    <3>1. path # <<"reports", path[2]>>
      BY <2>1
    <3>2. QED BY <2>1, <2>2, <3>1, EvidenceAuthored DEF BInv, Beneath
  <2>4. QED BY <2>1, <2>3 DEF SealTexts, Sealing
<1>3. QED BY <1>1, <1>2

\* A report that can be read names one history twice.
LEMMA ReportTextFields ==
  ASSUME NEW report \in ReportTexts
  PROVE  report.head = report.seal.head
<1>1. PICK req \in Sealing, hit \in BOOLEAN, sid \in 1..MaxRuns :
        report = ReportFor(req, SealedHistory(req, hit), sid, hit)
  BY DEF ReportTexts
<1>2. /\ report.head = SealedHistory(req, hit)
      /\ report.seal = SealFor(req, SealedHistory(req, hit), sid).epw
  BY <1>1 DEF ReportFor
<1>3. QED BY <1>2, SealForHead

\* A seal that verifies is that of the artifact's features.
LEMMA SealHolds ==
  ASSUME NEW seal, VerifySeal(flat["artifact"], seal, None) = None
  PROVE  seal.epw = Payload(flat["artifact"], seal)
<1>1. seal.epw = EpwOf(Payload(flat["artifact"], seal), seal.issued)
  BY NoneIsNoCode DEF VerifySeal, SealReasons
<1>2. QED BY <1>1 DEF EpwOf

\* A bundle that verifies pairs the artifact with a seal of its features, the
\* seal with a log that ends in its head, and the report with both.
THEOREM PartsVouchedFor == BundleSpec => []OkVouchesForParts
<1>1. BInv => OkVouchesForParts
  <2> SUFFICES ASSUME BInv, Present("artifact"), NEW seal \in SealChoices,
                      NEW log \in LogChoices, seal # Torn, Result(seal, log).ok
               PROVE  /\ ExtractH1Subset(flat["artifact"], seal.config) = seal.h1
                      /\ EntropyH2(flat["artifact"], seal.config) = seal.h2
                      /\ log \in {None, seal.head}
                      /\ Present("report") =>
                           flat["report"].seal = seal.epw /\ flat["report"].head = seal.head
    BY DEF OkVouchesForParts
  <2>1. /\ VerifySeal(flat["artifact"], seal, None) = None
        /\ LogFits(seal, log) /\ ReportFits(seal, log)
    BY ResultOk
  <2>2. seal.h1 = seal.epw.h1 /\ seal.h2 = seal.epw.h2 /\ seal.head = seal.epw.head
    BY ChoiceText, SealTextFields
  <2>3. /\ seal.epw.h1 = ExtractH1Subset(flat["artifact"], seal.config)
        /\ seal.epw.h2 = EntropyH2(flat["artifact"], seal.config)
    BY <2>1, SealHolds, PayloadFields
  <2>4. log \in {None, seal.head}
    BY <2>1 DEF LogFits
  <2>5. ASSUME Present("report")
        PROVE  flat["report"].seal = seal.epw /\ flat["report"].head = seal.head
    <3>1. flat["report"] # Torn /\ flat["report"].seal = seal.epw
      BY <2>1, <2>5 DEF ReportFits
    <3>2. flat["report"] \in ReportTexts
      BY <2>5, <3>1 DEF BInv, FlatTexts, Present
    <3>3. QED BY <2>2, <3>1, <3>2, ReportTextFields
  <2>6. QED BY <2>2, <2>3, <2>4, <2>5
<1>2. QED BY <1>1, BundleInvariant, PTL

\* What a manifest that holds is worth.
LEMMA NothingBad ==
  ASSUME ManifestReason = None, DOMAIN flat["manifest"].files = Listed
  PROVE  LET m == flat["manifest"]
         IN  /\ \A name \in Listed : flat[name] = m.files[name]
             /\ flat["artifact"] = m.values
             /\ Present("audit") => FileVerdict(flat["audit"]) = m.head
<1> DEFINE m == flat["manifest"]
           bad == {i \in 1..5 : ListedOrder[i] \in DOMAIN m.files
                                  /\ flat[ListedOrder[i]] # m.files[ListedOrder[i]]}
<1>1. None \notin EarlyCode
  BY NoneIsNoCode
<1>2. bad = {} /\ flat["artifact"] = m.values
  BY <1>1 DEF ManifestReason, EarlyCode, SealReasons
<1>3. Present("audit") => FileVerdict(flat["audit"]) = m.head
  BY <1>1 DEF ManifestReason, EarlyCode, SealReasons
<1>4. ASSUME NEW name \in Listed PROVE flat[name] = m.files[name]
  <2>1. PICK i \in 1..5 : ListedOrder[i] = name
    <3>1. /\ ListedOrder[1] = "artifact" /\ ListedOrder[2] = "audit" /\ ListedOrder[3] = "report"
          /\ ListedOrder[4] = "seal" /\ ListedOrder[5] = "verify"
      BY DEF ListedOrder
    <3>2. QED BY <3>1 DEF Listed
  <2>2. i \notin bad
    BY <1>2
  <2> HIDE DEF m
  <2>3. QED BY <2>1, <2>2 DEF m
<1>5. QED BY <1>2, <1>3, <1>4

\* A bundle that verifies and has a manifest is the evidence of one run, also
\* when later commands died in the same directory.
THEOREM OneRunInside == BundleSpec => []ManifestedBundleIsOneRun
<1>1. BInv => ManifestedBundleIsOneRun
  <2> DEFINE m == flat["manifest"]
  <2> SUFFICES ASSUME BInv, m \notin {Absent, Torn}, NEW result \in Results, result.ok
               PROVE  /\ flat["artifact"] = m.values
                      /\ flat["seal"].epw = m.seal /\ flat["seal"].head = m.head
                      /\ FileVerdict(flat["audit"]) = m.head
                      /\ flat["report"].seal = m.seal /\ flat["report"].head = m.head
                      /\ flat["verify"].ok /\ flat["verify"].seal = m.seal
    BY DEF ManifestedBundleIsOneRun
  <2>1. /\ Present("artifact")
        /\ \E seal \in SealChoices, log \in LogChoices : result = Result(seal, log)
    BY MissingFails DEF Results
  <2>2. PICK seal \in SealChoices, log \in LogChoices : result = Result(seal, log)
    BY <2>1
  <2>3. ManifestReason = None
    <3>1. seal # Torn
      BY <2>2, MissingFails DEF Result
    <3>2. QED BY <2>2, <3>1, ResultOk DEF Present
  <2>4. PICK req \in Sealing, hit \in BOOLEAN, sid \in 1..MaxRuns :
          LET head == SealedHistory(req, hit)
              own  == SealFor(req, head, sid)
          IN  /\ DOMAIN m.files = Listed /\ m.files["audit"] # Absent
              /\ m.seal = own.epw /\ m.head = head /\ m.values = req.values
              /\ m.report = ReportFor(req, head, sid, hit)
              /\ m.files["seal"] = own /\ m.files["report"] = m.report
              /\ m.files["verify"].seal = own.epw
              /\ m.files["verify"].ok <=>
                   VerifySeal(req.values, own, FileVerdict(m.files["audit"])) = None
    BY DEF BInv, FlatTexts, OneRun
  <2>5. PICK head, own : head = SealedHistory(req, hit) /\ own = SealFor(req, head, sid)
    OBVIOUS
  <2>6. DOMAIN m.files = Listed /\ m.files["audit"] # Absent
    BY <2>4
  <2>7. \A name \in Listed : flat[name] = m.files[name]
    BY <2>3, <2>6, NothingBad
  <2>8. flat["artifact"] = m.values
    BY <2>3, <2>6, NothingBad
  <2>9. /\ flat["seal"] = own /\ flat["report"] = m.report
        /\ flat["verify"] = m.files["verify"] /\ flat["audit"] = m.files["audit"]
    BY <2>4, <2>5, <2>7 DEF Listed
  <2>10. FileVerdict(flat["audit"]) = m.head
    <3>1. Present("audit")
      BY <2>6, <2>9 DEF Present
    <3>2. QED BY <2>3, <2>6, <3>1, NothingBad
  <2>11. own.head = head /\ own.epw.head = head
    BY <2>5, SealForHead
  <2>12. m.report.seal = own.epw /\ m.report.head = head
    BY <2>4, <2>5 DEF ReportFor
  <2>13. VerifySeal(req.values, own, head) = None
    BY <2>4, <2>5, <2>11, SealVerifies DEF Sealing
  <2>14. m.seal = own.epw /\ m.head = head /\ m.files["verify"].seal = own.epw
         /\ (m.files["verify"].ok <=>
               VerifySeal(req.values, own, FileVerdict(m.files["audit"])) = None)
    BY <2>4, <2>5
  <2> HIDE DEF m
  <2>15. QED BY <2>8, <2>9, <2>10, <2>11, <2>12, <2>13, <2>14
<1>2. QED BY <1>1, BundleInvariant, PTL

\* Any audit log that is not missing has a head or is broken.
LEMMA FileVerdictFacts ==
  ASSUME NEW lines \in Seq(LoggedLine)
  PROVE  FileVerdict(lines) # None
<1>1. CASE lines = << >>
  <2>1. HeadHash(lines) \in Seq(Event)
    BY <1>1 DEF HeadHash, Genesis
  <2>2. QED BY <2>1, FileAssumption DEF FileVerdict
<1>2. CASE lines # << >>
  <2>1. lines[Len(lines)] \in LoggedLine
    <3>1. Len(lines) \in 1..Len(lines)
      BY <1>2
    <3>2. QED BY <3>1
  <2>2. HeadHash(lines) \in Seq(Event)
    BY <1>2, <2>1 DEF HeadHash, LoggedLine
  <2>3. QED BY <2>2, FileAssumption DEF FileVerdict
<1>3. QED BY <1>1, <1>2

\* With a log, a seal verifies exactly when it does without and heads the log.
LEMMA SealAndLog ==
  ASSUME NEW values, NEW record, NEW log
  PROVE  VerifySeal(values, record, log) = None <=>
           /\ VerifySeal(values, record, None) = None
           /\ log = None \/ (log # Broken /\ log = record.head)
<1>1. None \notin SealReasons
  BY NoneIsNoCode
<1>2. AuditReason(record, None) = None
  BY DEF AuditReason
<1>3. AuditReason(record, log) = None <=> log = None \/ (log # Broken /\ log = record.head)
  BY <1>1 DEF AuditReason, SealReasons
<1>4. VerifySeal(values, record, log) = None <=>
        VerifySeal(values, record, None) = None /\ AuditReason(record, log) = None
  BY <1>1, <1>2 DEF VerifySeal, SealReasons
<1>5. QED BY <1>3, <1>4

\* What stands in the bundle when a command has ended, and what its verdict on
\* the bundle comes to.
LEMMA EndFacts ==
  ASSUME BInv, Finished
  PROVE  LET log == FileVerdict(audit[proc[Me].req.run])
         IN  /\ flat["verify"].ok <=> VerifySeal(proc[Me].req.values, SealOf(Me), log) = None
             /\ \A result \in Results :
                  result.ok <=> SameArtifact /\
                    VerifySeal(proc[Me].req.values, SealOf(Me), log) = None
<1> DEFINE req == proc[Me].req
           log == FileVerdict(audit[req.run])
           m == ManifestJson(req)
<1>1. proc[Me].pc = "done" /\ step > Len(FlatOrder(req))
  BY DEF Finished
<1>2. /\ req \in Sealing /\ proc[Me].hit \in BOOLEAN /\ proc[Me].sid \in 1..MaxRuns
      /\ proc[Me].prev = SealedHistory(req, proc[Me].hit)
      /\ audit[req.run] \in Seq(LoggedLine)
  BY <1>1, DoneFacts DEF BInv
<1>3. PICK seal, report : seal = SealOf(Me) /\ report = ReportOf(Me)
  OBVIOUS
<1>4. /\ seal \notin {Absent, Torn} /\ seal.head = proc[Me].prev
      /\ report \notin {Absent, Torn} /\ report.seal = seal.epw
      /\ report.head = proc[Me].prev
  BY <1>2, <1>3, TextFacts DEF SealOf, ReportOf
<1>5. /\ flat["artifact"] = CopiedArtifact /\ flat["audit"] = audit[req.run]
      /\ flat["seal"] = seal /\ flat["verify"] = VerifyJson(req.values, req)
      /\ flat["report"] = report /\ flat["manifest"] = m
  <2>1. PICK n \in 6..9 : n = Len(FlatOrder(req))
    BY OrderFacts
  <2>2. PICK i \in 1..10 : i = step
    BY DEF BInv, Shape
  <2>3. i > n
    BY <1>1, <2>1, <2>2
  <2>4. i > n - 1 /\ i > 1 /\ i > 2 /\ i > 3 /\ i > 4
    BY <2>3
  <2>5. QED BY <1>1, <1>3, <2>1, <2>2, <2>3, <2>4 DEF BInv, InPlace
<1>6. /\ \A name \in Listed : Present(name)
      /\ DOMAIN m.files = Listed /\ \A name \in Listed : m.files[name] = flat[name]
      /\ m.seal = seal.epw /\ m.head = seal.head /\ m.values = req.values
      /\ m.report = report /\ m \notin {Absent, Torn}
  <2>1. step > Len(FlatOrder(req)) - 1
    <3>1. PICK n \in 6..9 : n = Len(FlatOrder(req))
      BY OrderFacts
    <3>2. PICK i \in 1..10 : i = step
      BY DEF BInv, Shape
    <3>3. i > n => i > n - 1
      OBVIOUS
    <3>4. QED BY <1>1, <3>1, <3>2, <3>3
  <2> HIDE DEF m
  <2>2. QED BY <1>1, <1>3, <1>4, <2>1, ManifestMade DEF m
<1>7. flat["verify"].ok <=> VerifySeal(req.values, seal, log) = None
  BY <1>1, <1>3, <1>5, VerdictText DEF BInv
<1> HIDE DEF m
<1>8. log # None
  BY <1>2, FileVerdictFacts
<1> HIDE DEF log
<1>9. /\ Present("artifact") /\ Present("audit") /\ Present("seal")
      /\ Present("report") /\ Present("manifest")
  BY <1>5, <1>6 DEF Listed, Present
<1>10. Results = {Result(seal, log)}
  <2>1. SealChoices = {seal} /\ LogChoices = {log}
    BY <1>5, <1>9 DEF SealChoices, LogChoices, log
  <2>2. QED BY <1>9, <2>1 DEF Results
<1>11. ManifestReason = None <=> flat["artifact"] = req.values /\ log # Broken /\ log = seal.head
  <2>1. FileVerdict(flat["audit"]) = log
    BY <1>5 DEF log
  <2>2. {i \in 1..5 : ListedOrder[i] \in DOMAIN m.files
                        /\ flat[ListedOrder[i]] # m.files[ListedOrder[i]]} = {}
    BY <1>6
  <2>3. ManifestReason =
          IF flat["artifact"] # req.values THEN "MANIFEST_CONTENT_FINGERPRINT_MISMATCH"
          ELSE IF log = Broken THEN "AUDIT_CHAIN_BROKEN"
          ELSE IF log # seal.head THEN "MANIFEST_AUDIT_HEAD_MISMATCH"
          ELSE None
    BY <1>5, <1>6, <1>9, <2>1, <2>2 DEF ManifestReason
  <2>4. None \notin {"MANIFEST_CONTENT_FINGERPRINT_MISMATCH", "AUDIT_CHAIN_BROKEN",
                      "MANIFEST_AUDIT_HEAD_MISMATCH"}
    BY NoneIsNoCode DEF EarlyCode, SealReasons
  <2>5. QED BY <2>3, <2>4
<1>12. LogFits(seal, log) <=> log # Broken /\ log = seal.head
  BY <1>8 DEF LogFits
<1>13. log = seal.head => ReportFits(seal, log)
  BY <1>4, <1>5 DEF ReportFits
<1>14. Result(seal, log).ok <=>
         /\ VerifySeal(flat["artifact"], seal, None) = None
         /\ LogFits(seal, log) /\ ManifestReason = None /\ ReportFits(seal, log)
  BY <1>4, <1>9, ResultOk
<1>15. VerifySeal(req.values, seal, log) = None <=>
         VerifySeal(req.values, seal, None) = None /\ log # Broken /\ log = seal.head
  BY <1>8, SealAndLog
<1>16. Result(seal, log).ok <=> SameArtifact /\ VerifySeal(req.values, seal, log) = None
  BY <1>11, <1>12, <1>13, <1>14, <1>15 DEF SameArtifact
<1>17. QED BY <1>3, <1>7, <1>10, <1>16 DEF log

\* When a command has ended, "hashen verify" comes to the verdict in verify.json,
\* unless the artifact's file was changed between the command's two reads of it.
THEOREM VerdictStands == BundleSpec => []SavedVerdictStands
<1>1. BInv => SavedVerdictStands
  BY EndFacts DEF SavedVerdictStands
<1>2. QED BY <1>1, BundleInvariant, PTL

\* A command that ran to its end under a fresh run id leaves a bundle that
\* verifies, whatever earlier commands left in the directory.
THEOREM CompletedVerifies == BundleSpec => []CompletedBundleVerifies
<1>1. BInv => CompletedBundleVerifies
  <2> SUFFICES ASSUME BInv, Finished, proc[Me].alone, SameArtifact, NEW result \in Results
               PROVE  result.ok
    BY DEF CompletedBundleVerifies
  <2>1. LoneRunVerifies
    BY LoneVerifies DEF BInv, Beneath
  <2>2. proc[Me].pc = "done"
    BY DEF Finished
  <2>3. VerifySeal(proc[Me].req.values, disk[SealPath(proc[Me].req)],
                   LogVerdict(proc[Me].req.run)) = None
    BY <2>1, <2>2, MeAlone DEF LoneRunVerifies
  <2>4. /\ disk[SealPath(proc[Me].req)] = SealOf(Me)
        /\ audit[proc[Me].req.run] # << >>
    BY <2>2, DoneFacts DEF BInv
  <2>5. LogVerdict(proc[Me].req.run) = FileVerdict(audit[proc[Me].req.run])
    BY <2>4 DEF LogVerdict, FileVerdict
  <2>6. QED BY <2>3, <2>4, <2>5, EndFacts
<1>2. QED BY <1>1, BundleInvariant, PTL
-----------------------------------------------------------------------------
(* The commands implement Evidence, flat files included *)

Shown == [place \in EvidencePaths |-> IF Whole(place) THEN disk[place].head ELSE None]

ShownToo == [place \in EvidencePaths \union FlatEvidence |-> ShownAt(place)]

Recorded == [run \in RunIds |-> Logged(run)]

ReadNow == [run \in RunIds |-> Readable(run)]

LEMMA PlacesApart == EvidencePaths \intersect FlatEvidence = {}
<1>1. \A path \in EvidencePaths : path[1] # "flat"
  BY DEF EvidencePaths
<1>2. \A place \in FlatEvidence : place[1] = "flat"
  BY DEF FlatEvidence
<1>3. QED BY <1>1, <1>2

\* While the flat files stay, the readers see what the pipeline's readers see.
LEMMA PipelineShown ==
  ASSUME UNCHANGED flat
  PROVE  /\ \A place \in EvidencePaths :
              ShownToo[place] = Shown[place] /\ ShownToo'[place] = Shown'[place]
         /\ \A place \in FlatEvidence : ShownToo'[place] = ShownToo[place]
<1>1. ASSUME NEW place \in EvidencePaths
      PROVE  ShownToo[place] = Shown[place] /\ ShownToo'[place] = Shown'[place]
  <2>1. place \notin FlatEvidence
    BY PlacesApart
  <2>2. ShownAt(place) = IF Whole(place) THEN disk[place].head ELSE None
    BY <2>1 DEF ShownAt, Whole
  <2>3. ShownAt(place)' = IF Whole(place)' THEN disk'[place].head ELSE None
    BY <2>1 DEF ShownAt, Whole, FlatEvidence
  <2>4. QED BY <2>2, <2>3 DEF Shown, ShownToo, EvidencePaths, FlatEvidence
<1>2. ASSUME NEW place \in FlatEvidence PROVE ShownToo'[place] = ShownToo[place]
  <2>1. ShownAt(place)' = ShownAt(place)
    BY DEF ShownAt, FlatEvidence
  <2>2. QED BY <2>1 DEF ShownToo, EvidencePaths, FlatEvidence
<1>3. QED BY <1>1, <1>2

\* A step of the pipeline under the flat files is the same to these readers.
LEMMA PipelineShows ==
  ASSUME [E!Next]_E!evidenceVars, UNCHANGED flat
  PROVE  [B!Next]_B!evidenceVars
<1> DEFINE All == EvidencePaths \union FlatEvidence
<1>1. DOMAIN ShownToo = All /\ DOMAIN ShownToo' = All
  BY DEF ShownToo, EvidencePaths, FlatEvidence
<1>2. ShownToo = [place \in All |-> ShownToo[place]] /\ ShownToo' = [place \in All |-> ShownToo'[place]]
  BY DEF ShownToo, EvidencePaths, FlatEvidence
<1>3. ASSUME Shown' = Shown PROVE ShownToo' = ShownToo
  <2>1. \A place \in All : ShownToo'[place] = ShownToo[place]
    BY <1>3, PipelineShown
  <2>2. QED BY <1>2, <2>1
<1>4. ASSUME NEW place \in EvidencePaths, NEW value, Shown' = [Shown EXCEPT ![place] = value]
      PROVE  ShownToo' = [ShownToo EXCEPT ![place] = value]
  <2>1. /\ Shown'[place] = value
        /\ \A other \in EvidencePaths \ {place} : Shown'[other] = Shown[other]
    BY <1>4 DEF Shown
  <2>2. place \notin FlatEvidence
    BY PlacesApart
  <2>3. \A other \in All : ShownToo'[other] = IF other = place THEN value ELSE ShownToo[other]
    BY <2>1, <2>2, PipelineShown
  <2>4. QED BY <1>2, <2>3
<1>5. CASE UNCHANGED E!evidenceVars
  <2>1. Recorded' = Recorded /\ ReadNow' = ReadNow /\ Shown' = Shown
    BY <1>5 DEF E!evidenceVars, Recorded, ReadNow, Shown
  <2>2. QED BY <1>3, <2>1 DEF B!evidenceVars, Recorded, ReadNow, ShownToo
<1>6. ASSUME NEW log \in RunIds, E!Record(log) PROVE B!Next
  <2>1. Shown' = Shown
    BY <1>6 DEF E!Record, Shown
  <2>2. ShownToo' = ShownToo
    BY <1>3, <2>1
  <2>3. B!Record(log)
    BY <1>6, <2>2 DEF E!Record, B!Record, E!Continues, B!Continues, ShownToo
  <2>4. QED BY <2>3 DEF B!Next
<1>7. ASSUME NEW place \in EvidencePaths, E!Show(place) PROVE B!Next
  <2>1. PICK history : history = Shown'[place]
    OBVIOUS
  <2>2. /\ history \notin {None, Shown[place]} /\ Shown' = [Shown EXCEPT ![place] = history]
        /\ Recorded' = Recorded /\ ReadNow' = ReadNow
    BY <1>7, <2>1 DEF E!Show, Recorded, ReadNow, Shown
  <2>3. PICK log \in RunIds : history \in Recorded[log] /\ Vouches(place, log, history)
    BY <1>7, <2>1 DEF E!Show, Recorded, Shown
  <2>4. FlatVouches(place, log, history)
    BY <2>3, PlacesApart DEF FlatVouches
  <2>5. ShownToo' = [ShownToo EXCEPT ![place] = history]
    BY <1>4, <2>2
  <2>6. ShownToo[place] = Shown[place] /\ ShownToo'[place] = history
    BY <2>1, PipelineShown
  <2>7. /\ ShownToo'[place] \notin {None, ShownToo[place]}
        /\ ShownToo' = [ShownToo EXCEPT ![place] = ShownToo'[place]]
        /\ \E l \in RunIds : ShownToo'[place] \in Recorded[l] /\ FlatVouches(place, l, ShownToo'[place])
        /\ UNCHANGED <<Recorded, ReadNow>>
    BY <2>2, <2>3, <2>4, <2>5, <2>6
  <2>8. B!Show(place)
    BY <2>7 DEF B!Show, Recorded, ReadNow, ShownToo
  <2>9. QED BY <2>8 DEF B!Next
<1>8. ASSUME NEW place \in EvidencePaths, E!Hide(place) PROVE B!Next
  <2>1. /\ Shown[place] # None /\ Shown' = [Shown EXCEPT ![place] = None]
        /\ Recorded' = Recorded /\ ReadNow' = ReadNow
    BY <1>8 DEF E!Hide, Recorded, ReadNow, Shown
  <2>2. ShownToo' = [ShownToo EXCEPT ![place] = None] /\ ShownToo[place] # None
    BY <1>4, <2>1, PipelineShown
  <2>3. B!Hide(place)
    BY <2>1, <2>2 DEF B!Hide, Recorded, ReadNow, ShownToo
  <2>4. QED BY <2>3 DEF B!Next
<1>9. QED BY <1>5, <1>6, <1>7, <1>8 DEF E!Next

\* A flat file that is being written, or that names the head of the run, is seen
\* as evidence hidden or shown; the others are no evidence.
LEMMA FlatShows ==
  ASSUME BInv, Copying, NEW content,
         flat' = [flat EXCEPT ![Current] = content], UNCHANGED vars,
         <<"flat", Current>> \in FlatEvidence =>
           content \in {Absent, Torn} \/ content.head = proc[Me].prev
  PROVE  [B!Next]_B!evidenceVars
<1> DEFINE All == EvidencePaths \union FlatEvidence
<1>0. PICK place : place = <<"flat", Current>>
  OBVIOUS
<1>1. Current \in Names /\ DOMAIN flat = Names
  BY CurrentFacts DEF BInv, Shape
<1>2. flat'[Current] = content /\ \A name \in Names \ {Current} : flat'[name] = flat[name]
  BY <1>1
<1>3. ShownToo' = [other \in All |-> ShownToo'[other]] /\ ShownToo = [other \in All |-> ShownToo[other]]
  BY DEF ShownToo, EvidencePaths, FlatEvidence
<1>4. Recorded' = Recorded /\ ReadNow' = ReadNow
  BY DEF Recorded, ReadNow, Logged, Readable, Closed, vars
<1>5. ASSUME NEW other \in All, other # place PROVE ShownToo'[other] = ShownToo[other]
  <2>1. ShownAt(other)' = ShownAt(other)
    <3>1. CASE other \in FlatEvidence
      <4>1. PICK name \in {"seal", "verify", "verify_ok", "verify_fail", "report", "manifest"} :
              other = <<"flat", name>>
        BY <3>1 DEF FlatEvidence
      <4>2. name \in Names \ {Current} /\ other[2] = name
        BY <1>0, <1>5, <4>1 DEF Names, Listed
      <4>3. flat'[other[2]] = flat[other[2]]
        BY <1>2, <4>2
      <4>4. QED BY <3>1, <4>3 DEF ShownAt, FlatEvidence
    <3>2. CASE other \notin FlatEvidence
      BY <3>2 DEF ShownAt, FlatEvidence, vars
    <3>3. QED BY <3>1, <3>2
  <2>2. QED BY <2>1 DEF ShownToo, EvidencePaths, FlatEvidence
<1>6. CASE place \notin FlatEvidence
  <2>1. place \notin All
    <3>1. place[1] = "flat"
      BY <1>0
    <3>2. QED BY <1>6, <3>1 DEF EvidencePaths
  <2>2. \A other \in All : ShownToo'[other] = ShownToo[other]
    BY <1>5, <2>1
  <2>3. ShownToo' = ShownToo
    BY <1>3, <2>2
  <2>4. QED BY <1>4, <2>3 DEF B!evidenceVars, Recorded, ReadNow, ShownToo
<1>7. CASE place \in FlatEvidence
  <2>1. place \in All /\ place[2] = Current
    BY <1>0, <1>7
  <2>2. ShownToo'[place] = IF content \in {Absent, Torn} THEN None ELSE content.head
    <3>1. ShownAt(place)' = IF content \in {Absent, Torn} THEN None ELSE content.head
      BY <1>2, <1>7, <2>1 DEF ShownAt, FlatEvidence
    <3>2. QED BY <2>1, <3>1 DEF ShownToo, EvidencePaths, FlatEvidence
  <2>3. ASSUME NEW value, ShownToo'[place] = value
        PROVE  ShownToo' = [ShownToo EXCEPT ![place] = value]
    <3>1. \A other \in All : ShownToo'[other] = IF other = place THEN value ELSE ShownToo[other]
      BY <1>5, <2>3
    <3>2. QED BY <1>3, <3>1
  <2>4. CASE content \in {Absent, Torn}
    <3>1. ShownToo' = [ShownToo EXCEPT ![place] = None]
      BY <2>2, <2>3, <2>4
    <3>2. CASE ShownToo[place] = None
      <4>1. ShownToo' = ShownToo
        BY <1>3, <1>5, <2>2, <2>4, <3>2
      <4>2. QED BY <1>4, <4>1 DEF B!evidenceVars, Recorded, ReadNow, ShownToo
    <3>3. CASE ShownToo[place] # None
      <4>1. B!Hide(place)
        BY <1>4, <3>1, <3>3 DEF B!Hide, Recorded, ReadNow, ShownToo
      <4>2. QED BY <2>1, <4>1 DEF B!Next
    <3>4. QED BY <3>2, <3>3
  <2>5. CASE content \notin {Absent, Torn}
    <3>1. PICK req \in Sealing : req = proc[Me].req
      BY DoneFacts DEF BInv, Copying
    <3>2. PICK head : head = proc[Me].prev
      OBVIOUS
    <3>3. /\ req.run \in RunIds /\ head = SealedHistory(req, proc[Me].hit)
          /\ proc[Me].hit \in BOOLEAN /\ req \in Request
      BY <3>1, <3>2, DoneFacts DEF BInv, Copying, Sealing
    <3>4. head \in Logged(req.run)
      <4>1. head # << >>
        BY <3>3 DEF SealedHistory
      <4>2. QED BY <3>1, <3>2, <3>3, <4>1, MeAlone DEF BInv, Beneath, IInv, HeadsLogged
    <3>5. FlatVouches(place, req.run, head)
      <4>1. Vouches(<<"reports", req.run>>, req.run, head)
        BY <3>3, SealedHistoryFacts DEF Vouches
      <4>2. QED BY <1>7, <4>1 DEF FlatVouches
    <3>6. ShownToo' = [ShownToo EXCEPT ![place] = head]
      <4>1. content.head = head
        BY <1>0, <1>7, <2>5, <3>2
      <4>2. QED BY <2>2, <2>3, <2>5, <4>1
    <3>7. head \in Recorded[req.run]
      BY <3>3, <3>4 DEF Recorded
    <3>8. ShownToo'[place] = head /\ head # None
      <4>1. content.head = head
        BY <1>0, <1>7, <2>5, <3>2
      <4>2. head \in Seq(Event)
        BY <3>2, DoneFacts DEF BInv, Copying
      <4>3. QED BY <2>2, <2>5, <4>1, <4>2, FileAssumption
    <3>9. CASE ShownToo[place] = head
      <4>1. ShownToo' = ShownToo
        BY <1>3, <1>5, <3>8, <3>9
      <4>2. QED BY <1>4, <4>1 DEF B!evidenceVars, Recorded, ReadNow, ShownToo
    <3>10. CASE ShownToo[place] # head
      <4>1. /\ ShownToo'[place] \notin {None, ShownToo[place]}
            /\ ShownToo' = [ShownToo EXCEPT ![place] = ShownToo'[place]]
            /\ \E log \in RunIds :
                 ShownToo'[place] \in Recorded[log] /\ FlatVouches(place, log, ShownToo'[place])
            /\ UNCHANGED <<Recorded, ReadNow>>
        BY <1>4, <3>3, <3>5, <3>6, <3>7, <3>8, <3>10
      <4>2. B!Show(place)
        BY <4>1 DEF B!Show, Recorded, ReadNow, ShownToo
      <4>3. QED BY <2>1, <4>2 DEF B!Next
    <3>11. QED BY <3>9, <3>10
  <2>6. QED BY <2>4, <2>5
<1>8. QED BY <1>6, <1>7

\* Every flat file that is evidence names the head of the command's run.
LEMMA ContentHead ==
  ASSUME BInv, Copying, <<"flat", Current>> \in FlatEvidence
  PROVE  FlatContent(Current).head = proc[Me].prev
<1> DEFINE req == proc[Me].req
<1>1. /\ req \in Sealing /\ proc[Me].hit \in BOOLEAN /\ proc[Me].sid \in 1..MaxRuns
      /\ proc[Me].prev = SealedHistory(req, proc[Me].hit)
      /\ disk[SealPath(req)] = SealOf(Me) /\ disk[ReportPath(req)] = ReportOf(Me)
  BY DoneFacts DEF BInv, Copying
<1>2. SealOf(Me).head = proc[Me].prev /\ ReportOf(Me).head = proc[Me].prev
  BY <1>1, TextFacts DEF SealOf, ReportOf
<1>3. Current \in {"seal", "verify", "verify_ok", "verify_fail", "report", "manifest"}
  BY DEF FlatEvidence
<1>4. \A values : VerifyJson(values, req).head = proc[Me].prev
  BY DEF VerifyJson
<1>5. ManifestJson(req).head = proc[Me].prev
  BY DEF ManifestJson
<1>6. CASE Current = "seal"
  BY <1>1, <1>2, <1>6 DEF FlatContent
<1>7. CASE Current \in {"verify", "verify_ok"}
  BY <1>4, <1>7 DEF FlatContent
<1>8. CASE Current = "verify_fail"
  BY <1>4, <1>8 DEF FlatContent
<1>9. CASE Current = "report"
  BY <1>1, <1>2, <1>9 DEF FlatContent
<1>10. CASE Current = "manifest"
  BY <1>5, <1>10 DEF FlatContent
<1>11. QED BY <1>3, <1>6, <1>7, <1>8, <1>9, <1>10

LEMMA NextBundleShows == BInv /\ [BundleNext]_bundleVars => [B!Next]_B!evidenceVars
<1> SUFFICES ASSUME BInv, [BundleNext]_bundleVars PROVE [B!Next]_B!evidenceVars
  OBVIOUS
<1>1. ASSUME [Next]_vars, UNCHANGED flat PROVE [B!Next]_B!evidenceVars
  <2>1. [E!Next]_E!evidenceVars
    BY <1>1, NextShows DEF BInv, Beneath
  <2>2. QED BY <1>1, <2>1, PipelineShows
<1>2. ASSUME UNCHANGED <<audit, disk, flat>> PROVE [B!Next]_B!evidenceVars
  <2>1. [E!Next]_E!evidenceVars
    BY <1>2 DEF E!evidenceVars, Logged, Readable, Closed, Whole, EvidencePaths
  <2>2. QED BY <1>2, <2>1, PipelineShows
<1>3. ASSUME NEW cmd \in Commands, NEW req \in Request, Invoke(cmd, req)
      PROVE  [B!Next]_B!evidenceVars
  BY <1>1, <1>3, MeAlone DEF Invoke, Next
<1>4. CASE RunPipeline
  BY <1>1, <1>4, MeAlone DEF RunPipeline, Next
<1>5. ASSUME NEW content, ChangeSource(content) PROVE [B!Next]_B!evidenceVars
  BY <1>2, <1>5 DEF ChangeSource, vars
<1>6. CASE OpenFlat
  <2>1. PICK part \in PartOf(Current) : flat' = [flat EXCEPT ![Current] = part]
    BY <1>6 DEF OpenFlat
  <2>2. <<"flat", Current>> \in FlatEvidence => part = Torn
    BY DEF FlatEvidence, PartOf
  <2>3. QED BY <1>6, <2>1, <2>2, FlatShows DEF OpenFlat
<1>7. CASE CopyRaises
  BY <1>2, <1>7 DEF CopyRaises
<1>8. CASE FillFlat
  <2>1. PICK content : content = FlatContent(Current)
    OBVIOUS
  <2>2. QED BY <1>8, <2>1, ContentHead, FlatShows DEF FillFlat
<1>9. CASE Die
  BY <1>1, <1>2, <1>9, MeAlone DEF Die, Next
<1>10. CASE UNCHANGED bundleVars
  BY <1>2, <1>10 DEF bundleVars, vars
<1>11. QED BY <1>3, <1>4, <1>5, <1>6, <1>7, <1>8, <1>9, <1>10 DEF BundleNext

\* Commands that are run over one another, over what dead ones left, never leave a
\* flat file that commits to anything but the logged history of a finished run.
THEOREM BundleRefinement == BundleSpec => BundleImplementsEvidence
<1>1. BundleInit => B!Init
  <2> SUFFICES ASSUME BundleInit PROVE B!Init
    OBVIOUS
  <2>1. \A run \in RunIds : Logged(run) = {} /\ Readable(run) = {}
    <3>1. \A run \in RunIds : Closed(run) = {}
      BY DEF BundleInit, Init, Closed
    <3>2. QED BY <3>1 DEF Logged, Readable
  <2>2. \A place \in EvidencePaths : ShownAt(place) = None
    <3>1. \A place \in EvidencePaths : place \in Paths /\ place \notin FlatEvidence
      BY PlacesApart DEF EvidencePaths
    <3>2. \A path \in Paths : disk[path] = Absent
      BY DEF BundleInit, Init
    <3>3. QED BY <3>1, <3>2 DEF ShownAt
  <2>3. \A place \in FlatEvidence : ShownAt(place) = None
    <3>1. \A place \in FlatEvidence : place[2] \in Names
      BY DEF FlatEvidence, Names, Listed
    <3>2. QED BY <3>1 DEF BundleInit, ShownAt
  <2>4. QED BY <2>1, <2>2, <2>3 DEF B!Init
<1>2. QED BY <1>1, BundleInvariant, NextBundleShows, PTL
         DEF BundleSpec, BundleImplementsEvidence, B!Spec
=============================================================================
