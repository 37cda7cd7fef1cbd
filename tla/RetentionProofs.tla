-------------------------- MODULE RetentionProofs --------------------------
(* Theorems about Policy and Retention, for any requests, command lines and *)
(* bound on the clock.                                                      *)
EXTENDS Retention, TLAPS

-----------------------------------------------------------------------------
(* The policy *)

Severe(rule, severity) == \E r \in rule : r.severity = severity

\* A rule gives a reason of a severity exactly when its condition holds.
LEMMA WhenGives ==
  ASSUME NEW condition \in BOOLEAN, NEW code, NEW severity, NEW s
  PROVE  Severe(When(condition, code, severity), s) <=> condition /\ severity = s
<1>1. CASE condition
  <2>1. When(condition, code, severity) = {[code |-> code, severity |-> severity]}
    BY <1>1 DEF When
  <2>2. [code |-> code, severity |-> severity].severity = severity
    OBVIOUS
  <2>3. QED BY <1>1, <2>1, <2>2, Zenon DEF Severe
<1>2. CASE ~condition
  BY <1>2 DEF When, Severe
<1>3. QED BY <1>1, <1>2

\* What makes an error, rule by rule.
Errors(ctx) ==
  \/ /\ ctx.strictness = "strict" /\ ~(Removes(ctx) /\ ctx.hold)
     /\ ctx.raw = None /\ ctx.derived = None
  \/ Removes(ctx) /\ ctx.hold
  \/ /\ ctx.strictness = "strict" /\ ctx.pii = "yes"
     /\ NoBasis(ctx) \/ ctx.purpose = None
  \/ ctx.strictness = "strict" /\ ctx.class \in {None, Blank}
  \/ ctx.strictness = "strict" /\ ctx.purpose \in {None, Blank}
  \/ /\ ctx.action \in {"export", "share"}
     /\ ctx.sharing \in {"internal_only", "no_export", "no_share"}

\* What makes a warning.
Warnings(ctx) ==
  \/ /\ ctx.strictness \notin {"strict", "permissive"} /\ ~(Removes(ctx) /\ ctx.hold)
     /\ ctx.raw = None /\ ctx.derived = None
  \/ ctx.strictness # "strict" /\ ctx.pii = "yes" /\ NoBasis(ctx)
  \/ ctx.source = "user_provided" /\ NoBasis(ctx)
  \/ /\ ctx.action = "run" /\ ctx.strictness = "strict"
     /\ ctx.raw = None \/ ctx.derived = None

LEMMA SevereReasons ==
  ASSUME NEW ctx, NEW s
  PROVE  Severe(Reasons(ctx), s) <=>
           \/ Severe(RetentionRequired(ctx), s)   \/ Severe(LegalHoldConflict(ctx), s)
           \/ Severe(PiiHandling(ctx), s)         \/ Severe(ClassificationKnown(ctx), s)
           \/ Severe(ConsentUserData(ctx), s)     \/ Severe(PurposeStrict(ctx), s)
           \/ Severe(SharingExport(ctx), s)       \/ Severe(ReportComplianceFields(ctx), s)
BY DEF Reasons, Severe

LEMMA ErrorReasons ==
  ASSUME NEW ctx, ctx.hold \in BOOLEAN
  PROVE  Severe(Reasons(ctx), "error") <=> Errors(ctx)
<1>1. Severe(RetentionRequired(ctx), "error") <=>
        /\ ctx.strictness = "strict" /\ ~(Removes(ctx) /\ ctx.hold)
        /\ ctx.raw = None /\ ctx.derived = None
  <2> DEFINE C == /\ ctx.strictness # "permissive"
                  /\ ~(Removes(ctx) /\ ctx.hold)
                  /\ ctx.raw = None /\ ctx.derived = None
             S == IF ctx.strictness = "strict" THEN "error" ELSE "warning"
  <2>1. C \in BOOLEAN
    BY DEF NoBasis
  <2>2. RetentionRequired(ctx) = When(C, "MISSING_RETENTION", S)
    BY DEF RetentionRequired
  <2>3. S = "error" <=> ctx.strictness = "strict"
    OBVIOUS
  <2> HIDE DEF S
  <2>4. Severe(When(C, "MISSING_RETENTION", S), "error") <=> C /\ S = "error"
    BY <2>1, WhenGives
  <2>5. QED BY <2>2, <2>3, <2>4
<1>2. Severe(LegalHoldConflict(ctx), "error") <=> Removes(ctx) /\ ctx.hold
  BY WhenGives DEF LegalHoldConflict, Removes
<1>3. Severe(PiiHandling(ctx), "error") <=>
        /\ ctx.strictness = "strict" /\ ctx.pii = "yes"
        /\ NoBasis(ctx) \/ ctx.purpose = None
  <2> DEFINE C == /\ ctx.pii = "yes"
                  /\ NoBasis(ctx) \/ (ctx.strictness = "strict" /\ ctx.purpose = None)
             S == IF ctx.strictness = "strict" THEN "error" ELSE "warning"
  <2>1. C \in BOOLEAN
    BY DEF NoBasis
  <2>2. PiiHandling(ctx) = When(C, "PII_HANDLING_ABSENT", S)
    BY DEF PiiHandling
  <2>3. S = "error" <=> ctx.strictness = "strict"
    OBVIOUS
  <2> HIDE DEF S
  <2>4. Severe(When(C, "PII_HANDLING_ABSENT", S), "error") <=> C /\ S = "error"
    BY <2>1, WhenGives
  <2>5. QED BY <2>2, <2>3, <2>4
<1>4. Severe(ClassificationKnown(ctx), "error") <=>
        ctx.strictness = "strict" /\ ctx.class \in {None, Blank}
  BY WhenGives DEF ClassificationKnown
<1>5. ~Severe(ConsentUserData(ctx), "error")
  BY ZenonT(40), WhenGives DEF ConsentUserData, NoBasis
<1>6. Severe(PurposeStrict(ctx), "error") <=>
        ctx.strictness = "strict" /\ ctx.purpose \in {None, Blank}
  BY WhenGives DEF PurposeStrict
<1>7. Severe(SharingExport(ctx), "error") <=>
        /\ ctx.action \in {"export", "share"}
        /\ ctx.sharing \in {"internal_only", "no_export", "no_share"}
  <2> DEFINE C == /\ ctx.action \in {"export", "share"}
                  /\ ctx.sharing \in {"internal_only", "no_export", "no_share"}
             K == IF ctx.action = "share" THEN "SHARING_FORBIDDEN" ELSE "EXPORT_FORBIDDEN"
             D == /\ ctx.action = "export" /\ ctx.strictness = "strict"
                  /\ ctx.class \in {"restricted", "confidential"} /\ ctx.sharing = "no_export"
  <2>1. SharingExport(ctx) = When(C, K, "error") \cup When(D, "EXPORT_FORBIDDEN", "error")
    BY DEF SharingExport
  <2> HIDE DEF K
  <2>2. Severe(When(C, K, "error"), "error") <=> C
    BY WhenGives
  <2>3. Severe(When(D, "EXPORT_FORBIDDEN", "error"), "error") <=> D
    BY WhenGives
  <2>4. D => C
    OBVIOUS
  <2>5. QED BY <2>1, <2>2, <2>3, <2>4 DEF Severe
<1>8. ~Severe(ReportComplianceFields(ctx), "error")
  BY WhenGives DEF ReportComplianceFields
<1>9. QED BY <1>1, <1>2, <1>3, <1>4, <1>5, <1>6, <1>7, <1>8, SevereReasons DEF Errors

LEMMA WarningReasons ==
  ASSUME NEW ctx, ctx.hold \in BOOLEAN
  PROVE  Severe(Reasons(ctx), "warning") <=> Warnings(ctx)
<1>1. Severe(RetentionRequired(ctx), "warning") <=>
        /\ ctx.strictness \notin {"strict", "permissive"} /\ ~(Removes(ctx) /\ ctx.hold)
        /\ ctx.raw = None /\ ctx.derived = None
  <2> DEFINE C == /\ ctx.strictness # "permissive"
                  /\ ~(Removes(ctx) /\ ctx.hold)
                  /\ ctx.raw = None /\ ctx.derived = None
             S == IF ctx.strictness = "strict" THEN "error" ELSE "warning"
  <2>1. C \in BOOLEAN
    BY DEF NoBasis
  <2>2. RetentionRequired(ctx) = When(C, "MISSING_RETENTION", S)
    BY DEF RetentionRequired
  <2>3. S = "warning" <=> ctx.strictness # "strict"
    OBVIOUS
  <2> HIDE DEF S
  <2>4. Severe(When(C, "MISSING_RETENTION", S), "warning") <=> C /\ S = "warning"
    BY <2>1, WhenGives
  <2>5. QED BY <2>2, <2>3, <2>4
<1>2. ~Severe(LegalHoldConflict(ctx), "warning")
  BY WhenGives DEF LegalHoldConflict, Removes
<1>3. Severe(PiiHandling(ctx), "warning") <=>
        ctx.strictness # "strict" /\ ctx.pii = "yes" /\ NoBasis(ctx)
  <2> DEFINE C == /\ ctx.pii = "yes"
                  /\ NoBasis(ctx) \/ (ctx.strictness = "strict" /\ ctx.purpose = None)
             S == IF ctx.strictness = "strict" THEN "error" ELSE "warning"
  <2>1. C \in BOOLEAN
    BY DEF NoBasis
  <2>2. PiiHandling(ctx) = When(C, "PII_HANDLING_ABSENT", S)
    BY DEF PiiHandling
  <2>3. S = "warning" <=> ctx.strictness # "strict"
    OBVIOUS
  <2> HIDE DEF S
  <2>4. Severe(When(C, "PII_HANDLING_ABSENT", S), "warning") <=> C /\ S = "warning"
    BY <2>1, WhenGives
  <2>5. QED BY <2>2, <2>3, <2>4
<1>4. ~Severe(ClassificationKnown(ctx), "warning")
  BY ZenonT(40), WhenGives DEF ClassificationKnown
<1>5. Severe(ConsentUserData(ctx), "warning") <=>
        ctx.source = "user_provided" /\ NoBasis(ctx)
  BY ZenonT(40), WhenGives DEF ConsentUserData, NoBasis
<1>6. ~Severe(PurposeStrict(ctx), "warning")
  BY ZenonT(40), WhenGives DEF PurposeStrict
<1>7. ~Severe(SharingExport(ctx), "warning")
  <2> DEFINE C == /\ ctx.action \in {"export", "share"}
                  /\ ctx.sharing \in {"internal_only", "no_export", "no_share"}
             K == IF ctx.action = "share" THEN "SHARING_FORBIDDEN" ELSE "EXPORT_FORBIDDEN"
             D == /\ ctx.action = "export" /\ ctx.strictness = "strict"
                  /\ ctx.class \in {"restricted", "confidential"} /\ ctx.sharing = "no_export"
  <2>1. SharingExport(ctx) = When(C, K, "error") \cup When(D, "EXPORT_FORBIDDEN", "error")
    BY DEF SharingExport
  <2> HIDE DEF K
  <2>2. ~Severe(When(C, K, "error"), "warning")
    BY WhenGives
  <2>3. ~Severe(When(D, "EXPORT_FORBIDDEN", "error"), "warning")
    BY WhenGives
  <2>4. QED BY <2>1, <2>2, <2>3 DEF Severe
<1>8. Severe(ReportComplianceFields(ctx), "warning") <=>
        /\ ctx.action = "run" /\ ctx.strictness = "strict"
        /\ ctx.raw = None \/ ctx.derived = None
  BY WhenGives DEF ReportComplianceFields
<1>9. QED BY <1>1, <1>2, <1>3, <1>4, <1>5, <1>6, <1>7, <1>8, SevereReasons DEF Warnings

\* The decision, from the conditions of the rules.
LEMMA Decision ==
  ASSUME NEW ctx, ctx.hold \in BOOLEAN
  PROVE  Evaluate(ctx) = IF Errors(ctx) THEN "deny"
                         ELSE IF Warnings(ctx) THEN "warn" ELSE "allow"
BY ErrorReasons, WarningReasons DEF Evaluate, Severe

\* Of two contexts that differ in their strictness only, the stricter is not
\* decided more loosely.
LEMMA Stricter ==
  ASSUME NEW c, NEW d, c.hold \in BOOLEAN, d.hold = c.hold,
         d.action = c.action, d.raw = c.raw, d.derived = c.derived,
         d.class = c.class, d.source = c.source, d.pii = c.pii,
         d.consent = c.consent, d.lawful = c.lawful, d.purpose = c.purpose,
         d.sharing = c.sharing,
         \/ c.strictness = "permissive" /\ d.strictness = "standard"
         \/ c.strictness = "standard" /\ d.strictness = "strict"
  PROVE  Rank(Evaluate(c)) <= Rank(Evaluate(d))
<1>1. Errors(c) => Errors(d)
  BY DEF Errors, Removes, NoBasis
<1>2. Warnings(c) => Warnings(d) \/ Errors(d)
  BY DEF Errors, Warnings, Removes, NoBasis
<1>3. Rank("allow") = 0 /\ Rank("warn") = 1 /\ Rank("deny") = 2
  BY DEF Rank
<1>4. Evaluate(c) = IF Errors(c) THEN "deny"
                    ELSE IF Warnings(c) THEN "warn" ELSE "allow"
  BY Decision
<1>5. Evaluate(d) = IF Errors(d) THEN "deny"
                    ELSE IF Warnings(d) THEN "warn" ELSE "allow"
  BY Decision
<1>6. QED BY <1>1, <1>2, <1>3, <1>4, <1>5

-----------------------------------------------------------------------------
(* Types *)

LEMMA Apart ==
  /\ None \notin Int /\ None \notin Files /\ Torn # None
  /\ MaxTime \in Nat
  /\ \A t \in Time : t \in Int /\ t # None
BY RetentionAssumption DEF Time

LEMMA InitType == Init => TypeOK
<1> SUFFICES ASSUME Init PROVE TypeOK
  OBVIOUS
<1>1. now \in Time
  BY Apart DEF Init, Time
<1>2. mtime \in [Files -> Time \cup {None}] /\ ~Present("report")
  BY DEF Init, Files, Present
<1>3. run \in RunType /\ ~Writing
  BY Apart DEF Init, NoRun, RunType, FlatOrder, Time, Writing
<1>4. sweep \in SweepType /\ sweep.pc # "unlink" /\ sweep.old = None
  BY DEF Init, NoSweep, SweepType
<1>5. QED BY <1>1, <1>2, <1>3, <1>4 DEF Init, TypeOK

\* A run step and a cleanup step leave the other's part alone.
LEMMA StepType == TypeOK /\ [Next]_vars => TypeOK'
<1> SUFFICES ASSUME TypeOK, [Next]_vars PROVE TypeOK'
  OBVIOUS
<1> USE DEF Files, FlatOrder
<1>1. overlap' \in BOOLEAN
  BY DEF TypeOK, Next, vars
<1>2. /\ now \in Time /\ mtime \in [Files -> Time \cup {None}]
      /\ run \in RunType /\ sweep \in SweepType
  BY DEF TypeOK
<1>3. ASSUME NEW req \in Request, StartRun(req) PROVE TypeOK'
  <2>1. run' \in RunType /\ run'.req \in Request
    BY <1>2, <1>3 DEF StartRun, RunType
  <2>2. QED BY <1>1, <1>3, <2>1 DEF StartRun, TypeOK, Present
<1>4. CASE OpenFile
  <2> DEFINE f == FlatOrder[run.step]
  <2>1. f \in Files
    BY <1>2 DEF RunType
  <2>2. mtime' = [mtime EXCEPT ![f] = now] /\ mtime' \in [Files -> Time \cup {None}]
    BY <1>2, <1>4, <2>1 DEF OpenFile
  <2>3. run' \in RunType /\ (Writing' => run'.req \in Request)
    BY <1>2, <1>4 DEF OpenFile, RunType, TypeOK, Writing
  <2>4. report' \in {None, Torn} \cup {BuildReport(req) : req \in Request}
    BY <1>4 DEF OpenFile, TypeOK
  <2>5. CASE f = "report"
    BY <1>1, <1>2, <1>4, <2>2, <2>3, <2>4, <2>5, Apart DEF OpenFile, TypeOK, Present
  <2>6. CASE f # "report"
    BY <1>1, <1>2, <1>4, <2>2, <2>3, <2>4, <2>6 DEF OpenFile, TypeOK, Present
  <2>7. QED BY <2>5, <2>6
<1>5. AfterFile \in RunType /\ (AfterFile.pc = "open" => AfterFile.req = run.req)
        /\ AfterFile.pc \notin {"close", "stamp"}
  <2>1. Len(FlatOrder) = 3 /\ 0 \in Time
    BY Apart DEF Time
  <2>2. run.step \in 1..3 /\ run.pc \in {"idle", "open", "close", "stamp", "done"}
    BY <1>2, <2>1 DEF RunType
  <2>3. CASE run.step = 3
    <3>1. AfterFile = [pc |-> "done", step |-> 1, born |-> 0, req |-> None]
      BY <2>1, <2>3 DEF AfterFile, NoRun
    <3>2. QED BY <2>1, <3>1 DEF RunType
  <2>4. CASE run.step # 3
    <3>1. AfterFile = [run EXCEPT !.pc = "open", !.step = run.step + 1]
      BY <2>1, <2>4 DEF AfterFile
    <3>2. run.step + 1 \in 1..Len(FlatOrder)
      BY <2>1, <2>2, <2>4
    <3>3. QED BY <1>2, <3>1, <3>2 DEF RunType
  <2>5. QED BY <2>3, <2>4
<1>6. NoRun \in RunType /\ NoRun.pc = "idle"
  BY Apart DEF NoRun, RunType, Time
<1>7. /\ AfterClose \in RunType
      /\ AfterClose.pc \in {"open", "close", "stamp"} => AfterClose.req = run.req
  <2>1. CASE FlatOrder[run.step] \in Copied
    <3>1. AfterClose = [run EXCEPT !.pc = "stamp"]
      BY <2>1 DEF AfterClose
    <3>2. QED BY <1>2, <3>1 DEF RunType
  <2>2. CASE FlatOrder[run.step] \notin Copied
    <3>1. AfterClose = AfterFile
      BY <2>2 DEF AfterClose
    <3>2. QED BY <1>5, <3>1
  <2>3. QED BY <2>1, <2>2
<1>8. CASE CloseFile
  <2> DEFINE f == FlatOrder[run.step]
  <2>1. f \in Files
    BY <1>2 DEF RunType
  <2>2. mtime' = [mtime EXCEPT ![f] = now] /\ Present(f)
    BY <1>8 DEF CloseFile
  <2>3. mtime' \in [Files -> Time \cup {None}]
    BY <1>2, <2>1, <2>2
  <2>4. run.req \in Request
    BY <1>8 DEF CloseFile, TypeOK, Writing
  <2>5. run' \in RunType /\ (Writing' => run'.req \in Request)
    BY <1>7, <1>8, <2>4 DEF CloseFile, Writing
  <2>6. report' \in {None, Torn} \cup {BuildReport(req) : req \in Request}
    BY <1>8, <2>4 DEF CloseFile, TypeOK
  <2>7. (report' = None) <=> ~Present("report")'
    <3>1. CASE f = "report"
      <4>1. report' = BuildReport(run.req) /\ report' # None
        BY <1>8, <2>4, <3>1, ReportIsText DEF CloseFile
      <4>2. mtime'["report"] = now
        BY <1>2, <2>2, <3>1
      <4>3. QED BY <1>2, <4>1, <4>2, Apart DEF Present
    <3>2. CASE f # "report"
      <4>1. report' = report
        BY <1>8, <3>2 DEF CloseFile
      <4>2. mtime'["report"] = mtime["report"]
        BY <1>2, <2>2, <3>2
      <4>3. QED BY <4>1, <4>2 DEF Present, TypeOK
    <3>3. QED BY <3>1, <3>2
  <2>8. UNCHANGED <<now, sweep>>
    BY <1>8 DEF CloseFile
  <2>9. QED BY <1>1, <2>3, <2>5, <2>6, <2>7, <2>8 DEF TypeOK
<1>9. CASE CloseDeleted
  <2>1. run.req \in Request /\ run' = AfterClose
    BY <1>9 DEF CloseDeleted, TypeOK, Writing
  <2>2. run' \in RunType /\ (Writing' => run'.req \in Request)
    BY <1>7, <2>1 DEF Writing
  <2>3. QED BY <1>1, <1>9, <2>2 DEF CloseDeleted, TypeOK, Present
<1>10. CASE CopyTime
  <2> DEFINE f == FlatOrder[run.step]
  <2>1. f \in Files /\ run.born \in Time
    BY <1>2 DEF RunType
  <2>2. mtime' = [mtime EXCEPT ![f] = run.born] /\ Present(f)
    BY <1>10 DEF CopyTime
  <2>3. mtime' \in [Files -> Time \cup {None}]
    BY <1>2, <2>1, <2>2
  <2>4. \A g \in Files : Present(g)' <=> Present(g)
    BY <1>2, <2>1, <2>2, Apart DEF Present
  <2>5. run.req \in Request /\ run' = AfterFile
    BY <1>10 DEF CopyTime, TypeOK, Writing
  <2>6. run' \in RunType /\ (Writing' => run'.req \in Request)
    BY <1>5, <2>5 DEF Writing
  <2>7. UNCHANGED <<now, report, sweep>>
    BY <1>10 DEF CopyTime
  <2>8. QED BY <1>1, <2>3, <2>4, <2>6, <2>7 DEF TypeOK
<1>11. CASE CopyTimeRaises
  BY <1>1, <1>6, <1>11 DEF CopyTimeRaises, TypeOK, Present, Writing
<1>12. CASE DieRun
  BY <1>1, <1>6, <1>12 DEF DieRun, TypeOK, Present, Writing
<1>13. NoSweep \in SweepType /\ NoSweep.pc = "idle" /\ NoSweep.old = None
  BY DEF NoSweep, SweepType
<1>14. SUFFICES ASSUME SweepStep \/ Tick \/ UNCHANGED vars PROVE TypeOK'
  BY <1>3, <1>4, <1>8, <1>9, <1>10, <1>11, <1>12 DEF Next, RunStep
<1>15. CASE SweepStep
  <2>1. CASE Unlink
    <3>1. sweep.old \in Files
      BY <1>2, <2>1 DEF Unlink, TypeOK, SweepType
    <3>2. mtime' = [mtime EXCEPT ![sweep.old] = None]
             /\ mtime' \in [Files -> Time \cup {None}]
      BY <1>2, <2>1, <3>1 DEF Unlink
    <3>3. sweep' \in SweepType /\ sweep'.pc # "unlink" /\ sweep'.old = None
      BY <1>2, <2>1 DEF Unlink, SweepType
    <3>4. (report' = None) <=> ~Present("report")'
      <4>1. CASE sweep.old = "report"
        BY <1>2, <2>1, <3>2, <4>1 DEF Unlink, Present
      <4>2. CASE sweep.old # "report"
        BY <1>2, <2>1, <3>2, <4>2 DEF Unlink, Present, TypeOK
      <4>3. QED BY <4>1, <4>2
    <3>5. report' \in {None, Torn} \cup {BuildReport(req) : req \in Request}
      BY <2>1 DEF Unlink, TypeOK
    <3>6. UNCHANGED <<now, run>>
      BY <2>1 DEF Unlink
    <3>7. QED BY <1>1, <3>2, <3>3, <3>4, <3>5, <3>6 DEF TypeOK, Writing
  <2>2. SUFFICES ASSUME /\ UNCHANGED <<now, mtime, report, run>>
                        /\ sweep' \in SweepType
                        /\ (sweep'.pc = "unlink") <=> (sweep'.old # None)
                 PROVE  TypeOK'
    <3>1. ASSUME NEW flags \in CleanupFlags, Scan(flags) PROVE TypeOK'
      <4>1. flags.raw \in Nat /\ flags.hold \in BOOLEAN
        BY RetentionAssumption
      <4>2. sweep' \in SweepType /\ sweep'.pc # "unlink" /\ sweep'.old = None
        <5> DEFINE pc == IF Present("artifact") THEN "start" ELSE "list"
                   todo == {"artifact"} \cap {f \in Files : Present(f)}
        <5>1. pc \in {"start", "list"} /\ todo \in SUBSET Files
          OBVIOUS
        <5>2. sweep' = [pc |-> pc, todo |-> todo, raw |-> flags.raw,
                        hold |-> flags.hold, cutoff |-> 0, old |-> None]
          BY <3>1 DEF Scan, NoSweep
        <5> HIDE DEF pc, todo
        <5>3. QED BY <4>1, <5>1, <5>2 DEF SweepType
      <4>3. QED BY <2>2, <3>1, <4>2 DEF Scan
    <3>2. CASE List
      <4>1. sweep' \in SweepType /\ sweep'.pc # "unlink" /\ sweep'.old = None
        BY <1>2, <3>2 DEF List, SweepType, TypeOK
      <4>2. QED BY <2>2, <3>2, <4>1 DEF List
    <3>3. CASE StartDeleting
      <4>1. now - sweep.raw \in Int
        BY <1>2, Apart DEF SweepType
      <4>2. sweep' \in SweepType /\ sweep'.pc # "unlink" /\ sweep'.old = None
        BY <1>2, <1>13, <3>3, <4>1 DEF StartDeleting, SweepType, TypeOK
      <4>3. QED BY <2>2, <3>3, <4>2 DEF StartDeleting
    <3>4. ASSUME NEW f \in Files, LookAt(f) PROVE TypeOK'
      <4>1. sweep' \in SweepType /\ ((sweep'.pc = "unlink") <=> (sweep'.old # None))
        BY <1>2, <3>4, Apart DEF LookAt, SweepType
      <4>2. QED BY <2>2, <3>4, <4>1 DEF LookAt
    <3>5. CASE EndSweep
      BY <1>13, <2>2, <3>5 DEF EndSweep
    <3>6. CASE DieSweep
      BY <1>13, <2>2, <3>6 DEF DieSweep
    <3>7. QED BY <1>15, <2>1, <3>1, <3>2, <3>3, <3>4, <3>5, <3>6 DEF SweepStep
  <2>3. QED BY <1>1, <2>2 DEF TypeOK, Present, Writing
<1>16. CASE Tick
  BY <1>1, <1>2, <1>16, Apart DEF Tick, TypeOK, Present, Writing, Time
<1>17. CASE UNCHANGED vars
  BY <1>17 DEF vars, TypeOK, Present, Writing
<1>18. QED BY <1>14, <1>15, <1>16, <1>17

\* Every reachable state has its type.
THEOREM RetentionTypeCorrect == Spec => []TypeOK
BY InitType, StepType, PTL DEF Spec

-----------------------------------------------------------------------------
(* What the two commands answer *)

\* The hold and the retention times of a report have their types.
LEMMA ReportType ==
  ASSUME TypeOK, Readable
  PROVE  report.hold \in BOOLEAN /\ report.raw \in Nat \cup {None}
           /\ report.derived \in Nat \cup {None}
<1>1. PICK req \in Request : report = BuildReport(req)
  BY DEF TypeOK, Readable
<1>2. req.args \in RunContext
  BY RetentionAssumption DEF Arguments
<1>3. /\ Defaulted(req.args).hold = req.args.hold
      /\ Defaulted(req.args).raw = req.args.raw
      /\ Defaulted(req.args).derived = req.args.derived
  BY <1>2 DEF Defaulted, RunContext
<1>4. /\ BuildReport(req).hold = Defaulted(req.args).hold
      /\ BuildReport(req).raw = Defaulted(req.args).raw
      /\ BuildReport(req).derived = Defaulted(req.args).derived
  BY DEF BuildReport
<1>5. QED BY <1>1, <1>2, <1>3, <1>4 DEF RunContext

\* What is used of the policy that retention status goes by.
LEMMA PolicyType ==
  ASSUME TypeOK, NEW flags \in StatusFlags
  PROVE  /\ RetentionOf(flags).hold \in BOOLEAN
         /\ RetentionOf(flags).raw \in Nat \cup {None}
         /\ RetentionOf(flags).derived \in Nat \cup {None}
<1>1. flags.hold \in BOOLEAN /\ flags.raw \in Nat /\ flags.derived \in Nat
  BY RetentionAssumption
<1>2. QED BY <1>1, ReportType DEF RetentionOf

\* "held" is said of a hold and of nothing else.
LEMMA HeldIsHold ==
  ASSUME TypeOK, NEW flags \in StatusFlags, Status(flags) = "held"
  PROVE  RetentionOf(flags).hold = TRUE
<1>1. RetentionOf(flags).hold \in BOOLEAN
  BY PolicyType
<1>2. CASE ~RetentionOf(flags).hold
  BY <1>2 DEF Status, Lifecycle
<1>3. QED BY <1>1, <1>2

LEMMA GateOfType == TypeOK => PurgeGate
<1> SUFFICES ASSUME TypeOK, NEW flags \in StatusFlags, Status(flags) = "held",
                    NEW action \in {"purge", "delete"}, NEW s \in Strictness
             PROVE  PolicyCheck(action, s) = "deny"
  BY DEF PurgeGate
<1>1. CASE ~Readable
  BY <1>1 DEF PolicyCheck
<1>2. CASE Readable
  <2> DEFINE ctx == [action |-> action, strictness |-> s, hold |-> report.hold,
                     raw |-> report.raw, derived |-> report.derived,
                     class |-> report.class, source |-> report.source,
                     pii |-> report.pii, consent |-> report.consent, lawful |-> None,
                     purpose |-> report.purpose, sharing |-> report.sharing]
  <2>1. report.hold = TRUE
    BY <1>2, HeldIsHold DEF RetentionOf
  <2>2. PolicyCheck(action, s) = Evaluate(ctx)
    BY <1>2 DEF PolicyCheck
  <2>3. ctx.hold = TRUE /\ ctx.action = action
    BY <2>1
  <2> HIDE DEF ctx
  <2>4. Errors(ctx)
    BY <2>3 DEF Errors, Removes
  <2>5. Evaluate(ctx) = IF Errors(ctx) THEN "deny"
                        ELSE IF Warnings(ctx) THEN "warn" ELSE "allow"
    <3>1. ctx.hold \in BOOLEAN
      BY <2>3
    <3>2. QED BY <3>1, Decision
  <2>6. QED BY <2>2, <2>4, <2>5
<1>3. QED BY <1>1, <1>2

\* A bundle that retention status calls held is never released by policy check.
THEOREM PurgeIsGated == Spec => []PurgeGate
BY RetentionTypeCorrect, GateOfType, PTL

LEMMA StricterOfType == TypeOK => StricterNeverLooser
<1> SUFFICES ASSUME TypeOK, NEW action \in Action
             PROVE  /\ Rank(PolicyCheck(action, "permissive"))
                         <= Rank(PolicyCheck(action, "standard"))
                    /\ Rank(PolicyCheck(action, "standard"))
                         <= Rank(PolicyCheck(action, "strict"))
  BY DEF StricterNeverLooser
<1>1. CASE ~Readable
  <2>1. Rank("deny") = 2
    BY DEF Rank
  <2>2. QED BY <1>1, <2>1 DEF PolicyCheck
<1>2. CASE Readable
  <2> DEFINE ctx(s) == [action |-> action, strictness |-> s, hold |-> report.hold,
                     raw |-> report.raw, derived |-> report.derived,
                     class |-> report.class, source |-> report.source,
                     pii |-> report.pii, consent |-> report.consent, lawful |-> None,
                     purpose |-> report.purpose, sharing |-> report.sharing]
  <2>1. /\ PolicyCheck(action, "permissive") = Evaluate(ctx("permissive"))
        /\ PolicyCheck(action, "standard") = Evaluate(ctx("standard"))
        /\ PolicyCheck(action, "strict") = Evaluate(ctx("strict"))
    BY <1>2 DEF PolicyCheck
  <2>2. report.hold \in BOOLEAN
    BY <1>2, ReportType
  <2>3. Rank(Evaluate(ctx("permissive"))) <= Rank(Evaluate(ctx("standard")))
    BY <2>2, Stricter
  <2>4. Rank(Evaluate(ctx("standard"))) <= Rank(Evaluate(ctx("strict")))
    BY <2>2, Stricter
  <2> HIDE DEF ctx
  <2>5. QED BY <2>1, <2>3, <2>4
<1>3. QED BY <1>1, <1>2

\* A stricter check of the same bundle never decides more loosely.
THEOREM StricterIsStricter == Spec => []StricterNeverLooser
BY RetentionTypeCorrect, StricterOfType, PTL

\* Contexts with the same values are decided alike.
LEMMA SameDecision ==
  ASSUME NEW c, NEW d, c.hold \in BOOLEAN, d.hold = c.hold,
         d.action = c.action, d.strictness = c.strictness,
         d.raw = c.raw, d.derived = c.derived, d.class = c.class,
         d.source = c.source, d.pii = c.pii, d.consent = c.consent,
         d.lawful = c.lawful, d.purpose = c.purpose, d.sharing = c.sharing
  PROVE  Evaluate(c) = Evaluate(d)
<1>1. (Errors(c) <=> Errors(d)) /\ (Warnings(c) <=> Warnings(d))
  BY DEF Errors, Warnings, Removes, NoBasis
<1>2. Evaluate(c) = IF Errors(c) THEN "deny"
                    ELSE IF Warnings(c) THEN "warn" ELSE "allow"
  BY Decision
<1>3. Evaluate(d) = IF Errors(d) THEN "deny"
                    ELSE IF Warnings(d) THEN "warn" ELSE "allow"
  BY Decision
<1>4. QED BY <1>1, <1>2, <1>3

LEMMA RecheckOfType == TypeOK => RecheckAgrees
<1> SUFFICES ASSUME TypeOK, Readable, report.of.context = None
             PROVE  PolicyCheck("run", report.of.args.strictness) = report.decision
  BY DEF RecheckAgrees
<1>1. PICK req \in Request : report = BuildReport(req)
  BY DEF TypeOK, Readable
<1> DEFINE args == Defaulted(req.args)
           ctx  == [action |-> "run", strictness |-> req.args.strictness,
                    hold |-> args.hold, raw |-> args.raw, derived |-> args.derived,
                    class |-> args.class, source |-> args.source, pii |-> args.pii,
                    consent |-> args.consent, lawful |-> None,
                    purpose |-> args.purpose, sharing |-> args.sharing]
<1>2. report.of = req /\ report.decision = Evaluate(args)
  <2>1. report.of = req /\ report.decision = Evaluate(ContextOf(req))
    BY <1>1 DEF BuildReport
  <2>2. QED BY <2>1 DEF ContextOf
<1>3. PolicyCheck("run", req.args.strictness) = Evaluate(ctx)
  BY <1>1 DEF PolicyCheck, BuildReport
<1>4. req.args \in RunContext /\ req.args.action = "run" /\ req.args.lawful = None
  BY RetentionAssumption DEF Arguments
<1>5. /\ args.action = "run" /\ args.lawful = None /\ args.hold \in BOOLEAN
      /\ args.strictness = req.args.strictness
  BY <1>4 DEF Defaulted, RunContext
<1>6. /\ ctx.action = "run" /\ ctx.strictness = req.args.strictness
      /\ ctx.hold = args.hold /\ ctx.raw = args.raw /\ ctx.derived = args.derived
      /\ ctx.class = args.class /\ ctx.source = args.source /\ ctx.pii = args.pii
      /\ ctx.consent = args.consent /\ ctx.lawful = None
      /\ ctx.purpose = args.purpose /\ ctx.sharing = args.sharing
  OBVIOUS
<1> HIDE DEF args, ctx
<1>7. Evaluate(args) = Evaluate(ctx)
  BY <1>5, <1>6, SameDecision
<1>8. QED BY <1>2, <1>3, <1>7

\* Checking a bundle again gives the decision its run recorded.
THEOREM RecheckIsTheRun == Spec => []RecheckAgrees
BY RetentionTypeCorrect, RecheckOfType, PTL

\* retention_status raises on a report that lacks a retention time, and on
\* nothing else.
LEMMA RaisesLacksTime ==
  ASSUME TypeOK, NEW flags \in StatusFlags, Status(flags) = "raises"
  PROVE  Readable /\ (report.raw = None \/ report.derived = None)
<1>1. RetentionOf(flags).raw = None \/ RetentionOf(flags).derived = None
  <2>1. CASE /\ RetentionOf(flags).raw # None /\ RetentionOf(flags).derived # None
    BY <2>1 DEF Status, Lifecycle
  <2>2. QED BY <2>1
<1>2. flags.raw # None /\ flags.derived # None
  <2>1. flags.raw \in Nat /\ flags.derived \in Nat
    BY RetentionAssumption
  <2>2. QED BY <2>1, Apart
<1>3. QED BY <1>1, <1>2 DEF RetentionOf

LEMMA ForewarnedOfType == TypeOK => StatusRaisesForewarned
<1> SUFFICES ASSUME TypeOK, NEW flags \in StatusFlags, Status(flags) = "raises"
             PROVE  /\ Readable
                    /\ PolicyCheck("run", "strict") # "allow"
                    /\ report.of.context = None /\ report.of.args.strictness = "strict" =>
                         report.decision # "allow"
  BY DEF StatusRaisesForewarned
<1> DEFINE ctx == [action |-> "run", strictness |-> "strict", hold |-> report.hold,
                   raw |-> report.raw, derived |-> report.derived,
                   class |-> report.class, source |-> report.source,
                   pii |-> report.pii, consent |-> report.consent, lawful |-> None,
                   purpose |-> report.purpose, sharing |-> report.sharing]
<1>1. Readable /\ (report.raw = None \/ report.derived = None)
  BY RaisesLacksTime
<1>2. PolicyCheck("run", "strict") = Evaluate(ctx)
  BY <1>1 DEF PolicyCheck
<1>3. ctx.hold \in BOOLEAN
  BY <1>1, ReportType
<1>4. ctx.action = "run" /\ ctx.strictness = "strict" /\ (ctx.raw = None \/ ctx.derived = None)
  BY <1>1
<1> HIDE DEF ctx
<1>5. Warnings(ctx)
  BY <1>4 DEF Warnings
<1>6. Evaluate(ctx) # "allow"
  BY <1>3, <1>5, Decision
<1>7. report.of.context = None /\ report.of.args.strictness = "strict" =>
        PolicyCheck("run", "strict") = report.decision
  BY <1>1, RecheckOfType DEF RecheckAgrees
<1>8. QED BY <1>1, <1>2, <1>6, <1>7

\* A report that makes retention status raise was not allowed by the policy.
THEOREM RaisesForewarned == Spec => []StatusRaisesForewarned
BY RetentionTypeCorrect, ForewarnedOfType, PTL

-----------------------------------------------------------------------------
(* The lifecycle *)

\* With time, and with the artifact gone, the state moves forward.
LEMMA LifecycleForward ==
  ASSUME NEW policy, policy.hold \in BOOLEAN,
         policy.raw \in Nat \cup {None}, policy.derived \in Nat \cup {None},
         NEW a \in Time \cup {None}, NEW b \in {a, None},
         NEW ref \in Time, NEW t \in Time, NEW u \in Time, t <= u
  PROVE  LifecycleOrder(Lifecycle(policy, a, ref, t))
           <= LifecycleOrder(Lifecycle(policy, b, ref, u))
<1>1. /\ LifecycleOrder("active") = 0 /\ LifecycleOrder("retained") = 1
      /\ LifecycleOrder("expired") = 2 /\ LifecycleOrder("purge_eligible") = 3
      /\ LifecycleOrder("held") = 4 /\ LifecycleOrder("raises") = 4
  BY DEF LifecycleOrder
<1>2. ref # None /\ ref \in Int /\ t \in Int /\ u \in Int
  BY Apart
<1>3. \A x : Or(ref, x) = ref
  BY <1>2 DEF Or
<1>4. CASE policy.hold \/ policy.raw = None \/ policy.derived = None
  BY <1>1, <1>2, <1>3, <1>4 DEF Lifecycle
<1>5. CASE ~policy.hold /\ policy.raw # None /\ policy.derived # None
  <2>1. policy.raw \in Int /\ policy.derived \in Int
    BY <1>5
  <2>2. \A x \in {t, u} : x - policy.raw \in Int /\ x - policy.derived \in Int
    BY <1>2, <2>1
  <2>3. t - policy.raw <= u - policy.raw /\ t - policy.derived <= u - policy.derived
    BY <1>2, <2>1
  <2>4. a # None => a \in Int
    BY Apart
  <2> DEFINE L(x, v) ==
        IF x # None /\ x >= v - policy.raw THEN "active"
        ELSE IF ref < v - policy.derived THEN "purge_eligible"
        ELSE IF ref < v - policy.raw THEN "expired"
        ELSE "retained"
  <2>5. Lifecycle(policy, a, ref, t) = L(a, t) /\ Lifecycle(policy, b, ref, u) = L(b, u)
    BY <1>2, <1>3, <1>5 DEF Lifecycle
  <2>6. LifecycleOrder(L(a, t)) <= LifecycleOrder(L(b, u))
    BY <1>1, <1>2, <2>2, <2>3, <2>4
  <2>7. QED BY <2>5, <2>6
<1>6. QED BY <1>4, <1>5

\* A step of the run is seen in its state.
LEMMA RunMoves == TypeOK /\ RunStep => run' # run
<1> SUFFICES ASSUME TypeOK, RunStep PROVE run'.pc # run.pc
  OBVIOUS
<1>1. run \in RunType
  BY DEF TypeOK
<1>2. CASE \E req \in Request : StartRun(req)
  BY <1>2 DEF StartRun, Writing
<1>3. CASE OpenFile
  BY <1>1, <1>3 DEF OpenFile, RunType
<1>4. AfterFile.pc \in {"open", "done"} /\ NoRun.pc = "idle"
  BY <1>1 DEF AfterFile, NoRun, RunType
<1>5. CASE CloseFile \/ CloseDeleted
  <2>1. AfterClose.pc # "close"
    BY <1>1, <1>4 DEF AfterClose, RunType
  <2>2. QED BY <1>5, <2>1 DEF CloseFile, CloseDeleted
<1>6. CASE CopyTime \/ CopyTimeRaises
  BY <1>4, <1>6 DEF CopyTime, CopyTimeRaises
<1>7. CASE DieRun
  BY <1>4, <1>7 DEF DieRun, Writing
<1>8. QED BY <1>2, <1>3, <1>5, <1>6, <1>7 DEF RunStep

LEMMA ForwardStep == TypeOK /\ TypeOK' /\ [Next]_vars =>
  (run' = run /\ Present("report") /\ mtime'["report"] # None =>
     \A flags \in StatusFlags :
       LifecycleOrder(Status(flags)) <= LifecycleOrder(Status(flags)'))
<1> SUFFICES ASSUME TypeOK, TypeOK', [Next]_vars,
                    run' = run, Present("report"), mtime'["report"] # None,
                    NEW flags \in StatusFlags
             PROVE  LifecycleOrder(Status(flags)) <= LifecycleOrder(Status(flags)')
  OBVIOUS
<1>1. /\ now \in Time /\ now' \in Time
      /\ mtime \in [Files -> Time \cup {None}] /\ mtime' \in [Files -> Time \cup {None}]
  BY DEF TypeOK
<1>2. /\ now <= now' /\ report' = report
      /\ mtime'["report"] = mtime["report"]
      /\ mtime'["artifact"] \in {mtime["artifact"], None}
  <2>1. CASE RunStep
    BY <2>1, RunMoves
  <2>2. CASE Unlink
    <3>1. mtime' = [mtime EXCEPT ![sweep.old] = None] /\ UNCHANGED now
      BY <2>2 DEF Unlink
    <3>2. sweep.old # "report"
      BY <1>1, <3>1 DEF Files
    <3>3. report' = report
      BY <2>2, <3>2 DEF Unlink
    <3>4. QED BY <1>1, <3>1, <3>2, <3>3, Apart DEF Files
  <2>3. CASE UNCHANGED <<now, mtime, report>>
    BY <1>1, <2>3, Apart
  <2>4. CASE Tick
    BY <1>1, <2>4, Apart DEF Tick
  <2>5. QED BY <2>1, <2>2, <2>3, <2>4
            DEF Next, SweepStep, Scan, List, StartDeleting, LookAt, EndSweep, DieSweep, vars
<1>3. RetentionOf(flags)' = RetentionOf(flags)
  BY <1>2 DEF RetentionOf, Readable
<1>4. mtime["report"] \in Time /\ mtime["artifact"] \in Time \cup {None}
  BY <1>1 DEF Present, Files
<1>5. /\ Or(mtime["report"], mtime["manifest"]) = mtime["report"]
      /\ Or(mtime["report"], mtime["manifest"])' = mtime["report"]
  BY <1>2 DEF Present, Or
<1>6. /\ Status(flags) = Lifecycle(RetentionOf(flags), mtime["artifact"], mtime["report"], now)
      /\ Status(flags)' = Lifecycle(RetentionOf(flags), mtime'["artifact"], mtime["report"], now')
  BY <1>3, <1>5 DEF Status, Lifecycle
<1>7. QED BY <1>1, <1>2, <1>4, <1>6, PolicyType, LifecycleForward

\* While the report stays, no step takes the lifecycle state of a bundle back.
THEOREM LifecycleIsForward == Spec => LifecycleMovesForward
<1>1. Spec => []TypeOK
  BY RetentionTypeCorrect
<1>2. QED BY <1>1, ForwardStep, PTL DEF Spec, LifecycleMovesForward

-----------------------------------------------------------------------------
(* Cleanup *)

(***************************************************************************)
(* Why a cleanup deletes nothing young: its cutoff stays at least its      *)
(* retention time behind the clock, and as long as no run has met a        *)
(* cleanup, the file it found old is as old when it deletes it.            *)
(***************************************************************************)
SweepInv ==
  /\ sweep.pc \in {"look", "unlink"} => sweep.cutoff <= now - sweep.raw
  /\ ~overlap => ~(Writing /\ sweep.pc # "idle")
  /\ ~overlap /\ sweep.pc = "unlink" =>
       Present(sweep.old) /\ mtime[sweep.old] < sweep.cutoff

(***************************************************************************)
(* Why the evidence outlives the artifact: a run writes the files in order *)
(* with nothing deleted in between, and where the artifact of a finished   *)
(* run is there, it is all that a cleanup has found to look at.            *)
(***************************************************************************)
EvidenceInv ==
  ~overlap =>
    /\ Writing => \A i \in 1..(run.step - 1) : Present(FlatOrder[i])
    /\ run.pc \in {"close", "stamp"} => Present(FlatOrder[run.step])
    /\ run.pc = "done" /\ Present("artifact") =>
         /\ \A f \in Files : Present(f)
         /\ sweep.pc # "list"
         /\ sweep.pc # "idle" => /\ sweep.todo \subseteq {"artifact"}
                                 /\ sweep.old \in {"artifact", None}

IInv == TypeOK /\ SweepInv /\ EvidenceInv

LEMMA InitIInv == Init => IInv
<1>1. Init => SweepInv /\ EvidenceInv
  BY DEF Init, SweepInv, EvidenceInv, NoRun, NoSweep, Writing
<1>2. QED BY <1>1, InitType DEF IInv

\* As long as no run meets a cleanup, only one of the two is at work.
LEMMA OneAtWork ==
  ASSUME TypeOK, Next, ~overlap'
  PROVE  ~overlap /\ ~(Writing' /\ sweep'.pc # "idle")
BY DEF Next, TypeOK, Writing

LEMMA StepSweepInv == TypeOK /\ TypeOK' /\ SweepInv /\ [Next]_vars => SweepInv'
<1> SUFFICES ASSUME TypeOK, TypeOK', SweepInv, [Next]_vars PROVE SweepInv'
  OBVIOUS
<1>1. CASE UNCHANGED vars
  BY <1>1 DEF vars, SweepInv, Writing, Present
<1>2. CASE Next
  <2>1. ~overlap' => ~overlap /\ ~(Writing' /\ sweep'.pc # "idle")
    BY <1>2, OneAtWork
  <2>2. /\ now \in Int /\ sweep \in SweepType /\ sweep' \in SweepType
        /\ now' \in Int /\ mtime \in [Files -> Time \cup {None}]
        /\ sweep.raw \in Int /\ sweep.cutoff \in Int
    BY Apart DEF TypeOK, SweepType
  <2>3. CASE RunStep
    <3>1. sweep' = sweep /\ now' = now
      BY <2>3 DEF RunStep, StartRun, OpenFile, CloseFile, CloseDeleted, CopyTime, CopyTimeRaises,
             DieRun
    <3>2. ~overlap' => sweep.pc = "idle"
      <4>1. Writing \/ Writing'
        BY <2>3 DEF RunStep, StartRun, OpenFile, CloseFile, CloseDeleted, CopyTime,
                       CopyTimeRaises, DieRun, Writing
      <4>2. QED BY <2>1, <3>1, <4>1 DEF SweepInv
    <3>3. QED BY <2>1, <3>1, <3>2 DEF SweepInv
  <2>4. CASE Tick
    BY <2>1, <2>2, <2>4 DEF Tick, SweepInv, Present
  <2>5. ASSUME NEW f \in Files, LookAt(f) PROVE SweepInv'
    <3>1. UNCHANGED <<now, mtime, run>> /\ sweep'.cutoff = sweep.cutoff /\ sweep'.raw = sweep.raw
      BY <2>2, <2>5 DEF LookAt, SweepType
    <3>2. sweep.pc = "look"
      BY <2>5 DEF LookAt
    <3>3. sweep'.pc = "unlink" => sweep'.old = f /\ Present(f) /\ mtime[f] < sweep.cutoff
      BY <2>2, <2>5 DEF LookAt, SweepType
    <3>4. QED BY <2>1, <3>1, <3>2, <3>3 DEF SweepInv, Present
  <2>6. CASE Unlink
    <3>1. /\ sweep'.pc = "look" /\ sweep'.cutoff = sweep.cutoff
          /\ sweep'.raw = sweep.raw /\ now' = now /\ sweep.pc = "unlink"
      BY <2>2, <2>6 DEF Unlink, SweepType
    <3>2. QED BY <2>1, <3>1 DEF SweepInv
  <2>7. CASE StartDeleting
    <3>1. CASE sweep.hold
      BY <2>1, <2>7, <3>1 DEF StartDeleting, SweepInv, NoSweep
    <3>2. CASE ~sweep.hold
      <4>1. /\ sweep'.pc = "look" /\ sweep'.cutoff = now - sweep.raw
            /\ sweep'.raw = sweep.raw /\ now' = now
        BY <2>2, <2>7, <3>2 DEF StartDeleting, SweepType
      <4>2. QED BY <2>1, <2>2, <4>1 DEF SweepInv
    <3>3. QED BY <3>1, <3>2
  <2>8. ASSUME \/ \E flags \in CleanupFlags : Scan(flags)
               \/ List \/ EndSweep \/ DieSweep
        PROVE  SweepInv'
    <3>1. sweep'.pc \in {"idle", "list", "start"}
      <4>1. ASSUME NEW flags \in CleanupFlags, Scan(flags)
            PROVE  sweep'.pc \in {"idle", "list", "start"}
        <5>1. sweep'.pc = IF Present("artifact") THEN "start" ELSE "list"
          BY <4>1 DEF Scan, NoSweep
        <5>2. QED BY <5>1
      <4>2. CASE List
        BY <2>2, <4>2 DEF List, SweepType
      <4>3. CASE EndSweep \/ DieSweep
        BY <4>3 DEF EndSweep, DieSweep, NoSweep
      <4>4. QED BY <2>8, <4>1, <4>2, <4>3
    <3>2. QED BY <2>1, <3>1 DEF SweepInv
  <2>9. QED BY <1>2, <2>3, <2>4, <2>5, <2>6, <2>7, <2>8 DEF Next, SweepStep
<1>3. QED BY <1>1, <1>2

LEMMA StepEvidenceInv ==
  TypeOK /\ TypeOK' /\ SweepInv /\ EvidenceInv /\ [Next]_vars => EvidenceInv'
<1> SUFFICES ASSUME TypeOK, TypeOK', SweepInv, EvidenceInv, [Next]_vars
             PROVE  EvidenceInv'
  OBVIOUS
<1>1. CASE UNCHANGED vars
  BY <1>1 DEF vars, EvidenceInv, Writing, Present
<1>2. ASSUME Next, ~overlap' PROVE EvidenceInv'
  <2>1. ~overlap /\ ~(Writing' /\ sweep'.pc # "idle")
    BY <1>2, OneAtWork
  <2>2. /\ sweep \in SweepType /\ mtime \in [Files -> Time \cup {None}]
        /\ run \in RunType
    BY DEF TypeOK
  <2>3. CASE RunStep
    <3>1. CASE \E req \in Request : StartRun(req)
      BY <3>1, Apart DEF StartRun, EvidenceInv, Writing
    <3>2. CASE DieRun
      BY <3>2 DEF DieRun, NoRun, EvidenceInv, Writing
    <3>3. CASE OpenFile
      <4>1. \A f \in Files : Present(f) => Present(f)'
        BY <2>2, <3>3, Apart DEF OpenFile, Present, TypeOK
      <4>2. Present(FlatOrder[run.step])'
        BY <2>2, <3>3, Apart DEF OpenFile, Present, TypeOK, RunType, FlatOrder, Files
      <4>3. run'.step = run.step /\ run'.pc = "close" /\ run.pc = "open"
        BY <2>2, <3>3 DEF OpenFile, RunType
      <4>4. \A i \in 1..(run.step - 1) : FlatOrder[i] \in Files
        BY <2>2 DEF RunType, FlatOrder, Files
      <4>5. QED BY <2>1, <4>1, <4>2, <4>3, <4>4 DEF EvidenceInv, Writing, Present
    <3>4. CASE run' = AfterFile /\ (CloseFile \/ CopyTime)
      <4>1. \A f \in Files : Present(f) => Present(f)'
        BY <2>2, <3>4, Apart DEF CloseFile, CopyTime, Present, TypeOK, RunType
      <4>2. /\ run.pc \in {"close", "stamp"} /\ sweep' = sweep /\ sweep.pc = "idle"
            /\ run' = AfterFile
        BY <2>1, <3>4 DEF CloseFile, CopyTime, SweepInv, Writing
      <4>3. \A i \in 1..run.step : Present(FlatOrder[i])'
        BY <2>1, <2>2, <4>1, <4>2 DEF EvidenceInv, Writing, RunType, FlatOrder, Files
      <4>4. CASE run.step = 3
        <5>1. run'.pc = "done" /\ sweep'.pc = "idle"
          BY <4>2, <4>4 DEF AfterFile, NoRun, FlatOrder
        <5>2. \A f \in Files : Present(f)'
          <6>1. Present(FlatOrder[1])' /\ Present(FlatOrder[2])' /\ Present(FlatOrder[3])'
            BY <4>3, <4>4
          <6>2. QED BY <6>1 DEF FlatOrder, Files
        <5>3. QED BY <5>1, <5>2 DEF EvidenceInv, Writing
      <4>5. CASE run.step # 3
        <5>1. run'.pc = "open" /\ run'.step = run.step + 1
          BY <2>2, <4>2, <4>5 DEF AfterFile, RunType, FlatOrder
        <5>2. run.step \in Int
          BY <2>2 DEF RunType, FlatOrder
        <5>3. \A i \in 1..(run'.step - 1) : Present(FlatOrder[i])'
          BY <4>3, <5>1, <5>2
        <5>4. QED BY <5>1, <5>3 DEF EvidenceInv, Writing, Present, FlatOrder
      <4>6. QED BY <4>4, <4>5
    <3>5. CASE CloseFile /\ run' # AfterFile
      <4>1. \A f \in Files : Present(f) => Present(f)'
        BY <2>2, <3>5, Apart DEF CloseFile, Present, TypeOK, RunType
      <4>2. run' = [run EXCEPT !.pc = "stamp"] /\ run.pc = "close"
        BY <3>5 DEF CloseFile, AfterClose
      <4>3. run'.step = run.step /\ run'.pc = "stamp"
        BY <2>2, <4>2 DEF RunType
      <4>4. \A i \in 1..run.step : FlatOrder[i] \in Files
        BY <2>2 DEF RunType, FlatOrder, Files
      <4>5. run.step \in 1..3
        BY <2>2 DEF RunType, FlatOrder
      <4>6. QED BY <2>1, <4>1, <4>2, <4>3, <4>4, <4>5 DEF EvidenceInv, Writing, Present
    <3>6. CASE CloseDeleted \/ CopyTimeRaises
      BY <2>1, <3>6 DEF CloseDeleted, CopyTimeRaises, EvidenceInv
    <3>7. CopyTime => run' = AfterFile
      BY DEF CopyTime
    <3>8. QED BY <2>3, <3>1, <3>2, <3>3, <3>4, <3>5, <3>6, <3>7 DEF RunStep
  <2>4. CASE Tick
    BY <2>1, <2>4 DEF Tick, EvidenceInv, Writing, Present
  <2>5. CASE SweepStep
    <3>1. /\ UNCHANGED run /\ run.pc \in {"idle", "done", "open", "close", "stamp"}
          /\ sweep.pc # "idle" \/ sweep'.pc # "idle"
      <4>1. UNCHANGED run
        BY <2>5 DEF SweepStep, Scan, List, StartDeleting, LookAt, Unlink, EndSweep, DieSweep
      <4>2. ASSUME NEW flags \in CleanupFlags, Scan(flags) PROVE sweep'.pc # "idle"
        <5>1. sweep'.pc = IF Present("artifact") THEN "start" ELSE "list"
          BY <4>2 DEF Scan, NoSweep
        <5>2. QED BY <5>1
      <4>3. QED
        BY <2>2, <2>5, <4>1, <4>2 DEF SweepStep, List, StartDeleting, LookAt, Unlink,
                                      EndSweep, DieSweep, RunType
    <3>2. ~Writing
      BY <2>1, <3>1 DEF SweepInv, Writing
    <3>3. SUFFICES ASSUME run.pc = "done", Present("artifact")'
                   PROVE  /\ \A f \in Files : Present(f)'
                          /\ sweep'.pc # "list"
                          /\ sweep'.pc # "idle" => /\ sweep'.todo \subseteq {"artifact"}
                                                   /\ sweep'.old \in {"artifact", None}
      BY <3>1, <3>2 DEF EvidenceInv, Writing
    <3>4. \A f \in Files : Present(f)' => Present(f)
      <4>1. CASE Unlink
        BY <2>2, <4>1 DEF Unlink, Present
      <4>2. CASE UNCHANGED mtime
        BY <4>2 DEF Present
      <4>3. QED BY <2>5, <4>1, <4>2
                DEF SweepStep, Scan, List, StartDeleting, LookAt, EndSweep, DieSweep
    <3>5. /\ \A f \in Files : Present(f)
          /\ sweep.pc # "list"
          /\ sweep.pc # "idle" => /\ sweep.todo \subseteq {"artifact"}
                                  /\ sweep.old \in {"artifact", None}
      BY <2>1, <3>3, <3>4 DEF EvidenceInv, Files
    <3>6. ASSUME NEW flags \in CleanupFlags, Scan(flags)
          PROVE  /\ UNCHANGED mtime /\ sweep'.pc = "start"
                 /\ sweep'.todo \subseteq {"artifact"} /\ sweep'.old = None
      <4>1. Present("artifact")
        BY <3>5 DEF Files
      <4>2. QED BY <3>6, <4>1 DEF Scan, NoSweep
    <3>7. CASE StartDeleting
      BY <2>2, <3>5, <3>7 DEF StartDeleting, NoSweep, SweepType, Present
    <3>8. ASSUME NEW f \in Files, LookAt(f)
          PROVE  /\ UNCHANGED mtime /\ sweep'.pc \in {"look", "unlink"}
                 /\ sweep'.todo \subseteq {"artifact"}
                 /\ sweep'.old \in {"artifact", None}
      <4>1. f = "artifact" /\ sweep.pc = "look"
        BY <3>5, <3>8 DEF LookAt
      <4>2. QED BY <2>2, <3>5, <3>8, <4>1 DEF LookAt, SweepType
    <3>9. CASE Unlink
      <4>1. sweep.old = "artifact"
        BY <3>5, <3>9 DEF Unlink, TypeOK
      <4>2. ~Present("artifact")'
        BY <2>2, <3>9, <4>1 DEF Unlink, Present, Files
      <4>3. QED BY <3>3, <4>2
    <3>10. CASE EndSweep \/ DieSweep
      BY <3>5, <3>10 DEF EndSweep, DieSweep, NoSweep, Present
    <3>11. CASE List
      BY <3>5, <3>11 DEF List
    <3>12. QED BY <2>5, <3>5, <3>6, <3>7, <3>8, <3>9, <3>10, <3>11 DEF SweepStep, Present
  <2>6. QED BY <1>2, <2>3, <2>4, <2>5 DEF Next
<1>3. QED BY <1>1, <1>2 DEF EvidenceInv

\* The inductive invariant of the directory.
THEOREM RetentionInvariant == Spec => []IInv
<1>1. IInv /\ [Next]_vars => IInv'
  BY StepType, StepSweepInv, StepEvidenceInv DEF IInv
<1>2. QED BY <1>1, InitIInv, PTL DEF Spec

\* An artifact that is there after a whole run has its report and its manifest.
THEOREM EvidenceIsKept == Spec => []EvidenceOutlivesArtifact
<1>1. IInv => EvidenceOutlivesArtifact
  BY DEF IInv, EvidenceInv, EvidenceOutlivesArtifact
<1>2. QED BY <1>1, RetentionInvariant, PTL

LEMMA ActiveStep == IInv /\ [Next]_vars =>
  (Present("artifact") /\ mtime'["artifact"] = None /\ ~overlap =>
     \A flags \in StatusFlags :
       RetentionOf(flags).raw # None /\ RetentionOf(flags).raw <= sweep.raw =>
         Status(flags) # "active")
<1> SUFFICES ASSUME IInv, [Next]_vars,
                    Present("artifact"), mtime'["artifact"] = None, ~overlap,
                    NEW flags \in StatusFlags,
                    RetentionOf(flags).raw # None, RetentionOf(flags).raw <= sweep.raw
             PROVE  Status(flags) # "active"
  OBVIOUS
<1>1. /\ mtime \in [Files -> Time \cup {None}] /\ now \in Int
      /\ run \in RunType /\ sweep \in SweepType /\ now \in Time
  BY Apart DEF IInv, TypeOK
<1>2. Unlink /\ sweep.old = "artifact"
  <2>1. CASE OpenFile
    BY <1>1, <2>1, Apart DEF OpenFile, RunType, Files, Present
  <2>2. CASE CloseFile \/ CopyTime
    BY <1>1, <2>2, Apart DEF CloseFile, CopyTime, RunType, Files, Present
  <2>3. CASE Unlink /\ sweep.old # "artifact"
    BY <1>1, <2>3 DEF Unlink, Files, Present
  <2>4. CASE UNCHANGED mtime
    BY <2>4 DEF Present
  <2>5. CASE RunStep
    <3>1. OpenFile \/ CloseFile \/ CopyTime \/ UNCHANGED mtime
      BY <2>5 DEF RunStep, StartRun, CloseDeleted, CopyTimeRaises, DieRun
    <3>2. QED BY <2>1, <2>2, <2>4, <3>1
  <2>6. CASE SweepStep
    <3>1. Unlink \/ UNCHANGED mtime
      BY <2>6 DEF SweepStep, Scan, List, StartDeleting, LookAt, EndSweep, DieSweep
    <3>2. QED BY <2>3, <2>4, <3>1
  <2>7. CASE Tick \/ UNCHANGED vars
    BY <2>4, <2>7 DEF Tick, vars
  <2>8. QED BY <2>5, <2>6, <2>7 DEF Next
<1>3. mtime["artifact"] < sweep.cutoff /\ sweep.cutoff <= now - sweep.raw
  BY <1>2 DEF IInv, SweepInv, Unlink
<1>4. /\ mtime["artifact"] \in Int /\ sweep.cutoff \in Int /\ sweep.raw \in Int
      /\ RetentionOf(flags).raw \in Int
  <2>1. TypeOK
    BY DEF IInv
  <2>2. RetentionOf(flags).raw \in Int
    BY <2>1, PolicyType
  <2>3. mtime["artifact"] \in Time
    BY <1>1 DEF Present, Files
  <2>4. mtime["artifact"] \in Int
    BY <2>3, Apart
  <2>5. sweep \in SweepType
    BY <1>1
  <2>6. sweep.cutoff \in Int /\ sweep.raw \in Int
    BY <2>5 DEF SweepType
  <2>7. QED BY <2>2, <2>4, <2>6
<1>5. ~(mtime["artifact"] >= now - RetentionOf(flags).raw)
  BY <1>1, <1>3, <1>4
<1>6. Or(Or(mtime["report"], mtime["manifest"]), mtime["artifact"]) # None
  BY DEF Or, Present
<1>7. QED BY <1>5, <1>6 DEF Status, Lifecycle, Present

\* Cleanup never deletes the artifact of a bundle that status calls active.
THEOREM ActiveIsKept == Spec => ActiveArtifactKept
BY RetentionInvariant, ActiveStep, PTL DEF Spec, ActiveArtifactKept
=============================================================================
