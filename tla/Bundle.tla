------------------------------- MODULE Bundle -------------------------------
(***************************************************************************)
(* The bundle directory of "hashen run" and "hashen-bundle": the command   *)
(* reads the artifact, runs the pipeline with the bundle as its root, then *)
(* copies the evidence to flat files and writes verify.json and            *)
(* manifest.json (src/hashen/cli/main.py, cli/bundle.py,                   *)
(* provenance/bundle_manifest.py).  It may die anywhere and be run again   *)
(* in the same directory, with the same or another run id or artifact, and *)
(* the artifact's own file may change while it works.  verify_bundle       *)
(* (src/hashen/verification/verify.py) is what "hashen verify" answers for *)
(* the directory at any moment.                                            *)
(***************************************************************************)
EXTENDS Pipeline

CONSTANT Replacement   \* what the artifact's file may be replaced by

ASSUME ReplacementAssumption == Replacement \subseteq Seq(Byte)

\* One command at a time works on a directory.
ASSUME OneProcess == \E p \in Proc : Proc = {p}

Me == CHOOSE p \in Proc : TRUE

VARIABLES flat,     \* the flat files of the bundle
          command,  \* the command at work: "run" or "bundle"
          source,   \* the file that the artifact was read from
          step,     \* the flat file the command writes next
          opened    \* that file is open

bundleVars == <<vars, flat, command, source, step, opened>>

Commands == {"run", "bundle"}

Listed == {"artifact", "audit", "seal", "verify", "report"}

Names == Listed \cup {"manifest", "verify_ok", "tampered", "verify_fail"}

Present(name) == flat[name] # Absent

BundleInit ==
  /\ Init
  /\ flat = [name \in Names |-> Absent]
  /\ command = "run"
  /\ source = Absent
  /\ step = 1
  /\ opened = FALSE

-----------------------------------------------------------------------------
(* What the command writes *)

\* A plausible bug: the command verifies without the audit log.
SelfVerdictNoLog(values, req) == VerifySeal(values, disk[SealPath(req)], None)

\* The command's own check of some bytes, with the files under seals/ and audit/.
SelfVerdict(values, req) == VerifySeal(values, disk[SealPath(req)], LogVerdict(req.run))

\* hashen-bundle writes the verdict once more when it is good, and that of an
\* artifact it has tampered with itself.
Demonstration(req) ==
  IF command = "run" THEN << >>
  ELSE IF SelfVerdict(req.values, req) = None THEN <<"verify_ok", "tampered", "verify_fail">>
  ELSE <<"tampered", "verify_fail">>

\* A plausible bug: the manifest is written before the report is copied.
ManifestThenReport(req) ==
  <<"artifact", "audit", "seal", "verify">> \o Demonstration(req) \o <<"manifest", "report">>

\* The order the command writes them in.
FlatOrder(req) ==
  <<"artifact", "audit", "seal", "verify">> \o Demonstration(req) \o <<"report", "manifest">>

\* The second byte becomes another one, that of "X"; a text too short for that
\* is replaced by a longer one.
Tampered(values) ==
  IF Len(values) >= 2 THEN [values EXCEPT ![2] = Top] ELSE <<Top, 0>>

VerifyJson(values, req) ==
  [ok |-> SelfVerdict(values, req) = None, reason |-> SelfVerdict(values, req),
   head |-> proc[Me].prev, seal |-> SealOf(Me).epw]

\* build_manifest: the digest of every listed file that exists, and what the
\* pipeline returned.  A digest is the content it is computed from.
ManifestJson(req) ==
  LET present == {n \in Listed : Present(n)}
  IN  [files |-> [n \in present |-> flat[n]], seal |-> SealOf(Me).epw,
       head |-> proc[Me].prev, values |-> req.values, report |-> flat["report"]]

\* The bytes "hashen run" writes are those it read; "hashen-bundle" copies the
\* file again.
CopiedArtifact == IF command = "run" THEN proc[Me].req.values ELSE source

FlatContent(name) ==
  LET req == proc[Me].req
  IN  CASE name = "artifact"              -> CopiedArtifact
        [] name = "audit"                 -> audit[req.run]
        [] name = "seal"                  -> disk[SealPath(req)]
        [] name \in {"verify", "verify_ok"} -> VerifyJson(req.values, req)
        [] name = "tampered"              -> Tampered(req.values)
        [] name = "verify_fail"           -> VerifyJson(Tampered(req.values), req)
        [] name = "report"                -> disk[ReportPath(req)]
        [] name = "manifest"              -> ManifestJson(req)

\* What the texts of the files are made of, for runs that got as far as a seal.
Sealing == {req \in Request : ~ExtractRaises(req.values, req.config)}

SealTexts ==
  {SealFor(req, SealedHistory(req, hit), sid) :
     req \in Sealing, hit \in BOOLEAN, sid \in 1..MaxRuns}

ReportTexts ==
  {ReportFor(req, SealedHistory(req, hit), sid, hit) :
     req \in Sealing, hit \in BOOLEAN, sid \in 1..MaxRuns}

VerdictTexts ==
  [ok : BOOLEAN, reason : SealReasons \union {None}, head : Seq(Event),
   seal : {seal.epw : seal \in SealTexts}]

ManifestTexts ==
  [files : [Listed -> Seq(Byte) \union Seq(LoggedLine) \union SealTexts
                        \union ReportTexts \union VerdictTexts],
   seal : {seal.epw : seal \in SealTexts}, head : Seq(Event), values : Seq(Byte),
   report : ReportTexts]

\* The codes that verify_bundle lists before it comes to the report, and all that it
\* gives a reason for or lists of the report.
EarlyCode == SealReasons \union
  {"UNSUPPORTED_SCHEMA_VERSION", "MANIFEST_INVALID", "MANIFEST_FILE_MISSING",
   "MANIFEST_HASH_MISMATCH", "MANIFEST_CONTENT_FINGERPRINT_MISMATCH",
   "MANIFEST_SEAL_HASH_MISMATCH", "MANIFEST_REPORT_HASH_MISMATCH",
   "MANIFEST_AUDIT_HEAD_MISMATCH"}

Code == EarlyCode \union {"MALFORMED_JSON", "REPORT_INCONSISTENT"}

\* What is written out can be told from a file that is missing or torn; a head
\* hash, a broken log and a code from none.
ASSUME FileAssumption ==
  /\ None \notin Seq(Event) \union {Broken} \union Code /\ Absent # Torn
  /\ \A mark \in {Absent, Torn} :
       /\ mark \notin Seq(Byte) /\ mark \notin Seq(LoggedLine)
       /\ mark \notin VerdictTexts /\ mark \notin ManifestTexts

\* What a copy of a log that stops somewhere has of it.
LogParts(file) ==
  UNION {{SubSeq(file, 1, n)} \union
         (IF n = Len(file) THEN {}
          ELSE {Append(SubSeq(file, 1, n), part) : part \in CutShort(file[n + 1])})
           : n \in 0..Len(file)}

\* What a file that is being written holds: part of the bytes or of the log, or text
\* that is no JSON.
PartOf(name) ==
  CASE name = "audit"                   -> LogParts(FlatContent(name))
    [] name \in {"artifact", "tampered"} ->
         {SubSeq(FlatContent(name), 1, n) : n \in 0..Len(FlatContent(name))}
    [] OTHER                            -> {Torn}

-----------------------------------------------------------------------------
(* The command at work *)

\* The pipeline has returned and there are files left to write.
Copying == proc[Me].pc = "done" /\ step <= Len(FlatOrder(proc[Me].req))

Finished == proc[Me].pc = "done" /\ step > Len(FlatOrder(proc[Me].req))

Current == FlatOrder(proc[Me].req)[step]

\* An invocation starts where the last one ended, returned or raised.
Invoke(cmd, req) ==
  /\ ~Copying
  /\ Start(Me, req)
  /\ command' = cmd
  /\ source' = req.values
  /\ step' = 1
  /\ UNCHANGED <<flat, opened>>

RunPipeline ==
  /\ Step(Me)
  /\ UNCHANGED <<flat, command, source, step, opened>>

\* Somebody replaces or removes the artifact's file after it was read.  Only
\* what it is when it is read again makes a difference.
ChangeSource(content) ==
  /\ command = "bundle" /\ Copying /\ step = 1 /\ ~opened
  /\ source' = content
  /\ UNCHANGED <<vars, flat, command, step, opened>>

OpenFlat ==
  /\ Copying /\ ~opened
  /\ FlatContent(Current) # Absent
  /\ \E part \in PartOf(Current) : flat' = [flat EXCEPT ![Current] = part]
  /\ opened' = TRUE
  /\ UNCHANGED <<vars, command, source, step>>

\* There is no artifact left to copy: the exception ends the command.
CopyRaises ==
  /\ Copying /\ ~opened
  /\ FlatContent(Current) = Absent
  /\ proc' = [proc EXCEPT ![Me] = Idle]
  /\ step' = 1
  /\ UNCHANGED <<audit, disk, runs, flat, command, source, opened>>

\* A plausible bug: the command goes on without having closed the file.
FillFlatNotClosed ==
  /\ Copying /\ opened
  /\ flat' = [flat EXCEPT ![Current] = FlatContent(Current)]
  /\ step' = step + 1
  /\ UNCHANGED <<vars, command, source, opened>>

FillFlat ==
  /\ Copying /\ opened
  /\ flat' = [flat EXCEPT ![Current] = FlatContent(Current)]
  /\ step' = step + 1
  /\ opened' = FALSE
  /\ UNCHANGED <<vars, command, source>>

Die ==
  /\ \/ Crash(Me)
     \/ /\ Copying
        /\ proc' = [proc EXCEPT ![Me] = Idle]
        /\ UNCHANGED <<audit, disk, runs>>
  /\ step' = 1
  /\ opened' = FALSE
  /\ UNCHANGED <<flat, command, source>>

BundleNext ==
  \/ \E cmd \in Commands, req \in Request : Invoke(cmd, req)
  \/ RunPipeline
  \/ \E content \in Replacement \cup {Absent} : ChangeSource(content)
  \/ OpenFlat \/ CopyRaises \/ FillFlat
  \/ Die

BundleSpec == BundleInit /\ [][BundleNext]_bundleVars

-----------------------------------------------------------------------------
(* verify_bundle *)

\* What verify_audit_chain says of a file that exists.
FileVerdict(lines) == IF ChainOK(lines) THEN HeadHash(lines) ELSE Broken

\* seal.json, or else whichever file of seals/ comes first.
SealChoices ==
  IF Present("seal") THEN {flat["seal"]}
  ELSE {disk[path] : path \in {q \in Paths : q[1] = "seals" /\ disk[q] # Absent}}

\* audit.jsonl, or else whichever file of audit/ comes first.  Of a run id with nothing
\* logged the file is missing, or empty if a process died after it had opened it.
LogChoices ==
  IF Present("audit") THEN {FileVerdict(flat["audit"])}
  ELSE {FileVerdict(audit[r]) : r \in RunIds} \union
       (IF \A r \in RunIds : audit[r] = << >> THEN {None} ELSE {})

\* A VerificationResult: the flags of the parts, the errors, the reason and the head.
Blank == [ok |-> FALSE, seal_valid |-> FALSE, audit_chain_valid |-> FALSE,
          manifest_valid |-> FALSE, errors |-> << >>, reason |-> None,
          audit_head_hash |-> None]

\* An error is added to the list; the first one that comes with a reason gives it.
Fail(result, code) ==
  [result EXCEPT !.errors = Append(@, code), !.reason = IF @ = None THEN code ELSE @]

CheckSeal(result, seal) ==
  LET reason  == VerifySeal(flat["artifact"], seal, None)
      checked == IF reason = None THEN [result EXCEPT !.seal_valid = TRUE]
                 ELSE Fail(result, reason)
  IN  IF reason = "SCHEMA_VERSION_UNSUPPORTED"
        THEN Fail(checked, "UNSUPPORTED_SCHEMA_VERSION") ELSE checked

\* A plausible bug: the head of the chain is not compared with the seal's.
CheckAuditAnyHead(result, seal, log) ==
  IF log = None THEN result
  ELSE IF log = Broken THEN Fail(result, "AUDIT_CHAIN_BROKEN")
  ELSE [result EXCEPT !.audit_chain_valid = TRUE, !.audit_head_hash = log]

\* A plausible bug: another head clears the flag, but is no error.
CheckAuditFlagOnly(result, seal, log) ==
  IF log = None THEN result
  ELSE IF log = Broken THEN Fail(result, "AUDIT_CHAIN_BROKEN")
  ELSE [result EXCEPT !.audit_chain_valid = ~(result.seal_valid /\ seal.head # log),
                      !.audit_head_hash = log]

\* The head is compared with a valid seal's; the result keeps it either way.
CheckAudit(result, seal, log) ==
  IF log = None THEN result
  ELSE IF log = Broken THEN Fail(result, "AUDIT_CHAIN_BROKEN")
  ELSE LET verified == [result EXCEPT !.audit_chain_valid = TRUE, !.audit_head_hash = log]
       IN  IF result.seal_valid /\ seal.head # log
             THEN [Fail(verified, "AUDIT_CHAIN_BROKEN") EXCEPT !.audit_chain_valid = FALSE]
             ELSE verified

\* The manifest lists the files by name.
ListedOrder == <<"artifact", "audit", "report", "seal", "verify">>

\* The first listed file that is not what the manifest says, among these.
FirstOf(bad) == ListedOrder[CHOOSE i \in bad : \A j \in bad : i <= j]

\* A plausible bug: only that the listed files are there is checked.
ManifestReasonNoDigests ==
  LET m == flat["manifest"]
  IN  IF m = Torn THEN "MANIFEST_INVALID"
      ELSE IF \E n \in DOMAIN m.files : ~Present(n) THEN "MANIFEST_FILE_MISSING"
      ELSE None

\* verify_bundle_manifest: the first check that fails, in the code's order.
ManifestReason ==
  LET m   == flat["manifest"]
      bad == {i \in 1..5 : ListedOrder[i] \in DOMAIN m.files
                             /\ flat[ListedOrder[i]] # m.files[ListedOrder[i]]}
  IN  IF m = Torn THEN "MANIFEST_INVALID"
      ELSE IF bad # {}
        THEN IF Present(FirstOf(bad)) THEN "MANIFEST_HASH_MISMATCH" ELSE "MANIFEST_FILE_MISSING"
      ELSE IF flat["artifact"] # m.values THEN "MANIFEST_CONTENT_FINGERPRINT_MISMATCH"
      ELSE IF Present("seal") /\ flat["seal"].epw # m.seal THEN "MANIFEST_SEAL_HASH_MISMATCH"
      ELSE IF Present("report") /\ flat["report"] # m.report
        THEN "MANIFEST_REPORT_HASH_MISMATCH"
      ELSE IF Present("audit") /\ FileVerdict(flat["audit"]) = Broken THEN "AUDIT_CHAIN_BROKEN"
      ELSE IF Present("audit") /\ FileVerdict(flat["audit"]) # m.head
        THEN "MANIFEST_AUDIT_HEAD_MISMATCH"
      ELSE None

CheckManifest(result) ==
  IF ~Present("manifest") THEN result
  ELSE IF ManifestReason = None THEN [result EXCEPT !.manifest_valid = TRUE]
  ELSE Fail(result, ManifestReason)

\* There is no flag for the report, and no reason for one that cannot be read.
CheckReport(result, seal) ==
  LET r      == flat["report"]
      sealed == IF r.seal # seal.epw THEN Fail(result, "REPORT_INCONSISTENT") ELSE result
  IN  IF ~Present("report") THEN result
      ELSE IF r = Torn THEN [result EXCEPT !.errors = Append(@, "MALFORMED_JSON")]
      ELSE IF result.audit_head_hash \notin {None, r.head}
        THEN Fail(sealed, "REPORT_INCONSISTENT") ELSE sealed

\* The errors that are fatal: those about a report, only if there is one.
Fatal(result) ==
  {result.errors[i] : i \in 1..Len(result.errors)}
    \ (IF Present("report") THEN {} ELSE {"REPORT_INCONSISTENT"})

\* A plausible bug: the flags alone decide.
ConcludeByFlags(result, log) ==
  [result EXCEPT
     !.ok = /\ result.seal_valid
            /\ log # None => result.audit_chain_valid
            /\ Present("manifest") => result.manifest_valid,
     !.reason = IF @ = None /\ result.errors # << >> THEN result.errors[1] ELSE @]

\* ok comes from the flags of the parts that are there and from the errors.
Conclude(result, log) ==
  [result EXCEPT
     !.ok = /\ result.seal_valid
            /\ log # None => result.audit_chain_valid
            /\ Present("manifest") => result.manifest_valid
            /\ Fatal(result) = {},
     !.reason = IF @ = None /\ result.errors # << >> THEN result.errors[1] ELSE @]

\* An early return: no flag is set, and no reason.
Missing(error) == [Blank EXCEPT !.errors = <<error>>]

\* The checks in the code's order, with one choice of seal and log.
Result(seal, log) ==
  IF seal = Torn THEN Missing("MALFORMED_JSON")
  ELSE LET sealed   == CheckSeal(Blank, seal)
           audited  == CheckAudit(sealed, seal, log)
           reported == CheckReport(CheckManifest(audited), seal)
       IN  Conclude(reported, log)

\* What verify_bundle may answer now.
Results ==
  IF ~Present("artifact") \/ SealChoices = {} THEN {Missing("MISSING_FILE")}
  ELSE {Result(seal, log) : seal \in SealChoices, log \in LogChoices}

\* "hashen bundle doctor": no error is listed.
Doctor(result) == result.errors = << >>

\* What "hashen-verify" prints of a bundle that is not ok.
LegacyMessage(result) ==
  IF result.errors = << >> THEN "Verification failed"
  ELSE IF result.reason # None THEN result.reason ELSE result.errors[1]

-----------------------------------------------------------------------------
(* Properties *)

\* Every variable has its type; a flat file is open only between the return of
\* the pipeline and the end of the command.  A copied artifact may be short; a copied
\* log may be short, stop in a line or have torn lines of its own, but only its last
\* line may lack the newline.
BundleTypeOK ==
  /\ TypeOK
  /\ DOMAIN flat = Names
  /\ command \in Commands
  /\ source \in {Absent} \cup Replacement \cup {req.values : req \in Request}
  /\ step \in 1..10
  /\ opened => Copying
  /\ flat["artifact"] \in {Absent} \union Seq(Byte)
  /\ flat["audit"] # Torn
  /\ Present("audit") => \A i \in 1..(Len(flat["audit"]) - 1) : flat["audit"][i].eol

\* The artifact in the bundle is the one the command has read.
SameArtifact == flat["artifact"] = proc[Me].req.values

\* A command that ran to its end under a fresh run id leaves a bundle that
\* verifies, whatever earlier commands, dead ones among them, left in the same
\* directory, if the artifact's file was not changed meanwhile.
CompletedBundleVerifies ==
  Finished /\ proc[Me].alone /\ SameArtifact => \A result \in Results : result.ok

\* verify.json records the command's own check of seal and audit log.  When the
\* command has ended, "hashen verify" comes to the same verdict, unless the
\* artifact's file was changed between the command's two reads of it: then the
\* bundle does not verify, also when the change shows in no feature.
SavedVerdictStands ==
  Finished => \A result \in Results : result.ok <=> flat["verify"].ok /\ SameArtifact

\* A bundle that verifies and has a manifest is the complete evidence of one
\* run, also after later commands died in the same directory: artifact, seal,
\* audit log, report and verify.json are the ones the manifest was made for.
ManifestedBundleIsOneRun ==
  LET m == flat["manifest"]
  IN  m \notin {Absent, Torn} /\ (\E result \in Results : result.ok) =>
        /\ flat["artifact"] = m.values
        /\ flat["seal"].epw = m.seal /\ flat["seal"].head = m.head
        /\ FileVerdict(flat["audit"]) = m.head
        /\ flat["report"].seal = m.seal /\ flat["report"].head = m.head
        /\ flat["verify"].ok /\ flat["verify"].seal = m.seal

\* A bundle that verifies, manifest or not, pairs the artifact with a seal of its
\* features, the seal with a log that ends in its head, the report with both.
OkVouchesForParts ==
  Present("artifact") =>
    \A seal \in SealChoices, log \in LogChoices : seal # Torn /\ Result(seal, log).ok =>
      /\ ExtractH1Subset(flat["artifact"], seal.config) = seal.h1
      /\ EntropyH2(flat["artifact"], seal.config) = seal.h2
      /\ log \in {None, seal.head}
      /\ Present("report") => flat["report"].seal = seal.epw /\ flat["report"].head = seal.head

\* The three commands that answer for a directory agree whatever it holds, files
\* missing, cut short or of several runs: "verify" by flags and errors, "bundle
\* doctor" by the errors alone; and of a directory that fails each can name why, by
\* the error that was found first.
CommandsAgree ==
  \A result \in Results :
    /\ result.ok <=> Doctor(result)
    /\ result.reason # None => ~result.ok
    /\ ~result.ok => LegacyMessage(result) = result.errors[1]

-----------------------------------------------------------------------------
(* What the directory amounts to for its readers, flat files included *)

\* The flat files that name a head.
FlatEvidence ==
  {<<"flat", name>> : name \in {"seal", "verify", "verify_ok", "verify_fail", "report", "manifest"}}

\* A flat file may commit to what the report of its run commits to.
FlatVouches(place, run, history) ==
  Vouches(IF place \in FlatEvidence THEN <<"reports", run>> ELSE place, run, history)

\* The history that the evidence at a place commits to, if it can be read.
ShownAt(place) ==
  LET text == IF place \in FlatEvidence THEN flat[place[2]] ELSE disk[place]
  IN  IF text \in {Absent, Torn} THEN None ELSE text.head

B == INSTANCE Evidence WITH
  Log <- RunIds, Place <- EvidencePaths \union FlatEvidence, Vouches <- FlatVouches,
  recorded <- [run \in RunIds |-> Logged(run)], readable <- [run \in RunIds |-> Readable(run)],
  shown <- [place \in EvidencePaths \union FlatEvidence |-> ShownAt(place)]

\* Commands that are run over one another, over what dead ones left, never leave a
\* flat file that can be read and commits to a history that was not in the log of
\* a finished run before, be it a copy or one the command made up itself.
BundleImplementsEvidence == B!Spec
=============================================================================
