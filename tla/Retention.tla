----------------------------- MODULE Retention -----------------------------
(***************************************************************************)
(* A bundle directory under retention: runs write it, hashen-retention     *)
(* deletes files of it by age, and two commands say what may be done with  *)
(* it: "hashen retention status" and "hashen policy check"                 *)
(* (src/hashen/compliance/, cli/retention.py, cli/main.py).                *)
(*                                                                         *)
(* The files are those these commands look at.  seal.json and audit.jsonl, *)
(* copied as report.json is, and verify.json, written as manifest.json is, *)
(* are left out.  Hours and days are counted in one unit.                  *)
(***************************************************************************)
EXTENDS Policy, Integers, Sequences

CONSTANTS Torn,          \* what an opened file holds: no JSON
          Request,       \* what run_pipeline may be called with
          CleanupFlags,  \* command lines of hashen-retention: raw, hold
          StatusFlags,   \* command lines of hashen retention status
          MaxTime        \* bound on the clock

Files == {"artifact", "report", "manifest"}

\* The keyword arguments of run_pipeline: there is no lawful_basis among them.
Arguments == {args \in RunContext : args.action = "run" /\ args.lawful = None}

ASSUME RetentionAssumption ==
  /\ None \notin Int \cup Files /\ Torn # None
  /\ Request \subseteq [args : Arguments, context : RunContext \cup {None}]
  /\ CleanupFlags \subseteq [raw : Nat, hold : BOOLEAN]
  /\ StatusFlags \subseteq [raw : Nat, derived : Nat, hold : BOOLEAN]
  /\ MaxTime \in Nat

VARIABLES now,      \* the clock
          mtime,    \* the time of each file, None for one that is not there
          report,   \* what report.json holds
          run,      \* the run that is writing the directory
          sweep,    \* the cleanup that is deleting from it
          overlap   \* history: a run and a cleanup have been at work at once

vars == <<now, mtime, report, run, sweep, overlap>>

Present(f) == mtime[f] # None

-----------------------------------------------------------------------------
(* What a run decides and records *)

(***************************************************************************)
(* A request has the keyword arguments of run_pipeline (args) and          *)
(* possibly a RunContext of the caller's own (context), which then is what *)
(* the policy is evaluated on.                                             *)
(***************************************************************************)
Or(value, default) == IF value = None THEN default ELSE value

Defaulted(args) ==
  [args EXCEPT !.source = Or(@, "user_provided"), !.pii = Or(@, "unknown"),
               !.consent = Or(@, "legitimate_interest")]

ContextOf(req) ==
  IF req.context # None THEN req.context ELSE Defaulted(req.args)

\* A plausible bug: the report has no purpose_of_processing.
BuildReportNoPurpose(req) ==
  LET args == Defaulted(req.args)
  IN  [hold |-> args.hold, raw |-> args.raw, derived |-> args.derived,
       class |-> args.class, source |-> args.source, pii |-> args.pii,
       consent |-> args.consent, purpose |-> None, sharing |-> args.sharing,
       decision |-> Evaluate(ContextOf(req)), of |-> req]

\* The retention, privacy and compliance blocks are filled from the keyword
\* arguments; "of", which nothing reads, is the request it was written for.
BuildReport(req) ==
  LET args == Defaulted(req.args)
  IN  [hold |-> args.hold, raw |-> args.raw, derived |-> args.derived,
       class |-> args.class, source |-> args.source, pii |-> args.pii,
       consent |-> args.consent, purpose |-> args.purpose, sharing |-> args.sharing,
       decision |-> Evaluate(ContextOf(req)), of |-> req]

ASSUME ReportIsText == \A req \in Request : BuildReport(req) \notin {None, Torn}

Readable == report \notin {None, Torn}

-----------------------------------------------------------------------------
(* hashen policy check, on a bundle: a missing or broken report denies *)

PolicyCheck(action, strictness) ==
  IF ~Readable THEN "deny"
  ELSE Evaluate([action |-> action, strictness |-> strictness, hold |-> report.hold,
                 raw |-> report.raw, derived |-> report.derived,
                 class |-> report.class, source |-> report.source, pii |-> report.pii,
                 consent |-> report.consent, lawful |-> None,
                 purpose |-> report.purpose, sharing |-> report.sharing])

-----------------------------------------------------------------------------
(* hashen retention status *)

\* A plausible bug: "unknown age" is decided by the artifact alone.
LifecycleNoArtifact(policy, artifact, derivedFile, t) ==
  LET ref == Or(derivedFile, artifact)
  IN  IF policy.hold                                               THEN "held"
      ELSE IF artifact = None                                      THEN "active"
      ELSE IF policy.raw = None \/ policy.derived = None           THEN "raises"
      ELSE IF artifact >= t - policy.raw                           THEN "active"
      ELSE IF ref < t - policy.derived                             THEN "purge_eligible"
      ELSE IF ref < t - policy.raw                                 THEN "expired"
      ELSE "retained"

(***************************************************************************)
(* lifecycle_state: policy has the hold and the two retention times, the   *)
(* other parameters are the times of two files and the present.  A report  *)
(* may record null for a retention time, and arithmetic on it raises.      *)
(***************************************************************************)
Lifecycle(policy, artifact, derivedFile, t) ==
  LET ref == Or(derivedFile, artifact)
  IN  IF policy.hold                                               THEN "held"
      ELSE IF ref = None                                           THEN "active"
      ELSE IF policy.raw = None \/ policy.derived = None           THEN "raises"
      ELSE IF artifact # None /\ artifact >= t - policy.raw        THEN "active"
      ELSE IF ref < t - policy.derived                             THEN "purge_eligible"
      ELSE IF ref < t - policy.raw                                 THEN "expired"
      ELSE "retained"

\* What the report records goes before the flags.
RetentionOf(flags) == IF Readable THEN report ELSE flags

\* retention_status of the bundle directory.
Status(flags) ==
  Lifecycle(RetentionOf(flags), mtime["artifact"],
            Or(mtime["report"], mtime["manifest"]), now)

\* retention_status of the path of report.json.  "json" is a name local to the
\* function, bound in the other branch only: reading the report fails, the
\* failure is swallowed, and the flags stand.
ReportPathStatus(flags) == Lifecycle(flags, None, mtime["report"], now)

-----------------------------------------------------------------------------
(* The run: run_pipeline returns, then the flat files are written in order *)

\* The order of the files.
FlatOrder == <<"artifact", "report", "manifest">>

\* shutil.copy2 gives the copy the time of its source.
Copied == {"report"}

NoRun == [pc |-> "idle", step |-> 1, born |-> 0, req |-> None]

Writing == run.pc \in {"open", "close", "stamp"}

\* born is when the pipeline wrote the sources; one that policy denies writes none.
StartRun(req) ==
  /\ ~Writing
  /\ Evaluate(ContextOf(req)) # "deny"
  /\ run' = [pc |-> "open", step |-> 1, born |-> now, req |-> req]
  /\ UNCHANGED <<now, mtime, report, sweep>>

OpenFile ==
  /\ run.pc = "open"
  /\ mtime' = [mtime EXCEPT ![FlatOrder[run.step]] = now]
  /\ report' = IF FlatOrder[run.step] = "report" THEN Torn ELSE report
  /\ run' = [run EXCEPT !.pc = "close"]
  /\ UNCHANGED <<now, sweep>>

\* A plausible bug: the end of the list is missed by one.
AfterFileLate ==
  IF run.step > Len(FlatOrder) THEN [NoRun EXCEPT !.pc = "done"]
  ELSE [run EXCEPT !.pc = "open", !.step = @ + 1]

AfterFile ==
  IF run.step = Len(FlatOrder) THEN [NoRun EXCEPT !.pc = "done"]
  ELSE [run EXCEPT !.pc = "open", !.step = @ + 1]

\* copyfile is through, copystat comes next; a text that the command writes itself
\* is done.
AfterClose ==
  IF FlatOrder[run.step] \in Copied THEN [run EXCEPT !.pc = "stamp"] ELSE AfterFile

CloseFile ==
  LET f == FlatOrder[run.step]
  IN  /\ run.pc = "close" /\ Present(f)
      /\ mtime' = [mtime EXCEPT ![f] = now]
      /\ report' = IF f = "report" THEN BuildReport(run.req) ELSE report
      /\ run' = AfterClose
      /\ UNCHANGED <<now, sweep>>

\* The file was deleted while it was open: what is written is lost unnoticed.
CloseDeleted ==
  /\ run.pc = "close" /\ ~Present(FlatOrder[run.step])
  /\ run' = AfterClose
  /\ UNCHANGED <<now, mtime, report, sweep>>

\* The copy gets the time of its source.
CopyTime ==
  LET f == FlatOrder[run.step]
  IN  /\ run.pc = "stamp" /\ Present(f)
      /\ mtime' = [mtime EXCEPT ![f] = run.born]
      /\ run' = AfterFile
      /\ UNCHANGED <<now, report, sweep>>

\* There is no copy left to set the time of: the exception ends the command.
CopyTimeRaises ==
  /\ run.pc = "stamp" /\ ~Present(FlatOrder[run.step])
  /\ run' = NoRun
  /\ UNCHANGED <<now, mtime, report, sweep>>

DieRun ==
  /\ Writing
  /\ run' = NoRun
  /\ UNCHANGED <<now, mtime, report, sweep>>

-----------------------------------------------------------------------------
(* hashen-retention *)

NoSweep == [pc |-> "idle", todo |-> {}, raw |-> 0, hold |-> FALSE, cutoff |-> 0, old |-> None]

\* A plausible bug: every file is a candidate.
ScanAll(flags) ==
  /\ sweep.pc = "idle"
  /\ sweep' = [NoSweep EXCEPT !.pc = "list", !.raw = flags.raw, !.hold = flags.hold]
  /\ UNCHANGED <<now, mtime, report, run>>

\* Raw files, by suffix, anywhere below the directory.
Scan(flags) ==
  /\ sweep.pc = "idle"
  /\ sweep' = [NoSweep EXCEPT !.pc = IF Present("artifact") THEN "start" ELSE "list",
                              !.todo = {"artifact"} \cap {f \in Files : Present(f)},
                              !.raw = flags.raw, !.hold = flags.hold]
  /\ UNCHANGED <<now, mtime, report, run>>

\* There is no raw file: all files of the directory are candidates.
List ==
  /\ sweep.pc = "list"
  /\ sweep' = [sweep EXCEPT !.pc = "start", !.todo = {f \in Files : Present(f)}]
  /\ UNCHANGED <<now, mtime, report, run>>

\* With --legal-hold nothing is deleted; otherwise the cutoff is fixed here.
StartDeleting ==
  /\ sweep.pc = "start"
  /\ sweep' = IF sweep.hold THEN NoSweep
              ELSE [sweep EXCEPT !.pc = "look", !.cutoff = now - sweep.raw]
  /\ UNCHANGED <<now, mtime, report, run>>

\* A plausible bug: a file of exactly the age counts as older.
LookAtEqual(f) ==
  /\ sweep.pc = "look" /\ f \in sweep.todo
  /\ sweep' = [sweep EXCEPT
       !.todo = @ \ {f},
       !.pc  = IF Present(f) /\ mtime[f] <= sweep.cutoff THEN "unlink" ELSE "look",
       !.old = IF Present(f) /\ mtime[f] <= sweep.cutoff THEN f ELSE None]
  /\ UNCHANGED <<now, mtime, report, run>>

\* exists and stat: is the file older than the cutoff?
LookAt(f) ==
  /\ sweep.pc = "look" /\ f \in sweep.todo
  /\ sweep' = [sweep EXCEPT
       !.todo = @ \ {f},
       !.pc  = IF Present(f) /\ mtime[f] < sweep.cutoff THEN "unlink" ELSE "look",
       !.old = IF Present(f) /\ mtime[f] < sweep.cutoff THEN f ELSE None]
  /\ UNCHANGED <<now, mtime, report, run>>

Unlink ==
  /\ sweep.pc = "unlink"
  /\ mtime' = [mtime EXCEPT ![sweep.old] = None]
  /\ report' = IF sweep.old = "report" THEN None ELSE report
  /\ sweep' = [sweep EXCEPT !.pc = "look", !.old = None]
  /\ UNCHANGED <<now, run>>

\* The cleanup has looked at every candidate.
EndSweep ==
  /\ sweep.pc = "look" /\ sweep.todo = {}
  /\ sweep' = NoSweep
  /\ UNCHANGED <<now, mtime, report, run>>

DieSweep ==
  /\ sweep.pc # "idle"
  /\ sweep' = NoSweep
  /\ UNCHANGED <<now, mtime, report, run>>

-----------------------------------------------------------------------------
(* The directory *)

Tick ==
  /\ now < MaxTime
  /\ now' = now + 1
  /\ UNCHANGED <<mtime, report, run, sweep>>

Init ==
  /\ now = 0
  /\ mtime = [f \in Files |-> None]
  /\ report = None
  /\ run = NoRun
  /\ sweep = NoSweep
  /\ overlap = FALSE

RunStep ==
  \/ \E req \in Request : StartRun(req)
  \/ OpenFile \/ CloseFile \/ CloseDeleted \/ CopyTime \/ CopyTimeRaises \/ DieRun

SweepStep ==
  \/ \E flags \in CleanupFlags : Scan(flags)
  \/ List \/ StartDeleting
  \/ \E f \in Files : LookAt(f)
  \/ Unlink \/ EndSweep \/ DieSweep

Next ==
  /\ RunStep \/ SweepStep \/ Tick
  /\ overlap' = (overlap \/ (Writing' /\ sweep'.pc # "idle"))

Spec == Init /\ [][Next]_vars

-----------------------------------------------------------------------------
(* Types *)

Time == 0..MaxTime

RunType ==
  [pc : {"idle", "open", "close", "stamp", "done"}, step : 1..Len(FlatOrder), born : Time,
   req : Request \cup {None}]

SweepType ==
  [pc : {"idle", "list", "start", "look", "unlink"}, todo : SUBSET Files,
   raw : Nat, hold : BOOLEAN, cutoff : Int, old : Files \cup {None}]

(***************************************************************************)
(* The state of the directory has its type; a report has text exactly when *)
(* its file is there, a writing run has a request, and a cleanup that is   *)
(* about to delete has a file it found old.                                *)
(***************************************************************************)
TypeOK ==
  /\ now \in Time
  /\ mtime \in [Files -> Time \cup {None}]
  /\ report \in {None, Torn} \cup {BuildReport(req) : req \in Request}
  /\ (report = None) <=> ~Present("report")
  /\ run \in RunType
  /\ Writing => run.req \in Request
  /\ sweep \in SweepType
  /\ (sweep.pc = "unlink") <=> (sweep.old # None)
  /\ overlap \in BOOLEAN

-----------------------------------------------------------------------------
(* Properties *)

(***************************************************************************)
(* What a report records is all the policy needs: checking a bundle again  *)
(* for the action and the strictness of its run gives the decision the run *)
(* recorded, whenever the run's context came from the keyword arguments.   *)
(* (The check never passes lawful_basis; only a context has one.)          *)
(***************************************************************************)
RecheckAgrees ==
  Readable /\ report.of.context = None =>
    PolicyCheck("run", report.of.args.strictness) = report.decision

(***************************************************************************)
(* The two commands do not contradict each other: while retention status   *)
(* says "held", with whatever flags, policy check denies to purge and to   *)
(* delete at every strictness - also with the report missing or half       *)
(* written, when the two read the hold from different places.              *)
(***************************************************************************)
PurgeGate ==
  \A flags \in StatusFlags :
    Status(flags) = "held" =>
      \A action \in {"purge", "delete"}, strictness \in Strictness :
        PolicyCheck(action, strictness) = "deny"

\* A stricter check of the same bundle never decides more loosely.
StricterNeverLooser ==
  \A action \in Action :
    /\ Rank(PolicyCheck(action, "permissive")) <= Rank(PolicyCheck(action, "standard"))
    /\ Rank(PolicyCheck(action, "standard")) <= Rank(PolicyCheck(action, "strict"))

(***************************************************************************)
(* Status raises on nothing the policy has no complaint about: on a bundle *)
(* where it does, policy check does not allow the run action at strict,    *)
(* and neither was a strict run allowed that wrote it.                     *)
(***************************************************************************)
StatusRaisesForewarned ==
  (\E flags \in StatusFlags : Status(flags) = "raises") =>
    /\ Readable
    /\ PolicyCheck("run", "strict") # "allow"
    /\ report.of.context = None /\ report.of.args.strictness = "strict" =>
         report.decision # "allow"

LifecycleOrder(state) ==
  CASE state = "active"         -> 0
    [] state = "retained"       -> 1
    [] state = "expired"        -> 2
    [] state = "purge_eligible" -> 3
    [] state \in {"held", "raises"} -> 4

(***************************************************************************)
(* Nothing gets younger by itself: while the report stays as it is, time   *)
(* passing and files being deleted never take the lifecycle state back,    *)
(* so "purge_eligible" is never withdrawn behind the back of who acts on   *)
(* it.  Without the report that is not so: see the README.                 *)
(***************************************************************************)
LifecycleMovesForward ==
  [][(run' = run /\ Present("report") /\ mtime'["report"] # None) =>
       \A flags \in StatusFlags :
         LifecycleOrder(Status(flags)) <= LifecycleOrder(Status(flags)')]_vars

(***************************************************************************)
(* Cleanup and status agree on age: as long as no run was at work during a *)
(* cleanup, a cleanup that is given at least the recorded raw retention    *)
(* time never deletes the artifact of a bundle that status calls active.   *)
(***************************************************************************)
ActiveArtifactKept ==
  [][(/\ Present("artifact") /\ mtime'["artifact"] = None
      /\ ~overlap) =>
       \A flags \in StatusFlags :
         (RetentionOf(flags).raw # None /\ RetentionOf(flags).raw <= sweep.raw) =>
           Status(flags) # "active"]_vars

(***************************************************************************)
(* The raw artifact goes first: in a directory written by a whole run and  *)
(* never worked on by a run and a cleanup at once, an artifact that is     *)
(* there has its report and its manifest, however many cleanups were run   *)
(* or killed.                                                              *)
(***************************************************************************)
EvidenceOutlivesArtifact ==
  run.pc = "done" /\ ~overlap /\ Present("artifact") => \A f \in Files : Present(f)

(***************************************************************************)
(* Claims of the documentation that the code does not keep                 *)
(***************************************************************************)

\* docs/data-lifecycle.md:37, hashen-retention "deletes raw artifacts by TTL only
\* when legal_hold is false": in a bundle that a run has finished and no run met
\* a cleanup in, it deletes no other file, and none if the report records a hold.
CleanupTakesUnheldRawOnly ==
  [][run.pc = "done" /\ ~overlap =>
       \A f \in Files :
         Present(f) /\ mtime'[f] = None => f = "artifact" /\ ~(Readable /\ report.hold)]_vars

\* docs/compliance-model.md:20, "legal_hold - if true, purge/delete actions are
\* denied and lifecycle state is held": of a run whose context was held.
HeldRunIsHeld ==
  Readable /\ ContextOf(report.of).hold =>
    \A flags \in StatusFlags : Status(flags) = "held"

\* src/hashen/compliance/lifecycle.py:60, retention_status answers "for a bundle
\* directory or report path" and "reads report.json" for the hold.
ReportPathIsHeld ==
  Readable /\ report.hold => \A flags \in StatusFlags : ReportPathStatus(flags) = "held"
=============================================================================
