------------------------------ MODULE Pipeline ------------------------------
(***************************************************************************)
(* run_pipeline (src/hashen/orchestrator/orchestrator.py): processes that  *)
(* take artifacts through policy, features, cache, seal and report, and    *)
(* share one root directory.  Every file operation is a step: processes    *)
(* interleave at them and die between them.  Appends that follow each      *)
(* other with nothing between them are one step, which a crash may cut     *)
(* short anywhere, in the middle of a line too; how the single lines of    *)
(* two runs interleave is AuditLog's.                                      *)
(***************************************************************************)
EXTENDS HashChain, Seal

CONSTANTS Proc,      \* operating-system processes
          Request,   \* calls of run_pipeline: see RequestType
          MaxRuns,   \* bound: calls over the whole behaviour
          Absent,    \* the file does not exist
          Torn       \* the file holds no JSON: truncated, or mixed up

VARIABLES proc,    \* the run of each process
          audit,   \* the audit file of each run id
          disk,    \* the JSON files under the root
          runs     \* calls so far; the last one's number

vars == <<proc, audit, disk, runs>>

(***************************************************************************)
(* A request: the run id, the bytes and target of the artifact, the config *)
(* vector, and whether the policy rules deny the run context.              *)
(***************************************************************************)
RequestType(Run, Artifact, Target, Config) ==
  [run : Run, values : Artifact, target : Target, config : Config, denied : BOOLEAN]

RunIds == {r.run : r \in Request}

\* What an event can say, and the lines that run_pipeline logs.
Said == {None, "deny", "allow"} \union STRING \union Seq(Byte)

Event == {"COMMAND_RECEIVED", "FETCH", "POLICY_EVALUATED", "FEATURE_EXTRACT",
          "CACHE_HIT", "CACHE_MISS", "ROUTE", "SEAL_EMIT", "VERIFY"} \X Said

LoggedLine == [prev : Seq(Event), body : Event, hash : Seq(Event), whole : BOOLEAN,
               joined : Seq(Seq(Event)), eol : BOOLEAN]

\* Paths.  Digests and keys are collision-free, so they are what they digest.
CachePath(req)  == <<"cache", req.target, req.values>>
SealPath(req)   == <<"seals", req.values>>
StubPath(req)   == <<"c2pa_stub", req.values>>
ReportPath(req) == <<"reports", req.run>>

Paths ==
  UNION {{CachePath(r), SealPath(r), StubPath(r), ReportPath(r)} : r \in Request}

Whole(path) == disk[path] \notin {Absent, Torn}

\* pc names what the run does next.
Active == {"received", "policy", "features", "lookup", "cached", "store", "emit",
           "seals", "c2pa_stub", "reports"}
Ended == {"idle", "denied", "raised", "done"}

Idle == [pc |-> "idle", req |-> None, prev |-> Genesis, sid |-> 0, hit |-> FALSE,
         filling |-> FALSE, alone |-> FALSE]

Init ==
  /\ proc = [p \in Proc |-> Idle]
  /\ audit = [r \in RunIds |-> << >>]
  /\ disk = [path \in Paths |-> Absent]
  /\ runs = 0

-----------------------------------------------------------------------------
(* Starting *)

\* Two runs may get in each other's way when they use the same audit file or
\* the same artifact's files.
Conflict(p, req) ==
  proc[p].req # None /\ (proc[p].req.run = req.run \/ proc[p].req.values = req.values)

\* The call: EventLog starts from the initial hash whatever the file holds.
\* "alone" is history: the run id is fresh, no run it conflicts with is active
\* now, and none starts later.
Start(p, req) ==
  /\ proc[p].pc \in Ended
  /\ runs < MaxRuns
  /\ runs' = runs + 1
  /\ proc' = [q \in Proc |->
       IF q = p
         THEN [Idle EXCEPT !.pc = "received", !.req = req, !.sid = runs',
                 !.alone = audit[req.run] = << >> /\
                   \A o \in Proc \ {p} : ~(proc[o].pc \in Active /\ Conflict(o, req))]
         ELSE [proc[q] EXCEPT !.alone = @ /\ ~Conflict(q, req)]]
  /\ UNCHANGED <<audit, disk>>

-----------------------------------------------------------------------------
(* Steps that append audit events *)

\* A plausible bug: the events of a step are chained to the same head.
LogAllSameHead(file, prev, bodies) ==
  file \o [i \in 1..Len(bodies) |-> EventLine(prev, bodies[i])]

\* A plausible bug: of the events of a step only the last one gets to the file.
LogAllLastOnly(file, prev, bodies) ==
  IF bodies = << >> THEN file
  ELSE Put(file, EventLine(prev \o SubSeq(bodies, 1, Len(bodies) - 1), bodies[Len(bodies)]))

\* Appending bodies in order, head on head.  The first may be joined to what a dead
\* append has left; the others then come after a newline.
LogAll(file, prev, bodies) ==
  LET lines == [i \in 1..Len(bodies) |-> EventLine(prev \o SubSeq(bodies, 1, i - 1), bodies[i])]
  IN  IF bodies = << >> THEN file ELSE Put(file, lines[1]) \o Tail(lines)

\* The log.append calls made at a pc before the run reads or writes anything
\* else.
EventsAt(p) ==
  LET req == proc[p].req
  IN  CASE proc[p].pc = "received" -> << <<"COMMAND_RECEIVED", req.target>>, <<"FETCH", None>> >>
        [] proc[p].pc = "policy"   -> << <<"POLICY_EVALUATED", IF req.denied THEN "deny" ELSE "allow">> >>
        [] proc[p].pc = "features" -> << <<"FEATURE_EXTRACT", None>> >>
        [] proc[p].pc = "cached"   -> << <<IF proc[p].hit THEN "CACHE_HIT" ELSE "CACHE_MISS", None>> >>
        [] proc[p].pc = "emit"     -> << <<"ROUTE", None>>, <<"SEAL_EMIT", req.values>>, <<"VERIFY", None>> >>
        [] OTHER                   -> << >>

\* The run appends its events at this pc and goes on at next.
LogEvents(p, next) ==
  /\ audit' = [audit EXCEPT ![proc[p].req.run] = LogAll(@, proc[p].prev, EventsAt(p))]
  /\ proc' = [proc EXCEPT ![p].pc = next, ![p].prev = @ \o EventsAt(p)]
  /\ UNCHANGED <<disk, runs>>

Received(p) ==
  /\ proc[p].pc = "received"
  /\ LogEvents(p, "policy")

\* A plausible bug: the early return after a denial is missing.
PolicyNoReturn(p) ==
  /\ proc[p].pc = "policy"
  /\ LogEvents(p, "features")

\* The decision is logged either way; a denied run returns here.
Policy(p) ==
  /\ proc[p].pc = "policy"
  /\ \/ proc[p].req.denied /\ LogEvents(p, "denied")
     \/ ~proc[p].req.denied /\ LogEvents(p, "features")

Features(p) ==
  /\ proc[p].pc = "features"
  /\ ~ExtractRaises(proc[p].req.values, proc[p].req.config)
  /\ LogEvents(p, "lookup")

\* A config the features cannot be computed with: the exception leaves the run.
FeaturesRaise(p) ==
  /\ proc[p].pc = "features"
  /\ ExtractRaises(proc[p].req.values, proc[p].req.config)
  /\ proc' = [proc EXCEPT ![p].pc = "raised"]
  /\ UNCHANGED <<audit, disk, runs>>

Cached(p) ==
  /\ proc[p].pc = "cached"
  /\ \/ proc[p].hit /\ LogEvents(p, "emit")
     \/ ~proc[p].hit /\ LogEvents(p, "store")

\* ROUTE, SEAL_EMIT and VERIFY; the head is then read for the seal.
Emit(p) ==
  /\ proc[p].pc = "emit"
  /\ LogEvents(p, "seals")

-----------------------------------------------------------------------------
(* The cache lookup *)

\* What the features of a request come to, as cache_entry stores them.
CacheEntry(req) ==
  [h1 |-> ExtractH1Subset(req.values, req.config),
   h2 |-> EntropyH2(req.values, req.config),
   resonance |-> ComputeResonance(req.values, req.config),
   cvh |-> req.config]

\* spot_check_pass compares as many values as both lists have.  The tolerance is below
\* the mean difference that one byte makes in a list of less than 3900.
SpotCheckPass(cached, computed) ==
  LET n == IF Len(cached) < Len(computed) THEN Len(cached) ELSE Len(computed)
  IN  IF n = 0 THEN cached = computed ELSE SubSeq(cached, 1, n) = SubSeq(computed, 1, n)

\* A plausible bug: the lookup is not given the config hash.
CacheReasonAnyConfig(entry, req) ==
  IF entry \in {Absent, Torn} THEN "miss_no_entry"
  ELSE IF ~SpotCheckPass(entry.h1, ExtractH1Subset(req.values, req.config))
    THEN "miss_spotcheck_failed"
  ELSE "hit"

\* cache_lookup_with_spotcheck_report
CacheReason(entry, req) ==
  IF entry \in {Absent, Torn} THEN "miss_no_entry"
  ELSE IF entry.cvh # req.config THEN "miss_config_mismatch"
  ELSE IF ~SpotCheckPass(entry.h1, ExtractH1Subset(req.values, req.config))
    THEN "miss_spotcheck_failed"
  ELSE "hit"

Lookup(p) ==
  /\ proc[p].pc = "lookup"
  /\ LET req == proc[p].req
     IN  proc' = [proc EXCEPT ![p].pc = "cached",
                    ![p].hit = CacheReason(disk[CachePath(req)], req) = "hit"]
  /\ UNCHANGED <<audit, disk, runs>>

-----------------------------------------------------------------------------
(* Steps that write a JSON file: Path.write_text, in two steps *)

\* policy_version is added when the caller's config has none.
SealConfig(req) == [req.config EXCEPT !.policy = TRUE]

SealFor(req, head, sid) ==
  CreateSeal(req.values, SealConfig(req), head,
             ComputeResonance(req.values, req.config), None, sid)

ReportFor(req, head, sid, hit) ==
  [run |-> req.run, head |-> head, seal |-> SealFor(req, head, sid).epw, hit |-> hit]

SealOf(p) == SealFor(proc[p].req, proc[p].prev, proc[p].sid)

ReportOf(p) == ReportFor(proc[p].req, proc[p].prev, proc[p].sid, proc[p].hit)

\* All that a run has logged when it creates the seal.
SealedHistory(req, hit) ==
  << <<"COMMAND_RECEIVED", req.target>>, <<"FETCH", None>>,
     <<"POLICY_EVALUATED", "allow">>, <<"FEATURE_EXTRACT", None>>,
     <<IF hit THEN "CACHE_HIT" ELSE "CACHE_MISS", None>>,
     <<"ROUTE", None>>, <<"SEAL_EMIT", req.values>>, <<"VERIFY", None>> >>

ASSUME BoundAssumption == MaxRuns \in Nat

\* A request is none of the constants, its config has the keys that matter.
ASSUME RequestAssumption ==
  \A req \in Request :
    /\ req # None /\ req.target \in STRING /\ req.values \in Seq(Byte)
    /\ {"size", "min", "max", "bins", "scale", "policy"} \subseteq DOMAIN req.config
    /\ SealConfig(req) # None

\* What is written out can be told from a file that is missing or torn, the hash
\* of a seal from a missing one, and a head hash from a broken log.
ASSUME TextAssumption ==
  \A req \in Request : ~ExtractRaises(req.values, req.config) =>
    \A hit \in BOOLEAN, sid \in 1..MaxRuns :
      LET head == SealedHistory(req, hit)
      IN  /\ SealFor(req, head, sid).epw # None /\ head # Broken /\ head # None
          /\ {SealFor(req, head, sid), ReportFor(req, head, sid, hit)}
               \intersect {Absent, Torn} = {}

\* The files a run writes, by the pc it writes them at, and what comes next.
FileWritten(p) ==
  CASE proc[p].pc = "store"     -> CachePath(proc[p].req)
    [] proc[p].pc = "seals"     -> SealPath(proc[p].req)
    [] proc[p].pc = "c2pa_stub" -> StubPath(proc[p].req)
    [] proc[p].pc = "reports"   -> ReportPath(proc[p].req)

Content(p) ==
  CASE proc[p].pc = "store"                  -> CacheEntry(proc[p].req)
    [] proc[p].pc \in {"seals", "c2pa_stub"} -> SealOf(p)
    [] proc[p].pc = "reports"                -> ReportOf(p)

AfterWrite == [store |-> "emit", seals |-> "c2pa_stub", c2pa_stub |-> "reports",
               reports |-> "done"]

Writing(p) == proc[p].pc \in DOMAIN AfterWrite

\* A plausible bug: the file is overwritten in place, not truncated.
OpenFileInPlace(p) ==
  /\ Writing(p) /\ ~proc[p].filling
  /\ disk' = [disk EXCEPT ![FileWritten(p)] = IF @ = Absent THEN Torn ELSE @]
  /\ proc' = [proc EXCEPT ![p].filling = TRUE]
  /\ UNCHANGED <<audit, runs>>

\* open(path, "w") truncates the file.
OpenFile(p) ==
  /\ Writing(p) /\ ~proc[p].filling
  /\ disk' = [disk EXCEPT ![FileWritten(p)] = Torn]
  /\ proc' = [proc EXCEPT ![p].filling = TRUE]
  /\ UNCHANGED <<audit, runs>>

\* A plausible bug: the run goes on without having closed the file.
FillFileNotClosed(p) ==
  /\ Writing(p) /\ proc[p].filling
  /\ disk' = [disk EXCEPT ![FileWritten(p)] = Content(p)]
  /\ proc' = [proc EXCEPT ![p].pc = AfterWrite[@]]
  /\ UNCHANGED <<audit, runs>>

\* The text is written from the start of the file.  If another process has put
\* its own text there since, a longer one keeps its tail.
FillFile(p) ==
  /\ Writing(p) /\ proc[p].filling
  /\ \E text \in {Content(p)} \union (IF Whole(FileWritten(p)) THEN {Torn} ELSE {}) :
       disk' = [disk EXCEPT ![FileWritten(p)] = text]
  /\ proc' = [proc EXCEPT ![p].pc = AfterWrite[@], ![p].filling = FALSE]
  /\ UNCHANGED <<audit, runs>>

-----------------------------------------------------------------------------

\* What a file may hold when a process dies that was to append bodies to it: n of
\* them, and of the next one nothing or a line that was cut short.
Interrupted(file, prev, bodies) ==
  UNION {LET done == LogAll(file, prev, SubSeq(bodies, 1, n))
             next == EventLine(prev \o SubSeq(bodies, 1, n), bodies[n + 1])
         IN  {done} \union
             (IF n = Len(bodies) THEN {} ELSE {Put(done, part) : part \in CutShort(next)})
           : n \in 0..Len(bodies)}

\* The process dies; the files stay as they are.
Crash(p) ==
  /\ proc[p].pc \in Active
  /\ \E lines \in Interrupted(audit[proc[p].req.run], proc[p].prev, EventsAt(p)) :
       audit' = [audit EXCEPT ![proc[p].req.run] = lines]
  /\ proc' = [proc EXCEPT ![p] = Idle]
  /\ UNCHANGED <<disk, runs>>

Step(p) ==
  \/ Received(p) \/ Policy(p)
  \/ Features(p) \/ FeaturesRaise(p)
  \/ Lookup(p) \/ Cached(p) \/ Emit(p)
  \/ OpenFile(p) \/ FillFile(p)

Next == \E p \in Proc : (\E req \in Request : Start(p, req)) \/ Step(p) \/ Crash(p)

Spec == Init /\ [][Next]_vars

-----------------------------------------------------------------------------
(* Properties *)

\* Every variable has its type; a process has a file open only while it is at a
\* step that writes one, and only the last line of a log may lack its newline.
TypeOK ==
  /\ \A p \in Proc :
       /\ proc[p].pc \in Active \union Ended
       /\ proc[p].pc = "idle" <=> proc[p].req = None
       /\ proc[p].pc # "idle" => proc[p].req \in Request
       /\ proc[p].filling => Writing(p)
  /\ \A r \in RunIds : \A i \in 1..(Len(audit[r]) - 1) : audit[r][i].eol
  /\ DOMAIN disk = Paths
  /\ runs \in 0..MaxRuns

\* The events that a head hash commits to.
Events(head) == {head[i] : i \in 1..Len(head)}

\* The lines that have their newline: no later append changes them.
Closed(run) == {i \in 1..Len(audit[run]) : audit[run][i].eol}

\* The events that are written in full to the log, on whatever line.
Logged(run) == {LastEvent(audit[run][i]) : i \in Closed(run)}

\* Those of them that have a line of their own and are read back.
Readable(run) == {audit[run][i].hash : i \in {j \in Closed(run) : Parses(audit[run][j])}}

\* What verify_audit_chain says of a run's audit file.
LogVerdict(run) ==
  IF audit[run] = << >> THEN None
  ELSE IF ChainOK(audit[run]) THEN HeadHash(audit[run]) ELSE Broken

\* Each event of the history is in the log, with the hash it has there: as a line of
\* its own, or at the end of one that a dead append had begun (then LogVerdict is
\* Broken for good).
HistoryIn(head, run) == {SubSeq(head, 1, n) : n \in 1..Len(head)} \subseteq Logged(run)

\* Evidence never runs ahead of the log, and no event of its history is lost:
\* whatever died, in the middle of a line too, or wrote in between, the history that
\* the head in a seal or a report on disk commits to is event by event in one audit
\* file, in the report's case in its own run's.  It has an allowing policy decision,
\* the artifact's SEAL_EMIT, and VERIFY at its end.  A report names the seal made on
\* the same history and the cache outcome logged.
EvidenceIsLogged ==
  /\ \A path \in Paths : path[1] \in {"seals", "c2pa_stub"} /\ Whole(path) =>
       LET head == disk[path].head
       IN  /\ \E r \in RunIds : HistoryIn(head, r)
           /\ {<<"POLICY_EVALUATED", "allow">>, <<"SEAL_EMIT", path[2]>>}
                \subseteq Events(head)
           /\ head[Len(head)] = <<"VERIFY", None>>
  /\ \A path \in Paths : path[1] = "reports" /\ Whole(path) =>
       LET head == disk[path].head
       IN  /\ HistoryIn(head, path[2])
           /\ disk[path].seal.head = head
           /\ disk[path].hit <=> <<"CACHE_HIT", None>> \in Events(head)

\* Whatever runs overlapped, were denied, raised or died: a seal file that can
\* be read verifies against the artifact it is filed under.
StoredSealsVerify ==
  \A path \in Paths : path[1] \in {"seals", "c2pa_stub"} /\ Whole(path) =>
    VerifySeal(path[2], disk[path], None) = None

\* A run under a fresh run id that no run of the same artifact overlapped or
\* followed ends with evidence that verifies in full, whatever earlier runs, dead
\* ones among them, left behind: seal with audit log, both channels, report.
LoneRunVerifies ==
  \A p \in Proc : proc[p].pc = "done" /\ proc[p].alone =>
    LET req  == proc[p].req
        seal == disk[SealPath(req)]
    IN  /\ \A path \in {SealPath(req), StubPath(req), ReportPath(req)} : Whole(path)
        /\ VerifySeal(req.values, seal, LogVerdict(req.run)) = None
        /\ DualChannelReason(seal, disk[StubPath(req)]) = None
        /\ disk[ReportPath(req)].seal = seal.epw
        /\ disk[ReportPath(req)].head = LogVerdict(req.run)

\* A hit is only ever on features that are the artifact's under the requested
\* config: not on a torn entry, nor on one made with another config.
CacheHitSound ==
  \A req \in Request :
    ~ExtractRaises(req.values, req.config)
      /\ CacheReason(disk[CachePath(req)], req) = "hit"
    => disk[CachePath(req)] = CacheEntry(req)

-----------------------------------------------------------------------------
(* What the runs of a root directory amount to for its readers: Evidence *)

EvidencePaths == {path \in Paths : path[1] \in {"seals", "c2pa_stub", "reports"}}

\* A history that a finished run of this log may leave at this path: allowed, the
\* artifact's seal announced, the verification last.
Vouches(path, run, history) ==
  /\ history[Len(history)] = <<"VERIFY", None>>
  /\ <<"POLICY_EVALUATED", "allow">> \in Events(history)
  /\ \/ path[1] \in {"seals", "c2pa_stub"} /\ <<"SEAL_EMIT", path[2]>> \in Events(history)
     \/ /\ path = <<"reports", run>>
        /\ \E req \in Request : <<"SEAL_EMIT", req.values>> \in Events(history)

E == INSTANCE Evidence WITH
  Log <- RunIds, Place <- EvidencePaths,
  recorded <- [run \in RunIds |-> Logged(run)], readable <- [run \in RunIds |-> Readable(run)],
  shown <- [path \in EvidencePaths |-> IF Whole(path) THEN disk[path].head ELSE None]

\* Runs that overlap, are denied, raise or die, also in the middle of a line, never
\* take back an event that was logged nor make one unreadable that could be read, and
\* at every moment each seal, stub or report that can be read commits to a history
\* that had been logged, in the report's case in its own run's log.
ImplementsEvidence == E!Spec
=============================================================================
