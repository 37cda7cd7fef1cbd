# Hashen: models, checks and proofs

Hashen turns an artifact (a file) into evidence that can be checked later: a
hash-chained audit log of what was done, a seal over features of the artifact
and the log's head, a compliance report, and a manifest over all of them. This
directory holds TLA+ models of that program, TLC instances that check them and
TLAPS proofs about them. Paths below are relative to the repository's root.

Contents: [inventory](#1-inventory), [modules](#2-the-modules-and-the-code),
[runs](#3-the-runs), [bounds](#4-bounds-and-abstractions),
[fairness](#5-fairness-and-deadlock), [proofs](#6-proofs),
[findings and observations](#7-findings-and-observations),
[not modelled](#8-what-is-not-modelled), [plan](#9-plan).

## 1. Inventory

### Components

| Component | State it keeps | Operations | What makes it correct |
|---|---|---|---|
| Audit log, `audit/event_log.py`, `audit/models.py` | in memory: `_prev_hash`, `_events`; on disk: `audit/<run_id>.jsonl` | construct, `append`, `head_hash` | the head commits to the whole history; lines are never rewritten; two writers never make one valid chain |
| Audit verifier, `audit/verify.py` | none | `verify_audit_chain` | accepts exactly the unbroken chains from the initial hash, and returns their head |
| Analytics, `analytics/` | none | `extract_h1_subset`, `entropy_h2`, `compute_resonance` | every byte is counted; the sample has the size asked for |
| Seal, `provenance/seal.py` | sidecar `seals/<digest>.seal.json` and its c2pa stub | `create_seal`, `write_seal`, `verify_seal`, `verify_dual_channel_consistency` | a verdict vouches for config, audit head, routing, sandbox metadata and the artifact's features |
| Fingerprint cache, `cache/` | `cache/<key>.json` | lookup with spot check, store | a hit is only on features of this artifact under this config |
| Orchestrator, `orchestrator/orchestrator.py` | the log, the cache, the seal, the report of one call | `run_pipeline` | evidence on disk is backed by the log; a run by itself leaves evidence that verifies |
| Compliance report, `compliance/reporting.py` | `reports/<run_id>.json` | `build_report`, `write_report` | names the seal and head of its own run; records all the policy needs |
| Bundle builder, `cli/main.py` `_cmd_run`, `cli/bundle.py`, `provenance/bundle_manifest.py` | flat files of the bundle directory; the file the artifact is read from | `hashen run`, `hashen-bundle` | a finished bundle verifies, whatever was in the directory before |
| Bundle verifier, `verification/verify.py`, `provenance/bundle_manifest.py`, `cli/verify.py` | none | `verify_bundle`, `hashen verify`, `hashen bundle doctor`, `hashen-verify` | an accepted bundle is the evidence of one run; the commands agree |
| Policy engine, `compliance/policy.py`, `rules.py`, `models.py` | none | `evaluate`, `hashen policy check` | stricter is never looser; a check of the bundle repeats the run's decision |
| Retention and lifecycle, `compliance/retention.py`, `lifecycle.py`, `cli/retention.py` | the directory's files and their times | `hashen-retention`, `hashen retention status` | what is active or held is not deleted; evidence outlives the artifact |
| Script validation and posture, `sandbox/validation.py`, `policy.py`, `posture.py`, `constants.py` | none | `validate_source`, `check_policy` | what is always denied is denied whatever is allowed; a permission more never denies more |
| Restricted execution runner, `sandbox/runner_subprocess.py`, `hashen exec validate`, `hashen exec run` | the child process, two reader threads with a buffer and a flag each, a temporary directory | `run_script` | only vetted scripts start; the result claims nothing that did not happen; nothing is left running; every call ends |
| Redaction, `compliance/redaction.py` | none | recursive filter over a report | not modelled: nothing in the program calls it |
| Script signatures, schemas, utilities, API server, printing front ends | none | | not modelled |

### How they interact

`hashen run` calls `run_pipeline` with the bundle directory as root.
`run_pipeline` opens an `EventLog`, evaluates the policy, computes features, asks
the cache, appends the last events, reads the log's head, and only then writes
cache entry, seal, stub and report. The command copies these to flat files, verifies
them itself, and writes `verify.json` and `manifest.json`. All interaction between
components, and between two runs, is through files: nothing locks them, nothing
writes to a temporary name and renames, and the default run id is the constant
`"run"`. Later commands (`hashen verify`, `hashen policy check`,
`hashen retention status`, `hashen-retention`) read the same directory, the last
one deletes from it. `hashen-bundle` does what `hashen run` does with code of its
own, reads the artifact's file a second time, and adds a demonstration of a verification
that fails.

The runner stands apart from all this: `run_script` validates a script, starts it as a
process in a group of its own, reads its two pipes in two threads, and waits for all of
them with time limits. The script may start processes that leave the group, keep the
pipes open, or never end.

### What is hard

- *Concurrency*: two processes on one root share audit files (same run id) and seal,
  stub and cache files (same artifact); a run may write while a cleanup deletes; the
  runner copies buffers that its reader threads may still be filling.
- *Waiting*: a script that runs for ever, fills a pipe, keeps one open, or ends in the
  moment it is killed.
- *Crashes*: every file is opened (truncated) and then filled; a process may die
  between, or between two files. A torn last line of a log is joined to the next one.
- *Stale state*: `EventLog` starts from the initial hash whatever the file holds; a
  cache key does not have the config in it; `verify_seal` takes most fields from the
  record it checks; the report is filled from arguments the policy may not have seen;
  cleanup looks at a file and then deletes by name.
- *Order*: the head must be read after the last event; the manifest must come last.
- *Boundaries*: sampling steps, histogram ends, files of exactly the retention time,
  retention times of `None`; output that straddles, meets or misses the output limit.

`PROJECT.json` lists each of these under `hazards`, at its line, with the properties
that would catch it.

## 2. The modules and the code

```
HashChain ─┬─ AuditLog ─┬─ MCAuditLog
           │            └─ AuditLogProofs
           ├─ HashChainProofs (used by AuditLogProofs and PipelineProofs)
           │
Analytics ─── Seal ─┬─ SealStorage ─┬─ MCSealStorage
                    │               └─ SealStorageProofs
                    ├─ SealProofs (used by SealStorageProofs and PipelineProofs)
                    │
HashChain, Seal ─── Pipeline ─┬─ MCPipeline          Evidence (instantiated by Pipeline and Bundle)
                              ├─ PipelineProofs
                              └─ Bundle ─┬─ MCBundle
                                         └─ BundleProofs (uses PipelineProofs)
Policy ─── Retention ─┬─ MCRetention
                      └─ RetentionProofs
Validation ─── Runner ─── ExecCommand ─┬─ MCRunner   Execution (instantiated by Runner)
                                       └─ RunnerProofs
```

### HashChain

The file format. A line begins with the text of an event (`prev`, `body`, `hash`), which is
complete if `whole`; `joined` has the digests of the events whose texts were put behind it on the
same line, and `eol` says that it ends in a newline. Only a line that is `whole` and has nothing
joined to it is JSON (`Parses`). `HashOf` is the digest of an event; it is the sequence of bodies
up to that event, so it is collision-free by construction and the assumption is visible in one
definition. `CutShort` is what a write or a copy that stops in a line leaves of it. `Put` is
`open(path, "a")` and `write`: text after an unterminated line is joined to it (`Joined`).
`AuditLog`, `Pipeline` and `Bundle` all use these three. `ChainOK` and `HeadHash` are
`verify_audit_chain`, one conjunct of `LineAccepted` for each early return. The loop of the code,
with `expected_prev` carried from line to line, is `ChainScan`, a recursive function; that the
predicate is what the loop answers is `ScanIsChainOK` in `AuditLog`, checked and proved.

### AuditLog

| Model | Code |
|---|---|
| `session[p]` | one `EventLog` object: `prev` is `_prev_hash`, `events` is `_events` |
| `Open` | the constructor: starts from `INITIAL_PREV_HASH`, reads nothing |
| `Prepare` | `append` up to the in-memory update |
| `Write` | the open, write and close of `append` |
| `WriteFails`, `Crash` | the write raises; the process dies; either may leave no line, half a line, or a line without newline |
| `Finish` | the run ends and its head goes into a seal |
| `Damage` | (environment) a stored line is edited, forged, lost, repeated or swapped |

`writers`, `faults` and `opens` are history variables and counters for the properties.

### Analytics, Seal, SealStorage

`Analytics` has the features in integer arithmetic: a byte `b` stands for `b/Top`, and the
resonance is the reduced fraction whose square root it is. The entropy is the constant
operator `Entropy` of the histogram, of which nothing is assumed: it is a sum of rounded
logarithms. For TLC it is `SharesOf`, an entropy without rounding errors. `Seal` has the
deterministic payload, `create_seal`, `verify_seal` with its checks in the code's
order, and the comparison of the two channels. The EPW hash is the payload itself
(collision-free). `"raises"` stands for an exception that leaves the verifier.
`SealStorage` puts one run's artifact, record and log into storage and changes any
of them, field by field: it asks what a verdict still vouches for.

### Pipeline

`proc[p].pc` names the next step of `run_pipeline`; the actions follow the function
from top to bottom.

| Action | Lines of `orchestrator.py` |
|---|---|
| `Start` | the call, `EventLog(...)` |
| `Received` | COMMAND_RECEIVED, FETCH |
| `Policy` | evaluation, POLICY_EVALUATED, the early return of a denied run |
| `Features`, `FeaturesRaise` | feature extraction, or its division by zero; FEATURE_EXTRACT |
| `Lookup`, `Cached` | cache lookup with spot check; CACHE_HIT or CACHE_MISS |
| `OpenFile`, `FillFile` at `store` | storing the cache entry on a miss |
| `Emit` | ROUTE, SEAL_EMIT, VERIFY; the head is read here |
| `OpenFile`, `FillFile` at `seals`, `c2pa_stub`, `reports` | `write_seal` (two files), `write_report` |
| `Crash` | the process dies; where it was appending, `Interrupted` has what is left: some of the events, and of the next one nothing, half a line, or a line without its newline |

`LogAll` appends the events of a step by `Put`: the first one may be joined to what a dead run of
the same id has left on the last line, and is then no line of its own. The run does not notice,
and its seal and report commit to a history with that event; `EventLog` reads nothing back.

Opening a file truncates it (`Torn`), filling it writes its text; if another process has
filled the same file in between, the result may be a mix (`Torn`). Appends that follow
each other with nothing in between are one step, because how single lines of two
sessions interleave is `AuditLog`'s subject.

### Evidence

The abstract specification of a root directory, for whoever reads it. `recorded` has, for each
log, the set of histories whose last event was written in full to it, on whatever line;
`readable`, those whose last event has a line of its own, so that a reader of the log finds it.
Both only grow, and a history is never recorded without those it continues. That the two differ is
what a torn line costs: what is joined to one was written and can be found by eye, but no JSON
reader gets it back, and `verify_audit_chain` calls the log broken from then on. `shown` has, for
each place where evidence is kept, the history that the evidence there commits to, or `None` when
there is nothing that can be read. `Show` requires that the history is recorded and that it is one
that a finished run leaves at that place (`Vouches`).

`Pipeline` implements it under the mapping in its last section: `recorded` is `Logged`, the last
event of each line that has its newline; `readable` is `Readable`, those of them that `Parses`
accepts; `shown` is the head in a file that can be read. Appends (`Received`, `Policy`,
`Features`, `Cached`, `Emit`, and `Crash` in the middle of them) are `Record` (a crash that leaves
only a fragment stutters); `OpenFile` is `Hide`; `FillFile` of a seal, stub or report is `Show`,
or `Hide` where two texts were mixed; all other steps, and every step on the cache, stutter. A
model in which evidence can be read before its history is in the log does not implement it, and
neither does one that records an event without its predecessors, or whose appends make a line
unreadable that could be read.

`Bundle` implements it too (`BundleImplementsEvidence`), with more places: the files of the
pipeline and those of the flat files that commit to a history (`seal`, the three verdicts, `report`,
`manifest`). Its pipeline steps are those above, `FillFlat` of such a file is `Show`, `OpenFlat`
is `Hide`. The pass of TLC is on the instances, the proofs are for all.

### Bundle

`hashen run` and `hashen-bundle` on one directory: `Pipeline`'s steps, then the flat files in
the order of the commands, each opened and filled in two steps, then the end. `command` is the
one at work, `step` the place in `FlatOrder`, `opened` whether the file there is open. While it
is open, an artifact or a log holds a prefix, any other file no JSON (`PartOf`). The copy of a log
stops in a line or between two (`LogParts`), and the log it copies may have torn lines of its own.

| Action | Code |
|---|---|
| `Invoke` | the command reads the artifact and calls `run_pipeline`; again, with the same or another run id or artifact, when it has ended, returned early, raised or died |
| `RunPipeline` | a step of `run_pipeline` |
| `ChangeSource` | (environment) the artifact's file is replaced or removed; only `hashen-bundle` reads it again |
| `OpenFlat`, `FillFlat` | one flat file; `FlatContent` says what goes into each |
| `CopyRaises` | the file to copy is gone: `shutil.copy2` raises and the command ends |
| `Die` | the process dies, in the pipeline or between two copies |

`Demonstration` is what `hashen-bundle` adds: `verify_ok.json` when its own verdict is
good, an artifact with one byte changed, and the verdict on that one.
`Results` is `verify_bundle`: the set of answers it may give at this moment (a set,
because without `seal.json` or `audit.jsonl` it takes whichever file the directory lists
first). An answer is a record with the fields of `VerificationResult`, threaded through the
checks in the code's order: `CheckSeal`, `CheckAudit`, `CheckManifest` and `CheckReport` each set
the flags, the list of errors and the reason by themselves, as the code does, and `Conclude`
makes `ok` of the flags and of the errors that are fatal. The early returns (`Missing`) set
neither flag nor reason. `Doctor` reads the errors alone and `LegacyMessage` reason and errors.

### Policy, Retention

`Policy` has the eight rules as operators over a context, and `Evaluate`. `Retention` has a
bundle directory (`mtime` of each file, what `report.json` holds), the run that writes
it, the cleanup that deletes from it, and a clock.

| Action | Code |
|---|---|
| `StartRun`, `OpenFile`, `CloseFile`, `CloseDeleted` | the copies of `_cmd_run`: a file is opened, then filled |
| `CopyTime`, `CopyTimeRaises` | the second half of `shutil.copy2`: the report gets its source's time, or the call raises because a cleanup has deleted the copy in between |
| `Scan`, `List` | `hashen-retention` looks for raw files, then falls back to all files |
| `StartDeleting`, `LookAt`, `Unlink` | `cleanup_raw_artifacts`: hold, cutoff, `exists`/`stat`, `unlink` |
| `DieRun`, `DieSweep`, `Tick` | either process dies; time passes |

`PolicyCheck` is `hashen policy check` on a bundle, `Status` and `ReportPathStatus` are
`retention_status` of a directory and of a report's path, `Lifecycle` is `lifecycle_state`.

### Validation, Runner, ExecCommand, Execution

`Validation` is `validate_source` on the parsed script: the nodes that some check looks at,
the lists of `constants.py`, the allowlist and the three permissions of a posture, and the
limits. `Runner` is one call of `run_script`: the calling thread (`main`), the script's
process (`child`), a process it may start (`helper`), the bytes `written` to and lying in each
`pipe`, and the two `reader` threads.

| Action | Code (`runner_subprocess.py`) |
|---|---|
| `Called` | the early returns of `run_script` in their order (`Rejection`), or on to the temporary directory |
| `Prepare`, `PrepareRaises` | the directory is made, made read-only, and written to; who is not root cannot |
| `Spawn`, `SpawnFails` | `_set_resource_limits` in the child (it stops at the first limit that fails), `Popen`, the reader threads |
| `WaitEnds`, `WaitTimesOut` | `proc.wait(timeout)` |
| `JoinEnds`, `JoinTimesOut` | the join of 0.2 s, stdout's reader first |
| `CopyBuffer`, `ReadFlag` | both buffers are copied, then both flags read, while a reader that was not joined goes on |
| `Kill`, `Reap`, `ReapTimesOut` | after a timeout: `_kill_process_group`, a wait of two seconds, another kill, a wait without limit |
| `Answer` | the result: exit code, truncation, timeout |
| `Fetch`, `EndOfFile`, `Extend`, `SetFlag` | a reader: `read(4096)` blocks until it has a whole chunk or the pipe is closed; the buffer takes what the limit leaves; the flag |
| `Write`, `Fork`, `Exit`, `HelperEnds`, `ChildDies` | (external) the script and what it starts do as they like; a signal takes effect |

There is no clock: a wait with a limit may end by it as long as what it waits for has not
been noticed. That covers every length of the timeouts and every speed of the machine.
`ExecCommand` has the postures that `hashen exec validate` and `hashen exec run` build from
their flags: two operators, `ValidatePosture` and `RunPosture`, for the two copies of that code in
`cli/main.py`, which are alike today and may drift. Their limits of time, memory and processor time
are left out, since no check of a script looks at them.

`Execution` is the abstract specification of one call, for its caller: the `call`, how far the
script's `process` has come, the output `produced`, and the one `answer`. `Runner` implements it
(`ImplementsExecution`): `ProcessOf` makes "succeeded" or "failed" of an ended process, reaped or
not; `written` is what was produced; there is an answer as soon as `main` has returned or
raised. `Called` is `Accept` or `Refuse`, `Spawn` is `Start`, `PrepareRaises` and `SpawnFails` are
`GiveUp`, `Write` is `Produce`, `Exit` and `ChildDies` are `End`, and `Answer` is `Answer`. Waiting,
joining, copying, killing, reaping and the readers stutter: none of them shows before the answer.
What the answer may tell of output is a parameter (`Honest`), for which `Runner` gives `OutputTold`:
no more than was produced and the limit leaves, and no truncation below the limit. A call that
answers without waiting for the process it has killed (`ReapGivesUp`), or whose reader claims a
truncation too early (`SetFlagEarly`), does not implement it.

## 3. The runs

| Run | Asks | Properties |
|---|---|---|
| `audit` | two processes open, append, fail, die and finish on one file that may also be damaged: what is a verified file worth? | `HeadBindsHistory`, `VerifiedHasOneWriter`, `SoleRunVerifies`, `ScanIsChainOK`, `BrokenStaysBroken` |
| `seal` | the stored artifact, record and log are changed piece by piece: what does a verdict, and a reason, still say? | `VerdictVouches`, `ReasonPointsAtChange`, `FeaturesCoverArtifact` |
| `pipeline` | two processes under one root, interleaved and dying: what is the stored evidence worth? | `EvidenceIsLogged`, `StoredSealsVerify`, `LoneRunVerifies`, `CacheHitSound`, `ImplementsEvidence` |
| `bundle` | `hashen run` and `hashen-bundle` die and are repeated in one directory: what do the verifying commands say, and is it right? | `CompletedBundleVerifies`, `SavedVerdictStands`, `ManifestedBundleIsOneRun`, `OkVouchesForParts`, `CommandsAgree`, `BundleImplementsEvidence` |
| `retention` | runs write and cleanups delete: do status, policy check and cleanup agree, and what is left? | `RecheckAgrees`, `PurgeGate`, `StricterNeverLooser`, `EvidenceOutlivesArtifact`, `LifecycleMovesForward`, `ActiveArtifactKept`, `StatusRaisesForewarned` |
| `runner` | one call of `run_script`, two readers, a script that does anything: what starts, what does the result say, what is left, does it end? | `OnlyVettedRuns`, `WiderPostureAccepts`, `JoinedOutputComplete`, `NothingLeftBehind`, `ValidateForetellsRun`, `ImplementsExecution`, `CallEnds`, `PipeDrains` |

Each of these runs also has its module's type invariant. What they show:

- A file that verifies to a session's head says exactly what that session recorded,
  whatever failed, raced or was damaged; a second writer, or a torn line, always breaks
  the chain, and nothing the log does repairs it.
- A seal's verdict fixes config, audit head, sandbox metadata, routing path (when the
  record has one) and the sampled features of the artifact, and nothing more of it.
- Whatever overlaps, raises or dies, evidence that can be read commits to a history that was
  logged before (`ImplementsEvidence`), and every event of that history is written in full in one
  log (`EvidenceIsLogged`), also when another run of the same id writes between its lines or has
  died in the middle of one. It is *not* always a line of its own: behind a torn line it is joined
  to what the dead run left, and the log does not verify any more. What could be read back once
  stays so. The flat
  files of a bundle keep this promise, also where two commands have left a mixture
  (`BundleImplementsEvidence`).
- Cached features are used only if they were computed for the artifact under the
  requested config, also after crashes, and a run that had its files to itself always
  leaves evidence that verifies.
- Both bundle commands recover from their own death: repeated under a fresh run id, each
  leaves a bundle that verifies; a manifest and a verdict of "ok" are never a mix of two runs,
  also when the artifact's file changed between two reads; and three commands, of which one looks
  at flags and errors, one at errors and one at reason and errors, come to one conclusion about any
  directory, although `verify_bundle` keeps the three apart.
- Status and policy check never contradict each other on held bundles, and a cleanup that
  no run overlaps deletes nothing that status calls active. Where status raises, the policy has
  warned: policy check does not allow such a bundle at strict (`StatusRaisesForewarned`).
- No script is started that the lists, the posture or its hash speak against. A result may
  lack output (see section 7), but what it has was written, a truncation it reports
  happened, and what a joined reader delivered is complete. Every call ends, with its
  process reaped, and after a timeout with its group killed, whatever script and descendants
  do; and neither pipe is left full, so that no script is stuck on its own output.

The remaining six runs are violations: each checks one sentence of the
documentation, or of a docstring, that the code does not keep. See section 7.

Every property of a passing run has a mutant in `PROJECT.json`: a change of one
definition, of the kind a programmer might make, under which TLC finds the property
violated. The mutants' definitions stand in the modules, marked "A plausible bug";
nothing else uses them.

## 4. Bounds and abstractions

| Run | Instance | Why it is enough |
|---|---|---|
| `audit` | 2 processes, 2 bodies (symmetric), `MaxEvents` 2, `MaxOpens` 2, `MaxFaults` 1 | two sessions can be concurrent or successive, each with a first and a later event; one damage of each kind meets every file of up to four lines. The proofs cover all bounds |
| `audit_reopen` | 1 process, 1 body, no damage | the smallest instance with two sessions |
| `seal`, `seal_artifact` | bytes 0..3, artifacts of up to five bytes, four configs (sample sizes 2, 3, 0 and none), up to 2 edits | artifacts shorter than the sample size, at its multiples and one above them; values at both ends of and outside the range; two edits reach "artifact and record changed together" |
| `pipeline` | 2 processes (symmetric), 2 calls, four requests | the same artifact under two run ids; two configs that sample alike but bin differently (only the config hash tells their entries apart); a denied call; a config that raises. Two calls give each pair of them, concurrent and successive, the second behind any torn line the first may leave. Runs of different artifacts share no file but the log: the `bundle` instance has them, and the proofs cover all requests |
| `bundle` | 1 process, 2 calls of either command, two run ids (symmetric) by the artifacts `<<0,1>>`, `<<0,0>>`, `<<2,1>>`, the first two with equal features | every pair of same/other run id and same/alike/other artifact, also as the two contents of the artifact's file; equal features matter because the seal cannot tell them apart and only the manifest can, and the tampered byte of `<<0,0>>` shows in no feature; what `hashen-bundle`'s file may be replaced by is the constant `Replacement`. The second call works over every torn line and every half copy that the first may leave. Calls of these commands are never denied (they pass no compliance flag that denies) |
| `retention*` | clock 0..3, retention times 1 and 2, four requests, cleanup with and without `--legal-hold` | a file can be younger than, as old as, and older than both times; requests: complete strict metadata under hold, the command line's defaults, a context of the caller's over arguments without retention times, and strict metadata with one of the two retention times and no hold (status raises on the missing one) |
| `runner`, `runner_user` | two calls that are let through, one of them from the command line by a user who is not root, and some forty that differ from them in one thing that gets them rejected; pipes of 1 byte, chunks of 2; limits 2 on one stdout and 1 elsewhere; up to 3 bytes to stdout, 1 to stderr; one helper | output below, at, and beyond each limit; a chunk that straddles a limit, that is full, and that is cut short by the end; a pipe that is full while the reader is elsewhere; a helper in or out of the group that holds none, one, or both pipes. The proofs cover all sizes |

Abstractions that hold for all modules:

- *Digests are collision-free*, and are what they digest. That SHA-256 has no
  collisions is assumed, not shown.
- *Wording, timestamps and formatting* are left out, except where a property is about
  them: the time of issue is in the seal record (to show that it is not hashed) and file
  times are in `Retention`.
- *Floating point*: bytes are integers, entropy is any function of the histogram, resonance a fraction.
  The rounding of the code is not modelled; the features are computed by the same
  expression both times, so equality of features is what the seal depends on. The
  cache's spot check compares with a tolerance that is smaller than the distance between two
  different samples of bytes: one byte that differs by 1 moves the mean by 1/255 over the length,
  which is above 1e-6 for samples of less than 3900 values. So there too it is equality, of as many
  values as both samples have (`SpotCheckPass`).
- *A torn line* is cut between characters. If the cut falls into a character of several bytes, reading
  the log raises `UnicodeDecodeError`, also in `verify_audit_chain`, which does not catch it; that
  needs a target or detail outside ASCII and is not modelled. An append that raises (a full disk)
  leaves of the line what a death there leaves, and ends the run; `AuditLog` has it as `WriteFails`,
  in `Pipeline` it is `Crash`.
- *Files under `audit/`*: a run id that was never used and one whose file is empty are the same log,
  the empty one. `LogChoices` therefore lets `verify_bundle` find an empty log or, where nothing is
  logged at all, none: an over-approximation.
- *Names with two underscores at both ends* are the set `Dunder`, a constant of `Validation`.
- *Schema validation* yields warnings only and is left out.
- *Time limits* may run out at any moment (`Runner`); the limits on CPU, memory and file size
  show as the script's exit code. Output is counted in bytes, not read.
- *A parsed script* is the set of its nodes that some check looks at.
- `Retention` keeps three of six flat files: `seal.json` and `audit.jsonl` are written and
  deleted as `report.json` is, `verify.json` as `manifest.json`, and neither status nor
  policy check looks at them. `overlap` is a history variable, and `of` in a report a
  ghost field naming the request it was written for.

## 5. Fairness and deadlock

`Runner` is the part that waits, and has liveness properties: `CallEnds` and `PipeDrains`, under
`FairSpec`. Its fairness is weak, and only on what does not depend on the script:

- `MainStep`: the operating system schedules the calling thread, and a wait with a time limit
  ends. That one action includes the timeouts, so a wait that could go on for ever (the last
  `proc.wait()`, which has no limit) is not ended by fairness but by the process's death.
- `ReaderStep(s)`, for each reader: the thread is scheduled when its `read` can return or go on.
- `ChildDies`: a process that was sent SIGKILL dies.

Nothing is assumed of the script or its helper: they may never write, never end, hold the
pipes for ever. `WaitTimesOut` is part of a disjunction and need not ever be taken when the
script ends in time.

The other specifications state no fairness and have safety properties only: their commands are
straight lines of file operations that never wait for another process, and may die anywhere.
`CHECK_DEADLOCK FALSE` is set in every run because the systems really stop: processes end,
`run_script` returns, and the calls, damages and ticks are bounded.

## 6. Proofs

All theorems are checked by `tlapm` to the last leaf, with Z3, Zenon and LS4.

**`HashChainProofs`.** `HeadIsHistory`: the head of a file that verifies is the sequence of
the bodies of its lines. The induction over lines is by the least counterexample
(`LeastElement`, from the library's well-foundedness of `<`), since the library's
induction theorems take operators as arguments. `ScanDecidesChain`: on any file, the loop of
`verify_audit_chain` answers as `ChainOK` says. The loop is a recursive function; the proof shows
that a function in closed form (`AfterLines`: all lines so far are acceptable, and the hash computed
for the last) satisfies the recursion, and, by the least counterexample, that only one does.

**`AuditLogProofs`**, assuming `BoundsAssumption` (the bounds are natural numbers) and
nothing about `Proc` and `Body`:

- The inductive invariant is `IInv == TypeOK /\ SessionChained`. The second part says
  that the events in memory are themselves a chain with `_prev_hash` as its head: without
  it nothing relates the head that ends up in a seal to the events. With it,
  `HeadBindsHistory` (`Binding`) follows from `HeadIsHistory` applied twice, to the file
  and to the session: both have the same head, so both say the same.
- `BrokenStaysBroken` (`BrokenForEver`) holds because every step that is not damage leaves the
  file alone or is a `Put` (`StepWritesAtEnd`). `LinesAreKept`, that no complete line is ever
  changed or removed, holds for the same reason and is proved only.
- `VerifiedHasOneWriter` (`OneWriter`) needs `WriterInv`: as long as the undamaged file is a
  chain, a session that has written and may write more is the writer of every line of it. The
  first line of another session carries the initial hash and so chains to an empty
  file only (`PutByWriter`).
- `ScanIsChainOK` (`ScanDecides`) is `ScanDecidesChain` applied to the files that can arise.
- `SoleRunVerifies` (`SoleRun`) needs `SoleInv`: with one session opened, the file is what
  that session has written.

**`RetentionProofs`**, assuming `RetentionAssumption` (the constants have their types, `None`
is neither a number nor a file) and `ReportIsText` (a report that was written out is
neither missing nor torn), for all requests, command lines and clock bounds:

- `RecheckIsTheRun`, `StricterIsStricter`, `PurgeIsGated`: from lemmas that characterise
  which contexts have an error reason and which a warning (`ErrorReasons`,
  `WarningReasons`, `Decision`). The first also needs that a run's context and its report
  are filled from the same defaulted arguments.
- `RaisesForewarned`: status raises only where a time is missing from a report that can be read
  (`RaisesLacksTime`); that is an error reason at strict, and what policy check says at strict is
  what a strict run was told (`RecheckIsTheRun`).
- `LifecycleIsForward`: an action property; the age used is the older of two, and neither
  deleting the artifact nor a tick makes it smaller.
- `EvidenceIsKept`, `ActiveIsKept`: need `SweepInv` and `EvidenceInv`. They say what a
  cleanup still has on its list: where no run met a cleanup and the artifact of a finished run is
  there, the list has nothing but the artifact; and the file about to be deleted is still as
  old as it was when looked at.

**`SealProofs`, `SealStorageProofs`**, assuming `HashAssumption` (the hash that a run may compute
is not `None`; it is the payload, hence injective): `Vouches`, `ReasonsPoint`, and
`FreshVerifies`, that what a run stored verifies (proved only: the runs `pipeline` and `bundle`
check the same of whole runs). What is invariant is `SealedByRun` (the run's seal is `CreateSeal`
of its artifact) and `FieldsKept` (whatever is not in the set of edited pieces is as the run left
it). A verdict on a record with the run's hash then fixes every field of the payload. For these
three nothing has to be known of what the features compute. `StorageTypeCorrect` assumes
`StorageAssumption` in addition (artifacts are sequences of bytes, the keys of a config have
numbers, `None` and `Broken` are no config or head). `FeaturesCover` needs what they compute, for
any artifact and config:

- `HistogramTotal`: the bins' counts add up to the length of the artifact, that is, each byte is
  counted exactly once. The sum is a fold over the bins. The proof exhibits its closed form, the
  number of places whose value falls into a set of bins (`PlacesIn`), shows that it satisfies the
  fold's recursion (`PlacesAdd`), and concludes by uniqueness of a function defined by recursion
  over finite sets, whose order, strict subset, is well-founded (`SumOverBins`).
- `SubsetSize`: the sample has the size asked for, or the artifact's if that is smaller: arithmetic
  of the rounded-down step (`DivBounds`).

**`PipelineProofs`**, assuming `BoundAssumption`, `RequestAssumption` and `TextAssumption` (a
request is no constant, its config has the keys that matter; what is written out can be told from
a file that is missing or torn), for any processes, requests and number of calls:

- `IInv == Types /\ Progress /\ HeadsLogged /\ FilesAuthored`. `Progress` says that a run's head is
  exactly the history its pc has come to; `HeadsLogged`, that the head a run holds in memory is
  the last event of a line of its audit file that has its newline; `FilesAuthored`, that a file that
  can be read was written by some allowed run whose whole history is logged. Without the last one
  nothing is known of a file that an earlier or concurrent run left. From it follow
  `CacheHitSound` and `StoredSealsVerify`.
- What appends do to a log, whatever it ends in: `PutFile` (one line; a line with its newline is
  never touched, a line without one gets the text joined to it), `LogAllFile` (the events of a
  step), and `InterruptedFile` (what a death leaves: some of the events, perhaps a fragment, and
  no closed line changed).
- `TypeCorrect`: only the last line of a log may lack its newline. It is not in the shape of the
  model: an append to a log that a death has left without newline, or a death in one, could well
  make such a line in the middle, did `LogAll` not join.
- `Refinement`: the initial states map to initial states (`Evidence` starts empty), and each step
  of `Pipeline` to a step of `Evidence` or a stutter (`NextShows`): appending to a log, behind a
  torn line or not, records extensions of what was there and keeps readable what was
  (`GrowingRecords`), and filling a file shows a history that `FilesAuthored` says is logged
  (`WritingShows`).
- `EvidenceLogged` takes both: the refinement makes `Unbroken` an invariant (no history is in a log
  without the ones it continues, `NextUnbroken`); from it, by the least counterexample counted
  from the end, all prefixes of a logged history are logged (`PrefixesLogged`), and `FilesAuthored`
  says that the history of a file is one (`LoggedWhole`).
- `LoneRun` needs a second invariant, `Solitude`: as long as a run is alone, its log is exactly what it
  logged (`LogAllTwice` puts two appends together) and the files it has written so far are
  its own (`OwnFiles`); a step of another process touches neither, since it is of another run id
  and another artifact.

**`BundleProofs`**, assuming in addition `OneProcess` (one command at a time) and `FileAssumption`
(what is written out can be told from a file that is missing or torn; a head hash, a broken log and
a reason from none), for any requests and number of calls:

- `BInv == Beneath /\ Shape /\ FlatTexts /\ InPlace`. `Beneath` takes over the invariants of
  `PipelineProofs`, and adds that with one process the files under `seals/` and `reports/` are
  those of its last run (`OwnFiles`, alone or not). `FlatTexts` is about whatever earlier commands
  left: a seal or a report that can be read is some run's, and a manifest lists the evidence of
  one run (`OneRun`), since it is written last (`ManifestMade`). `InPlace` says, by the place in
  the order, which files the command at work has written already.
- `VerdictStands` and `CompletedVerifies` compute `verify_bundle` on the files that are in place at
  the end (`EndFacts`); the second takes from `PipelineProofs` that a lone run's log and seal verify.
- `OneRunInside`: digests that agree make every listed file the one of the manifest's run.
  `PartsVouchedFor` needs of a seal only that some run wrote it (`ChoiceText`), whatever file of
  `seals/` the verifier took it from.
- `Agreement` follows the result through the checks of `verify_bundle`: after each (`AfterSeal`,
  `AfterAudit`, `AfterManifest`, `AfterReport`) every flag that is not set where its part is there
  has an error in the list, and the reason, where there is one, is the first error. The report has
  no flag, and its errors are fatal only if it is there; that none is listed otherwise, and that
  all that is listed is fatal, is `NothingFatal`. `ResultOk` puts these together. It needs no
  invariant, since `verify_bundle` is a function of the directory, and it breaks with a check that
  clears a flag and lists nothing, or a verdict that looks at the flags alone: the two mutants of
  `CommandsAgree`.
- `BundleTypeCorrect`: a copied log is a prefix of one that may have torn lines, perhaps cut in a line
  (`CopyStops`); all lines but the last still have their newline.
- `BundleRefinement` needs no invariant of the flat files: a pipeline step maps to what it maps to
  in `PipelineProofs` (`PipelineShows`, on more places), and a flat file shows the history of the
  command's own finished run (`ContentHead`), which that run's log still has (`FlatShows`).

**`RunnerProofs`**, assuming `RunnerAssumption` (the constants have their types; capacity and
chunk size are not zero), for all calls, sizes and interleavings:

- `IInv == TypeOK /\ Phases /\ Reaping /\ Accounts /\ Captured /\ ResultIsSound`. `Phases` relates the
  calling thread's pc to the existence of child and readers, and says that a call that gets this
  far was not rejected; `Reaping` says by when the child is reaped, and doomed with its group;
  `Accounts` is the bookkeeping of bytes: the buffer has what was taken out of pipe and chunk, up
  to the limit, and the flag lags by one step; `Captured` relates what main has copied to the
  readers, exactly so if they were joined, at each point between the two copies and the two flags.
- `OutputComplete`, `SoundResult` (of `ResultIsSound`, which is proved only, since the
  refinement says it of the moment of the answer) and `LeavesNothing` follow from it; `VettedRuns` and
  `WiderAccepts` from the definition of `ValidateSource` and from `Phases` (a started script
  was not rejected).
- `ValidateForetells` has an invariant of its own, `Verdict`: a result says why its call was
  rejected, and the reasons of a call that was let through are other ones.
- `Executes`, assuming in addition `AnswerAssumption` (an answer can be told from none): the
  initial states map to those of `Execution`, and each step to one of its steps or a stutter
  (`NextExecutes`). `CalledExecutes` is by `Rejection`, `GivesUp` by `Phases` (no script is there
  yet), `AnswerExecutes` by `Reaping` (the process has ended) and by `ResultIsSound` after the step.

**Only model-checked**: `CallEnds` and `PipeDrains` of the runner, since TLAPS is not used for
liveness and `ENABLED`. What `ComputeResonance` computes is in no property; the seal's properties hold
whatever it is.

## 7. Findings and observations

Findings, each shown by a run that TLC finds violated:

| Run | The code | The documentation |
|---|---|---|
| `audit_reopen` | a second `EventLog` on a file starts from the initial hash; the file does not verify any more (`event_log.py:21`) | `docs/ARCHITECTURE.md:20`, `prev_hash` of event N is `event_hash` of event N-1 |
| `seal_artifact` | the hash covers sampled features, so some changed artifacts verify (`seal.py:90`) | `docs/TECHNICAL_POSITIONING.md:17`, changing a single byte changes the hash |
| `retention_raw` | with no raw file left, cleanup takes every file of the directory (`cli/retention.py:29`), and it takes the artifact of a bundle under a recorded hold, since it looks at its own flag only (`cli/retention.py:34`) | `docs/data-lifecycle.md:37`, deletes raw artifacts by TTL, and none under hold |
| `retention_context` | the report records the keyword arguments, not the context that was evaluated (`orchestrator.py:156`) | `docs/compliance-model.md:20`, with legal_hold the state is held |
| `retention_path` | `json` is unbound in the branch for report paths, and the error is swallowed (`lifecycle.py:106`) | `lifecycle.py:60`, "for a bundle directory or report path" |
| `runner_user` | the temporary directory is made read-only before the script is written into it: only root can run a script under the default posture (`runner_subprocess.py:255`) | `tests/test_execution_hardening.py:96`, a safe script succeeds |

Observations made while modelling, which no run states:

- `verify_bundle` returns early with an error and `reason` None when artifact, seal or a readable
  seal is missing (`verify.py:122-158`), though its docstring (`verify.py:117`) calls `reason`
  the first fatal code.
- `verify_seal` does not compare the stored `h1`, `h2` or config hash with what it recomputes
  and accepts a record without `schema_version` (`seal.py:208`): harmless for the verdict,
  since the hash covers the recomputed values (`VerdictVouches`), but those fields of the
  record say nothing.
- A retention time of `null` in a report makes `retention_status` raise `TypeError`
  (`lifecycle.py:40`); the model has the outcome `"raises"`. It never happens on a bundle that
  policy check allows at strict (`StatusRaisesForewarned`).
- The state the documentation calls "retained" is hardly ever reported: past the raw
  retention time the state is `"expired"` by the same comparison.
- When the *report* is deleted, the lifecycle state may go back, to `"active"` if no
  file is left: `LifecycleMovesForward` therefore speaks of directories that keep theirs.
- Classification alone never forbids an export: the rule (`rules.py:133`) adds a
  second reason only where the sharing restriction already forbids.
- Cleanup looks at a file and deletes it by name. A run that writes the same name in between
  loses a fresh file; `EvidenceOutlivesArtifact` and `ActiveArtifactKept` therefore
  exclude directories where a run and a cleanup overlapped (`overlap`).
- A run that died in the middle of an audit line spoils the log of its run id for good: every later run
  of that id (`"run"`, unless the command line gives another) has its first event joined to the
  fragment, still ends, and writes a seal and a report whose history no reader of the log gets back.
  Its own `verify.json` says that the chain is broken (`event_log.py:36`).
- Sidecar and stub are two files, written one after the other: overlapping runs of one artifact,
  or a death between the two, leave two seals that differ. `docs/TECHNICAL_POSITIONING.md:18`
  calls them copies. Each verifies by itself (`StoredSealsVerify`).
- `read(4096)` blocks until it has 4096 bytes or the pipe is closed, and the result of a
  timeout is copied before the kill closes it: a script that printed less than 4096 bytes and
  then hung is reported with no output. The same happens to a script that ended in time when a
  descendant holds its stdout open; that result is not marked truncated.
- Output of exactly the limit is marked truncated, and makes a good script fail with
  `STDOUT_OVERSIZED`; `docs/REASON_CODES.md:27` says "exceeded".
- A script stopped by its CPU or memory limit gets `RUNTIME_ERROR`, since it shows as an exit
  code; `docs/REASON_CODES.md:22` gives `RESOURCE_LIMIT` for that.
- A process that the script started and that stays in its group is killed after a timeout only;
  one whose script ends in time lives on.
- `hashen exec run --strict-mode` is always rejected: strict mode wants a hash, and the command has
  no flag for one. A mode given inside a posture is not compared with the known ones.
- A script nested so deeply that `ast.parse` raises `RecursionError` or `MemoryError` makes the
  exception leave `run_script` (`validation.py:98` catches `SyntaxError` only).
- A thread that cannot be started would leave the child running (`runner_subprocess.py:114`); the
  model does not have it.
- `verify_ok.json` (`cli/bundle.py:102`) is written when the verdict is good and never removed when
  a later run's is not; `verify_fail.json` says `"ok": true` when the tampered byte is not
  sampled and stays in its bin. No verifier reads either.

## 8. What is not modelled

- **Redaction** (`compliance/redaction.py`, `privacy_tags.py`): pure functions on the data of a
  report that only tests call; they change no state of the program.
- **Script signatures** (`sandbox/signing.py`): one library call that nothing in `src/` makes.
- **Schema loader**: wraps a library; its verdicts are warnings.
- **Utilities**: digests and paths are modelled where they are used.
- **API server**: a placeholder that forwards to `run_pipeline`.
- **Printing commands and argument parsing** (`bundle inspect`, `schema list`, `policy explain`): no
  state.
- **`scripts/normalize_lf.py`**: a developer's tool that rewrites line ends in the repository.
- **The runner on Windows**, the environment it gives the script, and the limits whose effect is
  an exit code.
- **The cache** with entries of another schema version or edited by hand: nothing makes them.
- Called by tests only, and left out: `cache_lookup_with_spotcheck`,
  `is_derived_expired`, `analytics/uncertainty.py`.

## 9. Plan

Written, in this order: `HashChain`, `AuditLog` and their proofs; `Analytics`, `Seal`,
`SealStorage`; `Pipeline`; `Bundle`; `Policy`, `Retention` and their proofs; `Evidence`;
`Validation`, `Runner`, `ExecCommand`, `Execution`; the proofs about `Seal`, `SealStorage`,
`Pipeline`, `Runner`, `Bundle`. Each composes the ones before it as the diagram of section 2
shows.

Open: a composition of `Bundle` and `Retention`, `verify_bundle` of a directory that a cleanup
deletes from. `EvidenceOutlivesArtifact` says which files are left together.
