------------------------------- MODULE Runner -------------------------------
(***************************************************************************)
(* One call of run_script (src/hashen/sandbox/runner_subprocess.py): the   *)
(* calling thread (main), the script's process (child), a process that the *)
(* script may have started (helper), the two pipes, and the two threads    *)
(* that read them.  Output is counted in bytes.                            *)
(*                                                                         *)
(* There is no clock: a wait that has a time limit may end by it at any    *)
(* moment until what it waits for has happened and been noticed.           *)
(***************************************************************************)
EXTENDS Validation

CONSTANTS Call,       \* calls of run_script: see CallType
          MaxWritten, \* bound: bytes written to each pipe
          Capacity,   \* bytes that a pipe holds
          Chunk       \* bytes asked for by one read: 4096 in the code

Stream == {"out", "err"}

\* The reason codes of a result.
Reasons ==
  {"EXECUTION_MODE_UNSUPPORTED", "EXECUTION_DISABLED", "STRICT_MODE_REQUIRES_SCRIPT_HASH",
   "SANDBOX_POLICY_VIOLATION", "SCRIPT_SIGNATURE_INVALID", "RESOURCE_LIMIT",
   "RUNTIME_ERROR", "STDOUT_OVERSIZED", "TIMEOUT"}

Nodes == [kind : NodeKind, name : STRING \cup {None}]

ScriptType ==
  [size : Nat, parse : {"tree", "syntax", "raises"}, count : Nat, nodes : SUBSET Nodes]

PostureType ==
  [mode : STRING, network : BOOLEAN, write : BOOLEAN, spawn : BOOLEAN,
   imports : SUBSET STRING, maxSource : Nat, maxNodes : Nat, maxOutput : Nat,
   maxProcesses : Nat \cup {None}]

\* sha says how script_sha256 compares with the digest of the source; maxStdout
\* and mode are the arguments of that name; root: the user is root.
CallType ==
  [script : ScriptType, posture : PostureType, mode : STRING \cup {None}, strict : BOOLEAN,
   sha : {None, "equal", "different"}, maxStdout : Nat \cup {None}, root : BOOLEAN]

ASSUME RunnerAssumption ==
  /\ None \notin Nat \cup STRING \cup Reasons \cup {"raises"}
  /\ Call \subseteq CallType /\ None \notin Call
  /\ MaxWritten \in [Stream -> Nat]
  /\ Capacity \in Nat \ {0} /\ Chunk \in Nat \ {0}

VARIABLES main,    \* the calling thread
          child,   \* the script's process
          helper,  \* a process started by the script
          written, \* bytes written so far to each pipe
          pipe,    \* bytes in each pipe
          reader   \* the reader thread of each pipe

vars == <<main, child, helper, written, pipe, reader>>

Smaller(a, b) == IF a <= b THEN a ELSE b

-----------------------------------------------------------------------------
(* Before the script is started *)

KnownModes == {"disabled", "restricted_local", "isolated_subprocess", "container_unsupported"}

\* A mode that is given replaces the posture's; one inside a posture is not
\* compared with the known ones.
Mode(call) == IF call.mode # None THEN call.mode ELSE call.posture.mode

\* The early returns of run_script in their order, None when it goes on.
\* (check_policy repeats validate_source on the same source and posture.)
Rejection(call) ==
  LET violations == ValidateSource(call.script, call.posture)
  IN  IF call.mode \notin KnownModes \cup {None}   THEN "EXECUTION_MODE_UNSUPPORTED"
      ELSE IF Mode(call) = "disabled"              THEN "EXECUTION_DISABLED"
      ELSE IF Mode(call) = "container_unsupported" THEN "EXECUTION_MODE_UNSUPPORTED"
      ELSE IF call.strict /\ call.sha = None       THEN "STRICT_MODE_REQUIRES_SCRIPT_HASH"
      ELSE IF violations = {"raises"}              THEN "raises"
      ELSE IF violations # {}                      THEN "SANDBOX_POLICY_VIOLATION"
      ELSE IF call.sha = "different"               THEN "SCRIPT_SIGNATURE_INVALID"
      ELSE None

\* max_out and max_err.
Limit(call, s) ==
  IF s = "out" /\ call.maxStdout # None THEN call.maxStdout ELSE call.posture.maxOutput

-----------------------------------------------------------------------------
(* States *)

\* pc names what the calling thread does next; at "join", "copy" and "flag" it
\* does it for stream.
Ended == {"returned", "raised"}

NoResult == [ok |-> FALSE, reason |-> None, timed |-> FALSE, stdout |-> 0,
             outTrunc |-> FALSE, errTrunc |-> FALSE]

Idle == [pc |-> "idle", call |-> None, timed |-> FALSE, stream |-> "out", joined |-> {},
         copied |-> [s \in Stream |-> 0], flagged |-> [s \in Stream |-> FALSE],
         result |-> NoResult]

NoHelper == [state |-> "none", doomed |-> FALSE, grouped |-> FALSE, holds |-> {}]

Init ==
  /\ main = Idle
  /\ child = [state |-> "none", code |-> 0, doomed |-> FALSE, mayFork |-> FALSE]
  /\ helper = NoHelper
  /\ written = [s \in Stream |-> 0]
  /\ pipe = [s \in Stream |-> 0]
  /\ reader = [s \in Stream |-> [pc |-> "none", held |-> 0, buf |-> 0, flag |-> FALSE]]

-----------------------------------------------------------------------------
(* The calling thread: starting the script *)

Returning(m, result) == [Idle EXCEPT !.pc = "returned", !.call = m.call, !.result = result]

Failed(reason) == [NoResult EXCEPT !.reason = reason]

\* The early returns, or the temporary directory is made next.
Called(call) ==
  /\ main.pc = "idle"
  /\ LET asked  == [main EXCEPT !.call = call]
         reason == Rejection(call)
     IN  main' = CASE reason = None     -> [asked EXCEPT !.pc = "prepare"]
                   [] reason = "raises" -> [asked EXCEPT !.pc = "raised"]
                   [] OTHER             -> Returning(asked, Failed(reason))
  /\ UNCHANGED <<child, helper, written, pipe, reader>>

\* The directory is made, made read-only if the posture denies writes (which may
\* fail, unnoticed), and the source is written into it.
Prepare ==
  /\ main.pc = "prepare"
  /\ main' = [main EXCEPT !.pc = "spawn"]
  /\ UNCHANGED <<child, helper, written, pipe, reader>>

\* In a read-only directory only root can write the source; for any other user
\* the exception leaves run_script.
PrepareRaises ==
  /\ main.pc = "prepare"
  /\ ~main.call.posture.write /\ ~main.call.root
  /\ main' = [main EXCEPT !.pc = "raised"]
  /\ UNCHANGED <<child, helper, written, pipe, reader>>

\* _set_resource_limits, of which only the limit on processes shows here.  It is
\* the last one that is set: one before it may fail, and then it is left out
\* unnoticed.  It does not bind root.
MayFork(limited) ==
  main.call.root \/ ~limited \/ main.call.posture.maxProcesses # 0

\* Popen, and the two reader threads.
Spawn ==
  /\ main.pc = "spawn"
  /\ \E limited \in BOOLEAN :
       child' = [child EXCEPT !.state = "running", !.mayFork = MayFork(limited)]
  /\ reader' = [s \in Stream |-> [reader[s] EXCEPT !.pc = "read"]]
  /\ main' = [main EXCEPT !.pc = "wait"]
  /\ UNCHANGED <<helper, written, pipe>>

\* Popen fails: for want of memory, or otherwise.
SpawnFails ==
  /\ main.pc = "spawn"
  /\ \/ main' = Returning(main, Failed("RESOURCE_LIMIT"))
     \/ main' = [main EXCEPT !.pc = "raised"]
  /\ UNCHANGED <<child, helper, written, pipe, reader>>

-----------------------------------------------------------------------------
(* The calling thread: _communicate_limited *)

\* proc.wait(timeout) notices the end of the script ...
WaitEnds ==
  /\ main.pc = "wait" /\ child.state = "zombie"
  /\ child' = [child EXCEPT !.state = "reaped"]
  /\ main' = [main EXCEPT !.pc = "join"]
  /\ UNCHANGED <<helper, written, pipe, reader>>

\* ... or its time runs out first, even if the script has just ended.
WaitTimesOut ==
  /\ main.pc = "wait"
  /\ main' = [main EXCEPT !.pc = "join", !.timed = TRUE]
  /\ UNCHANGED <<child, helper, written, pipe, reader>>

\* The same again for the other stream, or what comes after both.
Onward(m, next) ==
  IF m.stream = "out" THEN [m EXCEPT !.stream = "err"]
  ELSE [m EXCEPT !.pc = next, !.stream = "out"]

JoinEnds ==
  /\ main.pc = "join" /\ reader[main.stream].pc = "done"
  /\ main' = Onward([main EXCEPT !.joined = @ \cup {main.stream}], "copy")
  /\ UNCHANGED <<child, helper, written, pipe, reader>>

\* A plausible bug: the reader is joined without a time limit.
JoinForever ==
  /\ main.pc = "join" /\ reader[main.stream].pc = "done"
  /\ main' = Onward(main, "copy")
  /\ UNCHANGED <<child, helper, written, pipe, reader>>

JoinTimesOut ==
  /\ main.pc = "join"
  /\ main' = Onward(main, "copy")
  /\ UNCHANGED <<child, helper, written, pipe, reader>>

\* The two buffers are copied, one after the other, then the two flags are
\* read; a reader that was not joined may be at work all the while.
CopyBuffer ==
  /\ main.pc = "copy"
  /\ main' = Onward([main EXCEPT !.copied[main.stream] = reader[main.stream].buf], "flag")
  /\ UNCHANGED <<child, helper, written, pipe, reader>>

ReadFlag ==
  /\ main.pc = "flag"
  /\ main' = Onward([main EXCEPT !.flagged[main.stream] = reader[main.stream].flag],
                    IF main.timed THEN "kill" ELSE "answer")
  /\ UNCHANGED <<child, helper, written, pipe, reader>>

-----------------------------------------------------------------------------
(* The calling thread: the end *)

\* A plausible bug: only the script's own process is killed.
KillChildOnly ==
  /\ main.pc = "kill"
  /\ child' = [child EXCEPT !.doomed = TRUE]
  /\ main' = [main EXCEPT !.pc = "reap"]
  /\ UNCHANGED <<helper, written, pipe, reader>>

\* _kill_process_group: the group exists, as the child is not reaped before.
Kill ==
  /\ main.pc = "kill"
  /\ child' = [child EXCEPT !.doomed = TRUE]
  /\ helper' = [helper EXCEPT !.doomed = helper.grouped]
  /\ main' = [main EXCEPT !.pc = "reap"]
  /\ UNCHANGED <<written, pipe, reader>>

\* The wait for the killed process; when two seconds were not enough it is
\* killed once more and waited for without a limit.
Reap ==
  /\ main.pc \in {"reap", "reapLast"} /\ child.state = "zombie"
  /\ child' = [child EXCEPT !.state = "reaped"]
  /\ main' = [main EXCEPT !.pc = "answer"]
  /\ UNCHANGED <<helper, written, pipe, reader>>

\* A plausible bug: after the second kill the process is not waited for.
ReapGivesUp ==
  /\ main.pc = "reap"
  /\ main' = [main EXCEPT !.pc = "answer"]
  /\ UNCHANGED <<child, helper, written, pipe, reader>>

ReapTimesOut ==
  /\ main.pc = "reap"
  /\ main' = [main EXCEPT !.pc = "reapLast"]
  /\ UNCHANGED <<child, helper, written, pipe, reader>>

\* The reason of a script that ended in time.
EndReason ==
  IF child.code # 0 THEN "RUNTIME_ERROR"
  ELSE IF main.flagged["out"] THEN "STDOUT_OVERSIZED" ELSE None

Answer ==
  /\ main.pc = "answer"
  /\ main' = Returning(main,
       [ok |-> ~main.timed /\ EndReason = None,
        reason |-> IF main.timed THEN "TIMEOUT" ELSE EndReason,
        timed |-> main.timed, stdout |-> main.copied["out"],
        outTrunc |-> main.flagged["out"], errTrunc |-> main.flagged["err"]])
  /\ UNCHANGED <<child, helper, written, pipe, reader>>

-----------------------------------------------------------------------------
(* The reader threads: a daemon thread that outlives its join goes on *)

\* Somebody may still write to the pipe.
Open(s) == child.state = "running" \/ (helper.state = "running" /\ s \in helper.holds)

\* Part of stream.read(Chunk): it returns with Chunk bytes, or at the end.
Fetch(s) ==
  /\ reader[s].pc = "read" /\ pipe[s] > 0
  /\ LET n == Smaller(pipe[s], Chunk - reader[s].held)
     IN  /\ pipe' = [pipe EXCEPT ![s] = @ - n]
         /\ reader' = [reader EXCEPT
              ![s].held = @ + n,
              ![s].pc = IF reader[s].held + n = Chunk THEN "extend" ELSE "read"]
  /\ UNCHANGED <<main, child, helper, written>>

\* At the end of the stream read returns what it has, which may be nothing.
EndOfFile(s) ==
  /\ reader[s].pc = "read" /\ pipe[s] = 0 /\ ~Open(s)
  /\ reader' = [reader EXCEPT ![s].pc = IF reader[s].held > 0 THEN "extend" ELSE "done"]
  /\ UNCHANGED <<main, child, helper, written, pipe>>

\* A plausible bug: the chunk is not cut to what the limit leaves.
ExtendUncut(s) ==
  /\ reader[s].pc = "extend"
  /\ reader' = [reader EXCEPT
       ![s].buf = IF @ < Limit(main.call, s) THEN @ + reader[s].held ELSE @,
       ![s].held = 0, ![s].pc = "flag"]
  /\ UNCHANGED <<main, child, helper, written, pipe>>

\* A plausible bug: the chunk is kept and read into.
ExtendKeepsChunk(s) ==
  /\ reader[s].pc = "extend"
  /\ reader' = [reader EXCEPT
       ![s].buf = IF @ < Limit(main.call, s)
                    THEN Smaller(@ + reader[s].held, Limit(main.call, s)) ELSE @,
       ![s].pc = "flag"]
  /\ UNCHANGED <<main, child, helper, written, pipe>>

\* What the limit leaves of the chunk goes into the buffer.
Extend(s) ==
  /\ reader[s].pc = "extend"
  /\ reader' = [reader EXCEPT
       ![s].buf = IF @ < Limit(main.call, s)
                    THEN Smaller(@ + reader[s].held, Limit(main.call, s)) ELSE @,
       ![s].held = 0, ![s].pc = "flag"]
  /\ UNCHANGED <<main, child, helper, written, pipe>>

\* A plausible bug: the reader ends when the buffer is full.
SetFlagAndStop(s) ==
  /\ reader[s].pc = "flag"
  /\ LET full == reader[s].buf >= Limit(main.call, s)
     IN  reader' = [reader EXCEPT ![s].flag = @ \/ full,
                                  ![s].pc = IF full THEN "done" ELSE "read"]
  /\ UNCHANGED <<main, child, helper, written, pipe>>

\* A plausible bug: the comparison is off by one.
SetFlagEarly(s) ==
  /\ reader[s].pc = "flag"
  /\ reader' = [reader EXCEPT ![s].flag = @ \/ reader[s].buf + 1 >= Limit(main.call, s),
                              ![s].pc = "read"]
  /\ UNCHANGED <<main, child, helper, written, pipe>>

\* A full buffer sets the flag; the reader goes on draining the pipe.
SetFlag(s) ==
  /\ reader[s].pc = "flag"
  /\ reader' = [reader EXCEPT ![s].flag = @ \/ reader[s].buf >= Limit(main.call, s),
                              ![s].pc = "read"]
  /\ UNCHANGED <<main, child, helper, written, pipe>>

-----------------------------------------------------------------------------
(* The script's processes, which do what they like *)

Write(s) ==
  /\ Open(s)
  /\ pipe[s] < Capacity /\ written[s] < MaxWritten[s]
  /\ pipe' = [pipe EXCEPT ![s] = @ + 1]
  /\ written' = [written EXCEPT ![s] = @ + 1]
  /\ UNCHANGED <<main, child, helper, reader>>

\* The helper may stay in the process group or leave it, and keeps what it
\* likes of the script's output open.
Fork ==
  /\ child.state = "running" /\ child.mayFork /\ ~child.doomed
  /\ helper.state = "none"
  /\ \E grouped \in BOOLEAN, holds \in SUBSET Stream :
       helper' = [helper EXCEPT !.state = "running", !.grouped = grouped, !.holds = holds]
  /\ UNCHANGED <<main, child, written, pipe, reader>>

\* Code 1 stands for every other than 0: an exception, a signal, a limit.
Exit ==
  /\ child.state = "running" /\ ~child.doomed
  /\ \E code \in {0, 1} : child' = [child EXCEPT !.state = "zombie", !.code = code]
  /\ UNCHANGED <<main, helper, written, pipe, reader>>

\* The signal takes effect.
ChildDies ==
  /\ child.state = "running" /\ child.doomed
  /\ child' = [child EXCEPT !.state = "zombie", !.code = 1]
  /\ UNCHANGED <<main, helper, written, pipe, reader>>

HelperEnds ==
  /\ helper.state = "running"
  /\ helper' = [NoHelper EXCEPT !.state = "gone"]
  /\ UNCHANGED <<main, child, written, pipe, reader>>

-----------------------------------------------------------------------------

MainStep ==
  \/ Prepare \/ PrepareRaises \/ Spawn \/ SpawnFails
  \/ WaitEnds \/ WaitTimesOut
  \/ JoinEnds \/ JoinTimesOut \/ CopyBuffer \/ ReadFlag
  \/ Kill \/ Reap \/ ReapTimesOut \/ Answer

ReaderStep(s) == Fetch(s) \/ EndOfFile(s) \/ Extend(s) \/ SetFlag(s)

ScriptStep ==
  \/ \E s \in Stream : Write(s)
  \/ Fork \/ Exit \/ HelperEnds

Next ==
  \/ \E call \in Call : Called(call)
  \/ MainStep
  \/ \E s \in Stream : ReaderStep(s)
  \/ ChildDies
  \/ ScriptStep

\* Threads are scheduled, waits with a time limit end, and a killed process
\* dies; of the script nothing is assumed.
Fairness ==
  /\ WF_vars(MainStep)
  /\ \A s \in Stream : WF_vars(ReaderStep(s))
  /\ WF_vars(ChildDies)

Spec == Init /\ [][Next]_vars

FairSpec == Spec /\ Fairness

-----------------------------------------------------------------------------
(* Types *)

ResultType ==
  [ok : BOOLEAN, reason : Reasons \cup {None}, timed : BOOLEAN, stdout : Nat,
   outTrunc : BOOLEAN, errTrunc : BOOLEAN]

MainType ==
  [pc : {"idle", "prepare", "spawn", "wait", "join", "copy", "flag", "kill", "reap",
         "reapLast", "answer"} \cup Ended,
   call : Call \cup {None}, timed : BOOLEAN, stream : Stream, joined : SUBSET Stream,
   copied : [Stream -> Nat], flagged : [Stream -> BOOLEAN],
   result : ResultType]

ReaderType ==
  [pc : {"none", "read", "extend", "flag", "done"}, held : 0..Chunk, buf : Nat,
   flag : BOOLEAN]

\* Every variable has its type; a pipe, a chunk and a buffer never have more
\* between them than was written.
TypeOK ==
  /\ main \in MainType
  /\ child \in [state : {"none", "running", "zombie", "reaped"}, code : {0, 1},
                doomed : BOOLEAN, mayFork : BOOLEAN]
  /\ helper \in [state : {"none", "running", "gone"}, doomed : BOOLEAN,
                 grouped : BOOLEAN, holds : SUBSET Stream]
  /\ written \in [Stream -> Nat] /\ pipe \in [Stream -> Nat]
  /\ reader \in [Stream -> ReaderType]
  /\ main.pc = "idle" <=> main.call = None
  /\ \A s \in Stream : pipe[s] <= Capacity /\ pipe[s] + reader[s].held + reader[s].buf <= written[s]

-----------------------------------------------------------------------------
(* Properties *)

Started == child.state # "none"

\* Whatever the posture allows and the arguments ask for, a script that is
\* started parses, is within the limits, uses nothing that is always denied
\* (constants.py: "even if added to an allowlist") or not allowed by this
\* posture, and has the hash that was given, if strict or if one was.
OnlyVettedRuns ==
  Started =>
    LET call == main.call
        used == Imports(call.script)
    IN  /\ call.script.parse = "tree"
        /\ call.script.size <= call.posture.maxSource
        /\ call.script.count <= call.posture.maxNodes
        /\ used \subseteq call.posture.imports \ DenylistImports
        /\ call.posture.network \/ used \cap NetworkImports = {}
        /\ call.posture.write \/ used \cap FsImports = {}
        /\ call.posture.spawn \/ used \cap SubprocessImports = {}
        /\ \A node \in call.script.nodes :
             /\ ~(node.kind = "call" /\ node.name \in BlockedCallNames)
             /\ ~(node.kind \in {"attr", "name"} /\ node.name \in Dunder)
        /\ call.sha \in {"equal"} \cup (IF call.strict THEN {} ELSE {None})

\* The permissions and limits of a posture that another one has too.
Wider(a, b) ==
  /\ b.network => a.network
  /\ b.write => a.write
  /\ b.spawn => a.spawn
  /\ b.imports \subseteq a.imports
  /\ b.maxSource <= a.maxSource
  /\ b.maxNodes <= a.maxNodes

Postures == {call.posture : call \in Call}

\* A permission that is added never makes validation reject what it let through.
WiderPostureAccepts ==
  Started => \A other \in Postures :
    Wider(other, main.call.posture) => ValidateSource(main.call.script, other) = {}

\* What is in the buffer of a reader that was joined is the script's output, up
\* to the limit and complete below it, and the flag says whether the limit was
\* reached: no byte is lost or counted twice on the way through pipe and chunks.
JoinedOutputComplete ==
  main.pc \in {"kill", "reap", "reapLast", "answer"} =>
    \A s \in main.joined :
      /\ main.copied[s] = Smaller(written[s], Limit(main.call, s))
      /\ main.flagged[s] <=> written[s] > 0 /\ written[s] >= Limit(main.call, s)

\* The output in a result is not more than was written nor than the limit, and a
\* truncation flag is never a false alarm: that much was written.
OutputTold(call, output, result) ==
  /\ result.stdout <= Smaller(output["out"], Limit(call, "out"))
  /\ result.outTrunc => output["out"] >= Limit(call, "out")
  /\ result.errTrunc => output["err"] >= Limit(call, "err")

\* Joined or not, copied at whatever moment: that holds of each result.
ResultIsSound ==
  main.pc = "returned" /\ Started =>
    /\ OutputTold(main.call, written, main.result)
    /\ main.result.ok => child.code = 0

\* When run_script returns, the script's process is gone and reaped, and after a
\* timeout each process still in its group has been sent the signal, also
\* when the script had ended just before.
NothingLeftBehind ==
  main.pc = "returned" /\ Started =>
    /\ child.state = "reaped"
    /\ main.result.timed /\ helper.grouped => helper.state = "gone" \/ helper.doomed

\* Every call ends, whatever the script and its descendants do: run for ever,
\* keep the pipes open, fill them.
CallEnds == main.pc # "idle" ~> main.pc \in Ended

\* A full pipe is always emptied again, also past the limit: the script is never
\* stuck because nobody reads ("continue draining", runner_subprocess.py:102).
PipeDrains == \A s \in Stream : pipe[s] = Capacity ~> pipe[s] < Capacity

-----------------------------------------------------------------------------
(* What the call amounts to for its caller: Execution *)

\* An answer can be told from none.
ASSUME AnswerAssumption == None \notin [raised : BOOLEAN, result : ResultType]

ProcessOf(c) ==
  CASE c.state = "none"                 -> "none"
    [] c.state = "running"              -> "running"
    [] c.state \in {"zombie", "reaped"} -> IF c.code = 0 THEN "succeeded" ELSE "failed"

AnswerOf(m) ==
  IF m.pc \in Ended THEN [raised |-> m.pc = "raised", result |-> m.result] ELSE None

X == INSTANCE Execution WITH
  Result <- ResultType, Refusal <- Rejection, Honest <- OutputTold,
  call <- main.call, process <- ProcessOf(child), produced <- written,
  answer <- AnswerOf(main)

\* However threads, script and timeouts race: the call is answered once and for all,
\* no script is started for one that is refused, none after the answer, and none is
\* still at work at the answer; no result is better than its script's end, nor has it
\* output or a truncation that was not there when it was given.
ImplementsExecution == X!Spec

-----------------------------------------------------------------------------
(* A claim of the tests that the code keeps for root only *)

\* tests/test_execution_hardening.py:96, test_runner_safe_script_succeeds: print("ok")
\* is run under the default posture.  So a script that was let through can be
\* written to its directory.
SafeScriptIsWritten ==
  [][main.pc = "prepare" => main'.pc \in {"prepare", "spawn"}]_vars
=============================================================================
