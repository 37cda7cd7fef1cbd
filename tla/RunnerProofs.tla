----------------------------- MODULE RunnerProofs -----------------------------
(***************************************************************************)
(* Proofs about Runner and ExecCommand, for any calls, limits, pipe and    *)
(* chunk sizes.                                                            *)
(***************************************************************************)
EXTENDS ExecCommand, TLAPS

-----------------------------------------------------------------------------
(* What validation lets through *)

\* A script without violations and within the limits uses nothing that is denied
\* always, or by its posture.
LEMMA NoViolation ==
  ASSUME NEW script \in ScriptType, NEW posture \in PostureType,
         ValidateSource(script, posture) = {}
  PROVE  /\ script.parse = "tree"
         /\ script.size <= posture.maxSource /\ script.count <= posture.maxNodes
         /\ \A name \in Imports(script) :
              ImportListViolations(name, posture) = {} /\ PermissionViolations(name, posture) = {}
         /\ \A node \in script.nodes : NodeViolations(node) = {}
<1>1. script.size \in Nat /\ posture.maxSource \in Nat
      /\ script.count \in Nat /\ posture.maxNodes \in Nat
      /\ script.parse \in {"tree", "syntax", "raises"}
  BY DEF ScriptType, PostureType
<1>2. script.size <= posture.maxSource
  BY <1>1 DEF ValidateSource
<1>3. script.parse = "tree"
  BY <1>1, <1>2 DEF ValidateSource
<1>4. script.count <= posture.maxNodes
  BY <1>1, <1>2, <1>3 DEF ValidateSource
<1> DEFINE OfImports == UNION {ImportListViolations(name, posture) \cup PermissionViolations(name, posture)
                                 : name \in Imports(script)}
           OfNodes == UNION {NodeViolations(node) : node \in script.nodes}
<1>5. OfImports = {} /\ OfNodes = {}
  <2>1. OfImports \cup OfNodes = {}
    BY <1>1, <1>2, <1>3, <1>4 DEF ValidateSource
  <2> HIDE DEF OfImports, OfNodes
  <2>2. QED BY <2>1
<1>6. \A name \in Imports(script) :
        ImportListViolations(name, posture) \cup PermissionViolations(name, posture) = {}
  BY <1>5
<1>7. \A node \in script.nodes : NodeViolations(node) = {}
  BY <1>5
<1>8. \A name \in Imports(script) :
        ImportListViolations(name, posture) = {} /\ PermissionViolations(name, posture) = {}
  BY <1>6
<1>9. QED BY <1>2, <1>3, <1>4, <1>7, <1>8

LEMMA Vetted ==
  ASSUME NEW script \in ScriptType, NEW posture \in PostureType,
         ValidateSource(script, posture) = {}
  PROVE  /\ Imports(script) \subseteq posture.imports \ DenylistImports
         /\ posture.network \/ Imports(script) \cap NetworkImports = {}
         /\ posture.write \/ Imports(script) \cap FsImports = {}
         /\ posture.spawn \/ Imports(script) \cap SubprocessImports = {}
         /\ \A node \in script.nodes :
              /\ ~(node.kind = "call" /\ node.name \in BlockedCallNames)
              /\ ~(node.kind \in {"attr", "name"} /\ node.name \in Dunder)
<1>1. \A name \in Imports(script) :
        ImportListViolations(name, posture) = {} /\ PermissionViolations(name, posture) = {}
  BY NoViolation
<1>2. \A node \in script.nodes : NodeViolations(node) = {}
  BY NoViolation
<1>3. \A name \in Imports(script) : name \notin DenylistImports /\ name \in posture.imports
  BY <1>1 DEF ImportListViolations, Found
<1>4. \A name \in Imports(script) :
        /\ posture.network \/ name \notin NetworkImports
        /\ posture.write \/ name \notin FsImports
        /\ posture.spawn \/ name \notin SubprocessImports
  BY <1>1 DEF PermissionViolations, Found
<1>5. \A node \in script.nodes :
        /\ ~(node.kind = "call" /\ node.name \in BlockedCallNames)
        /\ ~(node.kind \in {"attr", "name"} /\ node.name \in Dunder)
  BY <1>2 DEF NodeViolations, Found
<1>6. QED BY <1>3, <1>4, <1>5

\* Widening a posture keeps what was let through.
LEMMA WidePosture ==
  ASSUME NEW script \in ScriptType, NEW posture \in PostureType, NEW other \in PostureType,
         Wider(other, posture), ValidateSource(script, posture) = {}
  PROVE  ValidateSource(script, other) = {}
<1>1. script.size \in Nat /\ posture.maxSource \in Nat /\ other.maxSource \in Nat
      /\ script.count \in Nat /\ posture.maxNodes \in Nat /\ other.maxNodes \in Nat
  BY DEF ScriptType, PostureType
<1>2. /\ script.parse = "tree"
      /\ script.size <= other.maxSource /\ script.count <= other.maxNodes
  BY <1>1, NoViolation DEF Wider
<1>3. \A name \in Imports(script) :
        ImportListViolations(name, other) = {} /\ PermissionViolations(name, other) = {}
  BY NoViolation DEF Wider, ImportListViolations, PermissionViolations, Found
<1>4. \A node \in script.nodes : NodeViolations(node) = {}
  BY NoViolation
<1>5. (UNION {ImportListViolations(name, other) \cup PermissionViolations(name, other)
                : name \in Imports(script)})
      \cup (UNION {NodeViolations(node) : node \in script.nodes}) = {}
  BY <1>3, <1>4
<1>6. QED BY <1>1, <1>2, <1>5 DEF ValidateSource

\* A call that is not rejected has a script without violations, and the hash.
LEMMA NotRejected ==
  ASSUME NEW call \in Call, Rejection(call) = None
  PROVE  /\ ValidateSource(call.script, call.posture) = {}
         /\ call.sha \in {"equal"} \cup (IF call.strict THEN {} ELSE {None})
<1>1. /\ None # "EXECUTION_MODE_UNSUPPORTED" /\ None # "EXECUTION_DISABLED"
      /\ None # "STRICT_MODE_REQUIRES_SCRIPT_HASH" /\ None # "raises"
      /\ None # "SANDBOX_POLICY_VIOLATION" /\ None # "SCRIPT_SIGNATURE_INVALID"
  BY RunnerAssumption DEF Reasons
<1>2. call.sha \in {None, "equal", "different"}
  BY RunnerAssumption DEF CallType
<1>3. ValidateSource(call.script, call.posture) = {}
  BY <1>1 DEF Rejection
<1>4. call.sha # "different"
  BY <1>1 DEF Rejection
<1>5. call.strict => call.sha # None
  BY <1>1 DEF Rejection
<1>6. QED BY <1>2, <1>3, <1>4, <1>5

-----------------------------------------------------------------------------
(* The inductive invariant *)

\* The script exists once its call was let through, and has its readers.
Phases ==
  /\ main.pc \in {"idle", "prepare", "spawn", "raised"} => child.state = "none"
  /\ main.pc \in {"wait", "join", "copy", "flag", "kill", "reap", "reapLast", "answer"}
       => child.state # "none"
  /\ main.pc \in {"prepare", "spawn"} \/ Started => Rejection(main.call) = None
  /\ Started => main.pc # "idle"
  /\ ~Started => helper.state = "none"
  /\ \A s \in Stream : reader[s].pc = "none" <=> ~Started

\* The script is reaped before the answer, and killed with its group before that
\* if its time ran out.
Reaping ==
  /\ main.pc \in {"idle", "prepare", "spawn", "wait"} => ~main.timed
  /\ main.pc \in {"kill", "reap", "reapLast"} => main.timed
  /\ main.pc \in {"join", "copy", "flag"} /\ ~main.timed => child.state = "reaped"
  /\ main.pc = "answer" => child.state = "reaped"
  /\ main.pc = "returned" /\ Started => child.state = "reaped"
  /\ main.pc \in {"reap", "reapLast", "answer"} /\ main.timed => child.doomed
  /\ main.pc = "returned" /\ Started /\ main.result.timed => child.doomed
  /\ child.doomed /\ helper.grouped => helper.doomed

\* What the reader of a stream has taken and put where it belongs.
Drained(s) == written[s] - pipe[s] - reader[s].held

Full(s) == Drained(s) > 0 /\ Drained(s) >= Limit(main.call, s)

\* The buffer has what was drained, up to the limit; the flag lags by one step.
Accounts(s) ==
  /\ Started => reader[s].buf = Smaller(Drained(s), Limit(main.call, s))
  /\ ~Started => written[s] = 0 /\ pipe[s] = 0 /\ reader[s].held = 0
                   /\ reader[s].buf = 0 /\ ~reader[s].flag
  /\ reader[s].pc = "extend" => reader[s].held > 0
  /\ reader[s].pc = "flag" => /\ reader[s].held = 0 /\ Drained(s) > 0
                              /\ reader[s].flag => Full(s)
  /\ reader[s].pc \in {"read", "extend", "done"} => (reader[s].flag <=> Full(s))
  /\ reader[s].pc = "done" => reader[s].held = 0 /\ pipe[s] = 0 /\ ~Open(s)

\* The calling thread has looked at the buffer, and at the flag, of s.
CopyDone(s) ==
  \/ main.pc \in {"flag", "kill", "reap", "reapLast", "answer"}
  \/ main.pc = "copy" /\ main.stream = "err" /\ s = "out"

FlagDone(s) ==
  \/ main.pc \in {"kill", "reap", "reapLast", "answer"}
  \/ main.pc = "flag" /\ main.stream = "err" /\ s = "out"

\* What it found there is still true, and exact if the reader had ended.
Captured(s) ==
  /\ main.copied[s] <= reader[s].buf
  /\ main.flagged[s] => reader[s].flag
  /\ s \in main.joined => reader[s].pc = "done"
  /\ s \in main.joined /\ CopyDone(s) => main.copied[s] = reader[s].buf
  /\ s \in main.joined /\ FlagDone(s) => (main.flagged[s] <=> reader[s].flag)
  /\ main.pc \in {"idle", "prepare", "spawn", "wait"} => s \notin main.joined

IInv ==
  /\ TypeOK
  /\ Phases
  /\ Reaping
  /\ \A s \in Stream : Accounts(s)
  /\ \A s \in Stream : Captured(s)
  /\ ResultIsSound

-----------------------------------------------------------------------------
(* Types *)

\* A limit is a number.
LEMMA LimitType ==
  ASSUME NEW call \in Call, NEW s \in Stream
  PROVE  Limit(call, s) \in Nat
BY RunnerAssumption DEF Limit, CallType, PostureType

LEMMA RejectionType ==
  ASSUME NEW call
  PROVE  Rejection(call) \in Reasons \cup {None, "raises"}
BY DEF Rejection, Reasons

\* The parts of TypeOK.
MainOK == main \in MainType /\ (main.pc = "idle" <=> main.call = None)

ChildOK ==
  child \in [state : {"none", "running", "zombie", "reaped"}, code : {0, 1},
             doomed : BOOLEAN, mayFork : BOOLEAN]

HelperOK ==
  helper \in [state : {"none", "running", "gone"}, doomed : BOOLEAN,
              grouped : BOOLEAN, holds : SUBSET Stream]

StreamsOK ==
  /\ written \in [Stream -> Nat] /\ pipe \in [Stream -> Nat]
  /\ reader \in [Stream -> ReaderType]
  /\ \A s \in Stream : pipe[s] <= Capacity /\ pipe[s] + reader[s].held + reader[s].buf <= written[s]

LEMMA TypeParts == TypeOK <=> MainOK /\ ChildOK /\ HelperOK /\ StreamsOK
BY DEF TypeOK, MainOK, ChildOK, HelperOK, StreamsOK

LEMMA TypeInit == Init => TypeOK
BY RunnerAssumption DEF Init, Idle, NoHelper, NoResult, TypeOK, MainType, ResultType, ReaderType, Stream, Ended, Reasons

\* A step of the calling thread that changes nothing else.
MainAlone == UNCHANGED <<child, helper, written, pipe, reader>>

LEMMA MainAloneType ==
  ASSUME TypeOK, MainAlone, MainOK'
  PROVE  TypeOK'
<1>1. ChildOK' /\ HelperOK' /\ StreamsOK'
  BY TypeParts DEF MainAlone, ChildOK, HelperOK, StreamsOK
<1>2. TypeOK' <=> MainOK' /\ ChildOK' /\ HelperOK' /\ StreamsOK'
  BY DEF TypeOK, MainOK, ChildOK, HelperOK, StreamsOK
<1>3. QED BY <1>1, <1>2

LEMMA ReturningType ==
  ASSUME NEW m, m.call \in Call, NEW result \in ResultType
  PROVE  /\ Returning(m, result) \in MainType
         /\ Returning(m, result).pc = "returned" /\ Returning(m, result).call = m.call
         /\ Returning(m, result).result = result
<1>1. Idle \in MainType
  BY DEF Idle, NoResult, MainType, ResultType, Stream
<1>2. Returning(m, result) = [Idle EXCEPT !.pc = "returned", !.call = m.call, !.result = result]
  BY DEF Returning
<1>3. QED BY <1>1, <1>2 DEF MainType, Ended

LEMMA FailedType ==
  ASSUME NEW reason \in Reasons
  PROVE  Failed(reason) \in ResultType
BY DEF Failed, NoResult, ResultType

LEMMA MainStepType ==
  ASSUME TypeOK, Phases, \/ \E call \in Call : Called(call)
                        \/ MainStep
  PROVE  TypeOK'
<1> USE TypeParts DEF MainOK, MainType, Ended
<1>1. None \notin Call
  BY RunnerAssumption
<1>2. ASSUME NEW call \in Call, Called(call) PROVE TypeOK'
  <2>1. main.pc = "idle"
    BY <1>2 DEF Called
  <2>2. Rejection(call) \in Reasons \cup {None, "raises"}
    BY RejectionType
  <2>3. MainOK'
    <3> DEFINE asked == [main EXCEPT !.call = call]
    <3>1. CASE Rejection(call) \in {None, "raises"}
      <4>1. main' \in {[asked EXCEPT !.pc = "prepare"], [asked EXCEPT !.pc = "raised"]}
        BY <1>2, <3>1, RunnerAssumption DEF Called
      <4>2. QED BY <1>1, <4>1
    <3>2. CASE Rejection(call) \notin {None, "raises"}
      <4>1. main' = Returning(asked, Failed(Rejection(call)))
        BY <1>2, <3>2 DEF Called
      <4>2. asked.call = call
        OBVIOUS
      <4>3. QED BY <1>1, <2>2, <3>2, <4>1, <4>2, ReturningType, FailedType
    <3>3. QED BY <3>1, <3>2
  <2>4. QED BY <1>2, <2>3, MainAloneType DEF Called, MainAlone
<1>3. CASE Prepare
  <2>1. MainOK'
    BY <1>3, <1>1 DEF Prepare, Stream, StreamsOK, ReaderType
  <2>2. QED BY <1>3, <2>1, MainAloneType DEF Prepare, MainAlone
<1>4. CASE PrepareRaises
  <2>1. MainOK'
    BY <1>4, <1>1 DEF PrepareRaises, Stream, StreamsOK, ReaderType
  <2>2. QED BY <1>4, <2>1, MainAloneType DEF PrepareRaises, MainAlone
<1>5. CASE SpawnFails
  <2>1. MainOK'
    <3>1. main.call \in Call
      BY <1>5 DEF SpawnFails
    <3>2. CASE main' = Returning(main, Failed("RESOURCE_LIMIT"))
      <4>1. Failed("RESOURCE_LIMIT") \in ResultType
        BY FailedType DEF Reasons
      <4>2. QED BY <1>1, <3>1, <3>2, <4>1, ReturningType
    <3>3. CASE main' = [main EXCEPT !.pc = "raised"]
      BY <3>1, <3>3, <1>1
    <3>4. QED BY <1>5, <3>2, <3>3 DEF SpawnFails
  <2>2. QED BY <1>5, <2>1, MainAloneType DEF SpawnFails, MainAlone
<1>6. CASE WaitTimesOut
  <2>1. MainOK'
    BY <1>6, <1>1 DEF WaitTimesOut, Stream, StreamsOK, ReaderType
  <2>2. QED BY <1>6, <2>1, MainAloneType DEF WaitTimesOut, MainAlone
<1>7. CASE JoinEnds
  <2>1. MainOK'
    BY <1>7, <1>1 DEF JoinEnds, Onward, Stream, StreamsOK, ReaderType
  <2>2. QED BY <1>7, <2>1, MainAloneType DEF JoinEnds, MainAlone
<1>8. CASE JoinTimesOut
  <2>1. MainOK'
    BY <1>8, <1>1 DEF JoinTimesOut, Onward, Stream, StreamsOK, ReaderType
  <2>2. QED BY <1>8, <2>1, MainAloneType DEF JoinTimesOut, MainAlone
<1>9. CASE CopyBuffer
  <2>1. MainOK'
    BY <1>9, <1>1 DEF CopyBuffer, Onward, Stream, StreamsOK, ReaderType
  <2>2. QED BY <1>9, <2>1, MainAloneType DEF CopyBuffer, MainAlone
<1>10. CASE ReadFlag
  <2>1. MainOK'
    BY <1>10, <1>1 DEF ReadFlag, Onward, Stream, StreamsOK, ReaderType
  <2>2. QED BY <1>10, <2>1, MainAloneType DEF ReadFlag, MainAlone
<1>11. CASE ReapTimesOut
  <2>1. MainOK'
    BY <1>11, <1>1 DEF ReapTimesOut, Stream, StreamsOK, ReaderType
  <2>2. QED BY <1>11, <2>1, MainAloneType DEF ReapTimesOut, MainAlone
<1>12. CASE Answer
  <2>1. MainOK'
    <3>1. main.call \in Call
      BY <1>12 DEF Answer
    <3>2. EndReason \in Reasons \cup {None}
      BY DEF EndReason, Reasons
    <3>3. [ok |-> ~main.timed /\ EndReason = None,
           reason |-> IF main.timed THEN "TIMEOUT" ELSE EndReason,
           timed |-> main.timed, stdout |-> main.copied["out"],
           outTrunc |-> main.flagged["out"], errTrunc |-> main.flagged["err"]] \in ResultType
      BY <3>2 DEF ResultType, Reasons, Stream
    <3>4. QED BY <1>1, <1>12, <3>1, <3>3, ReturningType DEF Answer
  <2>2. QED BY <1>12, <2>1, MainAloneType DEF Answer, MainAlone
<1>13. CASE Spawn
  <2>1. MainOK'
    BY <1>13 DEF Spawn
  <2>2. ChildOK'
    BY <1>13 DEF Spawn, MayFork, ChildOK
  <2>3. HelperOK'
    BY <1>13 DEF Spawn, HelperOK
  <2>4. StreamsOK'
    <3>1. \A s \in Stream : reader[s] \in ReaderType
      BY DEF StreamsOK
    <3>2. ASSUME NEW s \in Stream
          PROVE  /\ reader'[s] \in ReaderType
                 /\ reader'[s].held = reader[s].held /\ reader'[s].buf = reader[s].buf
      <4>1. reader'[s] = [reader[s] EXCEPT !.pc = "read"]
        BY <1>13 DEF Spawn
      <4>2. QED BY <3>1, <4>1 DEF ReaderType
    <3>3. QED BY <1>13, <3>1, <3>2 DEF Spawn, StreamsOK
  <2>5. QED BY <2>1, <2>2, <2>3, <2>4 DEF TypeOK, ChildOK, HelperOK, StreamsOK
<1>14. CASE WaitEnds
  <2>1. MainOK'
    BY <1>14 DEF WaitEnds
  <2>2. ChildOK'
    BY <1>14 DEF WaitEnds, ChildOK
  <2>3. HelperOK'
    BY <1>14 DEF WaitEnds, HelperOK
  <2>4. StreamsOK'
    BY <1>14 DEF WaitEnds, StreamsOK, ReaderType
  <2>5. QED BY <2>1, <2>2, <2>3, <2>4 DEF TypeOK, ChildOK, HelperOK, StreamsOK
<1>15. CASE Kill
  <2>1. MainOK'
    BY <1>15 DEF Kill
  <2>2. ChildOK'
    BY <1>15 DEF Kill, ChildOK
  <2>3. HelperOK'
    BY <1>15 DEF Kill, HelperOK
  <2>4. StreamsOK'
    BY <1>15 DEF Kill, StreamsOK, ReaderType
  <2>5. QED BY <2>1, <2>2, <2>3, <2>4 DEF TypeOK, ChildOK, HelperOK, StreamsOK
<1>16. CASE Reap
  <2>1. MainOK'
    BY <1>16 DEF Reap
  <2>2. ChildOK'
    BY <1>16 DEF Reap, ChildOK
  <2>3. HelperOK'
    BY <1>16 DEF Reap, HelperOK
  <2>4. StreamsOK'
    BY <1>16 DEF Reap, StreamsOK, ReaderType
  <2>5. QED BY <2>1, <2>2, <2>3, <2>4 DEF TypeOK, ChildOK, HelperOK, StreamsOK
<1>17. QED
  BY <1>2, <1>3, <1>4, <1>5, <1>6, <1>7, <1>8, <1>9, <1>10, <1>11, <1>12, <1>13, <1>14, <1>15, <1>16 DEF MainStep

LEMMA ReaderStepType ==
  ASSUME TypeOK, Phases, NEW s \in Stream, ReaderStep(s)
  PROVE  TypeOK'
<1> USE TypeParts
<1>1. MainOK' /\ ChildOK' /\ HelperOK'
  BY DEF ReaderStep, Fetch, EndOfFile, Extend, SetFlag, MainOK, ChildOK, HelperOK
<1>2. /\ written[s] \in Nat /\ pipe[s] \in Nat /\ Chunk \in Nat
      /\ reader[s].pc \in {"none", "read", "extend", "flag", "done"}
      /\ reader[s].held \in 0..Chunk /\ reader[s].buf \in Nat /\ reader[s].flag \in BOOLEAN
      /\ reader[s].pc # "none" => Limit(main.call, s) \in Nat
  BY RunnerAssumption, LimitType DEF StreamsOK, ReaderType, Phases, Started, MainOK, MainType
<1>3. StreamsOK'
  <2>1. CASE Fetch(s)
    <3> DEFINE n == Smaller(pipe[s], Chunk - reader[s].held)
    <3>1. n \in Nat /\ n <= pipe[s] /\ reader[s].held + n <= Chunk
      BY <1>2 DEF Smaller
    <3> HIDE DEF n
    <3>2. /\ pipe' = [pipe EXCEPT ![s] = @ - n]
          /\ reader' = [reader EXCEPT ![s].held = @ + n,
                          ![s].pc = IF reader[s].held + n = Chunk THEN "extend" ELSE "read"]
          /\ written' = written
      BY <2>1 DEF Fetch, n
    <3>3. reader'[s] = [reader[s] EXCEPT !.held = @ + n,
                          !.pc = IF reader[s].held + n = Chunk THEN "extend" ELSE "read"]
          /\ \A t \in Stream \ {s} : reader'[t] = reader[t]
      BY <3>2 DEF StreamsOK
    <3>4. /\ reader'[s] \in ReaderType /\ reader'[s].held = reader[s].held + n
          /\ reader'[s].buf = reader[s].buf
      <4>1. reader[s] \in ReaderType /\ reader[s].held + n \in 0..Chunk
        BY <1>2, <3>1 DEF StreamsOK
      <4>2. QED BY <1>2, <3>3, <4>1 DEF ReaderType
    <3>5. reader' \in [Stream -> ReaderType] /\ pipe' \in [Stream -> Nat]
      BY <1>2, <3>1, <3>2, <3>3, <3>4 DEF StreamsOK
    <3>6. /\ pipe'[s] = pipe[s] - n
          /\ \A t \in Stream \ {s} : pipe'[t] = pipe[t]
      BY <3>2 DEF StreamsOK
    <3>7. ASSUME NEW t \in Stream
          PROVE  pipe'[t] <= Capacity /\ pipe'[t] + reader'[t].held + reader'[t].buf <= written'[t]
      <4>1. CASE t = s
        BY <1>2, <3>1, <3>2, <3>4, <3>6, <4>1, RunnerAssumption DEF StreamsOK
      <4>2. CASE t # s
        BY <3>2, <3>3, <3>6, <4>2 DEF StreamsOK
      <4>3. QED BY <4>1, <4>2
    <3>8. QED BY <3>2, <3>5, <3>7 DEF StreamsOK
  <2>2. CASE EndOfFile(s)
    BY <1>2, <2>2 DEF EndOfFile, StreamsOK, ReaderType
  <2>3. CASE Extend(s)
    <3> DEFINE limit == Limit(main.call, s)
               buf   == IF reader[s].buf < limit
                          THEN Smaller(reader[s].buf + reader[s].held, limit) ELSE reader[s].buf
    <3>1. limit \in Nat
      BY <1>2, <2>3 DEF Extend
    <3>2. buf \in Nat /\ buf <= reader[s].buf + reader[s].held
      <4> HIDE DEF limit
      <4>1. QED BY <1>2, <3>1 DEF Smaller
    <3>3. /\ reader' = [reader EXCEPT ![s].buf = buf, ![s].held = 0, ![s].pc = "flag"]
          /\ pipe' = pipe /\ written' = written
      BY <2>3 DEF Extend
    <3> HIDE DEF limit, buf
    <3>4. /\ reader'[s] = [reader[s] EXCEPT !.buf = buf, !.held = 0, !.pc = "flag"]
          /\ \A t \in Stream \ {s} : reader'[t] = reader[t]
      BY <3>3 DEF StreamsOK
    <3>5. reader'[s] \in ReaderType /\ reader'[s].held = 0 /\ reader'[s].buf = buf
      <4>1. reader[s] \in ReaderType /\ 0 \in 0..Chunk /\ buf \in Nat
        BY <1>2, <3>2 DEF StreamsOK
      <4>2. QED BY <3>4, <4>1 DEF ReaderType
    <3>6. reader' \in [Stream -> ReaderType]
      BY <3>3, <3>4, <3>5 DEF StreamsOK
    <3>7. ASSUME NEW t \in Stream
          PROVE  pipe'[t] <= Capacity /\ pipe'[t] + reader'[t].held + reader'[t].buf <= written'[t]
      <4>1. CASE t = s
        BY <1>2, <3>2, <3>3, <3>5, <4>1 DEF StreamsOK
      <4>2. CASE t # s
        BY <3>3, <3>4, <4>2 DEF StreamsOK
      <4>3. QED BY <4>1, <4>2
    <3>8. QED BY <3>3, <3>6, <3>7 DEF StreamsOK
  <2>4. CASE SetFlag(s)
    BY <1>2, <2>4 DEF SetFlag, StreamsOK, ReaderType
  <2>5. QED BY <2>1, <2>2, <2>3, <2>4 DEF ReaderStep
<1>4. QED BY <1>1, <1>3 DEF TypeOK, MainOK, ChildOK, HelperOK, StreamsOK

LEMMA ScriptStepType ==
  ASSUME TypeOK, ScriptStep \/ ChildDies
  PROVE  TypeOK'
<1> USE TypeParts
<1>1. MainOK'
  BY DEF ScriptStep, ChildDies, Write, Fork, Exit, HelperEnds, MainOK
<1>2. ChildOK'
  BY DEF ScriptStep, ChildDies, Write, Fork, Exit, HelperEnds, ChildOK
<1>3. HelperOK'
  BY DEF ScriptStep, ChildDies, Write, Fork, Exit, HelperEnds, NoHelper, HelperOK
<1>4. StreamsOK'
  <2>1. ASSUME NEW s \in Stream, Write(s) PROVE StreamsOK'
    <3>1. Capacity \in Nat /\ written[s] \in Nat /\ pipe[s] \in Nat
      BY RunnerAssumption DEF StreamsOK
    <3>2. QED BY <2>1, <3>1 DEF Write, StreamsOK, ReaderType
  <2>2. CASE Fork \/ Exit \/ HelperEnds \/ ChildDies
    BY <2>2 DEF Fork, Exit, HelperEnds, ChildDies, StreamsOK
  <2>3. QED BY <2>1, <2>2 DEF ScriptStep
<1>5. QED BY <1>1, <1>2, <1>3, <1>4 DEF TypeOK, MainOK, ChildOK, HelperOK, StreamsOK

LEMMA TypeStep ==
  ASSUME TypeOK, Phases, [Next]_vars
  PROVE  TypeOK'
<1>1. CASE UNCHANGED vars
  BY <1>1 DEF vars, TypeOK
<1>2. QED BY <1>1, MainStepType, ReaderStepType, ScriptStepType DEF Next

-----------------------------------------------------------------------------
(* Phases and Reaping *)

\* The fields of an answer.
LEMMA AnswerFields ==
  ASSUME TypeOK, Answer
  PROVE  /\ main.call \in Call /\ main'.call = main.call /\ main'.pc = "returned"
         /\ main'.result = [ok |-> ~main.timed /\ EndReason = None,
                            reason |-> IF main.timed THEN "TIMEOUT" ELSE EndReason,
                            timed |-> main.timed, stdout |-> main.copied["out"],
                            outTrunc |-> main.flagged["out"], errTrunc |-> main.flagged["err"]]
<1>1. main \in MainType /\ main.call \in Call
  BY TypeParts DEF MainOK, MainType, Answer
<1>2. EndReason \in Reasons \cup {None}
  BY DEF EndReason, Reasons
<1>3. [ok |-> ~main.timed /\ EndReason = None,
       reason |-> IF main.timed THEN "TIMEOUT" ELSE EndReason,
       timed |-> main.timed, stdout |-> main.copied["out"],
       outTrunc |-> main.flagged["out"], errTrunc |-> main.flagged["err"]] \in ResultType
  BY <1>1, <1>2 DEF ResultType, Reasons, Stream, MainType
<1>4. QED BY <1>1, <1>3, ReturningType DEF Answer

\* Where a failed start ends, and a call that is not let through.
LEMMA SpawnFailsFields ==
  ASSUME TypeOK, SpawnFails
  PROVE  main'.call = main.call /\ main'.pc \in {"returned", "raised"}
<1>1. main \in MainType /\ main.call \in Call
  BY TypeParts DEF MainOK, MainType, SpawnFails
<1>2. Failed("RESOURCE_LIMIT") \in ResultType
  BY FailedType DEF Reasons
<1>3. QED BY <1>1, <1>2, ReturningType DEF SpawnFails, MainType

LEMMA CalledFields ==
  ASSUME TypeOK, NEW call \in Call, Called(call)
  PROVE  /\ main'.call = call /\ main'.pc \in {"prepare", "raised", "returned"}
         /\ main'.pc = "prepare" => Rejection(call) = None
         /\ main'.pc # "returned" =>
              /\ main'.timed = main.timed /\ main'.joined = main.joined
              /\ main'.copied = main.copied /\ main'.flagged = main.flagged
<1> DEFINE asked == [main EXCEPT !.call = call]
<1>1. /\ asked \in MainType /\ asked.call = call /\ asked.timed = main.timed
      /\ asked.joined = main.joined /\ asked.copied = main.copied
      /\ asked.flagged = main.flagged
  BY TypeParts DEF MainOK, MainType
<1> HIDE DEF asked
<1>2. CASE Rejection(call) = None
  <2>1. main' = [asked EXCEPT !.pc = "prepare"]
    BY <1>2, RunnerAssumption DEF Called, asked
  <2>2. /\ main'.pc = "prepare" /\ main'.call = asked.call /\ main'.timed = asked.timed
        /\ main'.joined = asked.joined /\ main'.copied = asked.copied
        /\ main'.flagged = asked.flagged
    BY <1>1, <2>1 DEF MainType
  <2>3. QED BY <1>1, <1>2, <2>2
<1>3. CASE Rejection(call) = "raises"
  <2>1. main' = [asked EXCEPT !.pc = "raised"]
    BY <1>3, RunnerAssumption DEF Called, asked
  <2>2. QED BY <1>1, <2>1 DEF MainType
<1>4. CASE Rejection(call) \notin {None, "raises"}
  <2>1. main' = Returning(asked, Failed(Rejection(call)))
    BY <1>4 DEF Called, asked
  <2>2. Failed(Rejection(call)) \in ResultType
    BY <1>4, RejectionType, FailedType
  <2>3. QED BY <1>1, <2>1, <2>2, ReturningType
<1>5. QED BY <1>2, <1>3, <1>4

LEMMA PhasesInit == Init => Phases
BY DEF Init, Idle, NoHelper, Phases, Started

LEMMA PhasesStep ==
  ASSUME TypeOK, Phases, [Next]_vars
  PROVE  Phases'
<1> USE TypeParts DEF MainOK, ChildOK, HelperOK, Phases, Started
<1>1. ASSUME NEW call \in Call, Called(call) PROVE Phases'
  BY <1>1, CalledFields DEF Called
<1>2. CASE Prepare
  BY <1>2 DEF Prepare, MainType
<1>3. CASE PrepareRaises
  BY <1>3 DEF PrepareRaises, MainType
<1>4. CASE Spawn
  BY <1>4 DEF Spawn, StreamsOK, ReaderType, MainType
<1>5. CASE SpawnFails
  BY <1>5, SpawnFailsFields DEF SpawnFails
<1>6. CASE WaitEnds
  BY <1>6 DEF WaitEnds, MainType
<1>7. CASE WaitTimesOut
  BY <1>7 DEF WaitTimesOut, MainType
<1>8. CASE JoinEnds
  BY <1>8 DEF JoinEnds, Onward, MainType
<1>9. CASE JoinTimesOut
  BY <1>9 DEF JoinTimesOut, Onward, MainType
<1>10. CASE CopyBuffer
  BY <1>10 DEF CopyBuffer, Onward, MainType
<1>11. CASE ReadFlag
  BY <1>11 DEF ReadFlag, Onward, MainType
<1>12. CASE Kill
  BY <1>12 DEF Kill, MainType
<1>13. CASE Reap
  BY <1>13 DEF Reap, MainType
<1>14. CASE ReapTimesOut
  BY <1>14 DEF ReapTimesOut, MainType
<1>15. CASE Answer
  BY <1>15, AnswerFields DEF Answer
<1>16. CASE ChildDies
  BY <1>16 DEF ChildDies, MainType
<1>17. CASE Fork
  BY <1>17 DEF Fork, MainType
<1>18. CASE Exit
  BY <1>18 DEF Exit, MainType
<1>19. CASE HelperEnds
  BY <1>19 DEF HelperEnds, NoHelper, MainType
<1>20. ASSUME NEW s \in Stream, ReaderStep(s) PROVE Phases'
  BY <1>20 DEF ReaderStep, Fetch, EndOfFile, Extend, SetFlag, StreamsOK, ReaderType
<1>21. ASSUME NEW s \in Stream, Write(s) PROVE Phases'
  BY <1>21 DEF Write
<1>22. CASE UNCHANGED vars
  BY <1>22 DEF vars
<1>23. QED
  BY <1>1, <1>2, <1>3, <1>4, <1>5, <1>6, <1>7, <1>8, <1>9, <1>10, <1>11, <1>12, <1>13, <1>14, <1>15, <1>16, <1>17, <1>18, <1>19, <1>20, <1>21, <1>22 DEF Next, MainStep, ScriptStep

LEMMA ReapingInit == Init => Reaping
BY DEF Init, Idle, NoHelper, Reaping, Started

LEMMA ReapingStep ==
  ASSUME TypeOK, Phases, Reaping, [Next]_vars
  PROVE  Reaping'
<1> USE TypeParts DEF MainOK, ChildOK, HelperOK, Phases, Reaping, Started
<1>1. ASSUME NEW call \in Call, Called(call) PROVE Reaping'
  BY <1>1, CalledFields DEF Called, MainType
<1>2. CASE Prepare
  BY <1>2 DEF Prepare, MainType
<1>3. CASE PrepareRaises
  BY <1>3 DEF PrepareRaises, MainType
<1>4. CASE Spawn
  BY <1>4 DEF Spawn, MainType
<1>5. CASE SpawnFails
  BY <1>5, SpawnFailsFields DEF SpawnFails
<1>6. CASE WaitEnds
  BY <1>6 DEF WaitEnds, MainType
<1>7. CASE WaitTimesOut
  BY <1>7 DEF WaitTimesOut, MainType
<1>8. CASE JoinEnds
  BY <1>8 DEF JoinEnds, Onward, MainType
<1>9. CASE JoinTimesOut
  BY <1>9 DEF JoinTimesOut, Onward, MainType
<1>10. CASE CopyBuffer
  BY <1>10 DEF CopyBuffer, Onward, MainType
<1>11. CASE ReadFlag
  BY <1>11 DEF ReadFlag, Onward, MainType
<1>12. CASE Kill
  BY <1>12 DEF Kill, MainType
<1>13. CASE Reap
  BY <1>13 DEF Reap, MainType
<1>14. CASE ReapTimesOut
  BY <1>14 DEF ReapTimesOut, MainType
<1>15. CASE Answer
  BY <1>15, AnswerFields DEF Answer
<1>16. CASE ChildDies
  BY <1>16 DEF ChildDies, MainType
<1>17. CASE Fork
  BY <1>17 DEF Fork, MainType
<1>18. CASE Exit
  BY <1>18 DEF Exit, MainType
<1>19. CASE HelperEnds
  BY <1>19 DEF HelperEnds, NoHelper, MainType
<1>20. ASSUME NEW s \in Stream, ReaderStep(s) \/ Write(s) PROVE Reaping'
  BY <1>20 DEF ReaderStep, Fetch, EndOfFile, Extend, SetFlag, Write
<1>21. CASE UNCHANGED vars
  BY <1>21 DEF vars
<1>22. QED
  BY <1>1, <1>2, <1>3, <1>4, <1>5, <1>6, <1>7, <1>8, <1>9, <1>10, <1>11, <1>12, <1>13, <1>14, <1>15, <1>16, <1>17, <1>18, <1>19, <1>20, <1>21 DEF Next, MainStep, ScriptStep

-----------------------------------------------------------------------------
(* Accounts: no byte is lost or counted twice *)

\* A started script's call stays, and the script stays started.
LEMMA CallKept ==
  ASSUME TypeOK, Phases, Started, [Next]_vars
  PROVE  main'.call = main.call /\ main.call \in Call /\ Started'
<1> USE TypeParts DEF MainOK, ChildOK, Phases, Started
<1>1. main.call \in Call /\ main \in MainType
  BY DEF MainType
<1>2. CASE MainStep
  <2>1. CASE Answer
    BY <1>1, <2>1, AnswerFields DEF Answer
  <2>2. CASE ~Answer
    BY ZenonT(40), <1>1, <1>2, <2>2 DEF MainStep, Prepare, PrepareRaises, Spawn, SpawnFails, WaitEnds,
       WaitTimesOut, JoinEnds, JoinTimesOut, CopyBuffer, ReadFlag, Kill, Reap, ReapTimesOut,
       Onward, MainType
  <2>3. QED BY <2>1, <2>2
<1>3. CASE \E s \in Stream : ReaderStep(s)
  BY <1>1, <1>3 DEF ReaderStep, Fetch, EndOfFile, Extend, SetFlag
<1>4. CASE ChildDies \/ ScriptStep
  BY <1>1, <1>4 DEF ChildDies, ScriptStep, Write, Fork, Exit, HelperEnds
<1>5. CASE UNCHANGED vars
  BY <1>1, <1>5 DEF vars
<1>6. ~ \E call \in Call : Called(call)
  BY DEF Called
<1>7. QED BY <1>2, <1>3, <1>4, <1>5, <1>6 DEF Next

\* Who has closed a pipe does not open it again.
LEMMA StaysClosed ==
  ASSUME TypeOK, Phases, Started, NEW s \in Stream, ~Open(s), [Next]_vars
  PROVE  ~Open(s)'
<1> USE TypeParts DEF ChildOK, HelperOK, Phases, Started, Open
<1>1. CASE MainStep
  BY <1>1 DEF MainStep, Prepare, PrepareRaises, Spawn, SpawnFails, WaitEnds,
     WaitTimesOut, JoinEnds, JoinTimesOut, CopyBuffer, ReadFlag, Kill, Reap, ReapTimesOut, Answer
<1>2. CASE \E t \in Stream : ReaderStep(t)
  BY <1>2 DEF ReaderStep, Fetch, EndOfFile, Extend, SetFlag
<1>3. CASE ChildDies \/ ScriptStep
  BY <1>3 DEF ChildDies, ScriptStep, Write, Fork, Exit, HelperEnds, NoHelper
<1>4. CASE UNCHANGED vars
  BY <1>4 DEF vars
<1>5. CASE \E call \in Call : Called(call)
  BY <1>5 DEF Called
<1>6. QED BY <1>1, <1>2, <1>3, <1>4, <1>5 DEF Next

\* Only the start, the script and its own reader change the state of a stream.
StreamKept(s) == written'[s] = written[s] /\ pipe'[s] = pipe[s] /\ reader'[s] = reader[s]

LEMMA WhoMoves ==
  ASSUME TypeOK, NEW s \in Stream, [Next]_vars
  PROVE  StreamKept(s) \/ Spawn \/ Write(s) \/ ReaderStep(s)
<1> USE TypeParts DEF StreamsOK, StreamKept
<1>1. CASE MainStep
  BY <1>1 DEF MainStep, Prepare, PrepareRaises, SpawnFails, WaitEnds,
     WaitTimesOut, JoinEnds, JoinTimesOut, CopyBuffer, ReadFlag, Kill, Reap, ReapTimesOut, Answer
<1>2. ASSUME NEW t \in Stream, ReaderStep(t), t # s PROVE StreamKept(s)
  BY <1>2 DEF ReaderStep, Fetch, EndOfFile, Extend, SetFlag
<1>3. ASSUME NEW t \in Stream, Write(t), t # s PROVE StreamKept(s)
  BY <1>3 DEF Write
<1>4. CASE ChildDies \/ Fork \/ Exit \/ HelperEnds
  BY <1>4 DEF ChildDies, Fork, Exit, HelperEnds
<1>5. CASE UNCHANGED vars
  BY <1>5 DEF vars
<1>6. CASE \E call \in Call : Called(call)
  BY <1>6 DEF Called
<1>7. QED BY <1>1, <1>2, <1>3, <1>4, <1>5, <1>6 DEF Next, ScriptStep

LEMMA AccountsInit == Init => \A s \in Stream : Accounts(s)
BY DEF Init, Idle, Accounts, Started, Drained, Full

\* The script is not started by anything but Spawn.
LEMMA StartsAtSpawn ==
  ASSUME TypeOK, Phases, ~Started, [Next]_vars
  PROVE  Spawn \/ (~Started' /\ \A s \in Stream : StreamKept(s))
<1> USE TypeParts DEF ChildOK, HelperOK, Phases, Started
<1>1. ASSUME NEW s \in Stream PROVE ~ReaderStep(s) /\ ~Write(s)
  BY DEF ReaderStep, Fetch, EndOfFile, Extend, SetFlag, Write, Open
<1>2. \A s \in Stream : StreamKept(s) \/ Spawn
  BY <1>1, WhoMoves
<1>3. Spawn \/ ~Started'
  BY <1>1 DEF Next, MainStep, Prepare, PrepareRaises, SpawnFails, WaitEnds,
     WaitTimesOut, JoinEnds, JoinTimesOut, CopyBuffer, ReadFlag, Kill, Reap, ReapTimesOut, Answer,
     ChildDies, ScriptStep, Fork, Exit, HelperEnds, Called, vars
<1>4. QED BY <1>2, <1>3

LEMMA AccountsStep ==
  ASSUME TypeOK, Phases, NEW s \in Stream, Accounts(s), [Next]_vars
  PROVE  Accounts(s)'
<1> DEFINE L == Limit(main.call, s)
<1>1. /\ written[s] \in Nat /\ pipe[s] \in Nat /\ Chunk \in Nat \ {0} /\ reader[s] \in ReaderType
      /\ reader[s].pc \in {"none", "read", "extend", "flag", "done"}
      /\ reader[s].held \in Nat /\ reader[s].held <= Chunk
      /\ reader[s].buf \in Nat /\ reader[s].flag \in BOOLEAN
      /\ pipe[s] + reader[s].held + reader[s].buf <= written[s]
  BY TypeParts, RunnerAssumption DEF StreamsOK, ReaderType
<1>2. CASE ~Started
  <2>1. reader[s].pc = "none"
    BY <1>2 DEF Phases
  <2>2. CASE Spawn
    <3>1. main.call \in Call /\ main'.call = main.call
      BY <2>2, TypeParts DEF Spawn, MainOK, MainType
    <3>2. L \in Nat /\ Limit(main'.call, s) = L
      BY <3>1, LimitType
    <3>3. reader'[s] = [reader[s] EXCEPT !.pc = "read"] /\ UNCHANGED <<written, pipe>>
      BY <2>2 DEF Spawn
    <3>4. /\ reader'[s].pc = "read" /\ reader'[s].held = 0 /\ reader'[s].buf = 0
          /\ reader'[s].flag = FALSE /\ written'[s] = 0 /\ pipe'[s] = 0
      BY <1>1, <1>2, <3>3 DEF Accounts, ReaderType
    <3>5. Started'
      BY <2>2, TypeParts DEF Spawn, Started, ChildOK
    <3>6. QED BY <3>2, <3>4, <3>5 DEF Accounts, Drained, Full, Smaller
  <2>3. CASE ~Started' /\ StreamKept(s)
    <3>1. /\ written'[s] = 0 /\ pipe'[s] = 0 /\ reader'[s].held = 0
          /\ reader'[s].buf = 0 /\ ~reader'[s].flag /\ reader'[s].pc = "none"
      BY <1>2, <2>1, <2>3 DEF Accounts, StreamKept
    <3>2. QED BY <2>3, <3>1 DEF Accounts
  <2>4. QED BY <1>2, <2>2, <2>3, StartsAtSpawn
<1>3. CASE Started
  <2>1. main'.call = main.call /\ Started' /\ main.call \in Call
    BY <1>3, CallKept
  <2>2. L \in Nat /\ Limit(main'.call, s) = L
    BY <2>1, LimitType
  <2> HIDE DEF L
  <2>3. /\ reader[s].buf = Smaller(Drained(s), L)
        /\ Full(s) <=> Drained(s) > 0 /\ Drained(s) >= L
    BY <1>3 DEF Accounts, Full, L
  <2>4. Drained(s) \in Nat /\ Drained(s) = written[s] - pipe[s] - reader[s].held
    BY <1>1 DEF Drained
  <2>5. SUFFICES
          /\ reader'[s].buf = Smaller(Drained(s)', L)
          /\ reader'[s].pc = "extend" => reader'[s].held > 0
          /\ reader'[s].pc = "flag" =>
               /\ reader'[s].held = 0 /\ Drained(s)' > 0
               /\ reader'[s].flag => Drained(s)' > 0 /\ Drained(s)' >= L
          /\ reader'[s].pc \in {"read", "extend", "done"} =>
               (reader'[s].flag <=> Drained(s)' > 0 /\ Drained(s)' >= L)
          /\ reader'[s].pc = "done" => reader'[s].held = 0 /\ pipe'[s] = 0 /\ ~Open(s)'
    BY <2>1, <2>2 DEF Accounts, Full
  <2>6. CASE StreamKept(s)
    <3>1. Drained(s)' = Drained(s)
      BY <2>6 DEF StreamKept, Drained
    <3>2. QED BY <1>3, <2>3, <2>6, <3>1, StaysClosed DEF Accounts, StreamKept
  <2>7. CASE Write(s)
    <3>1. written'[s] = written[s] + 1 /\ pipe'[s] = pipe[s] + 1 /\ reader' = reader
      BY <2>7, TypeParts DEF Write, StreamsOK
    <3>2. Drained(s)' = Drained(s)
      BY <1>1, <3>1 DEF Drained
    <3>3. reader[s].pc # "done"
      BY <2>7 DEF Write, Accounts
    <3>4. QED BY <2>3, <3>1, <3>2, <3>3 DEF Accounts
  <2>8. CASE Fetch(s)
    <3> DEFINE n == Smaller(pipe[s], Chunk - reader[s].held)
    <3>1. n \in Nat /\ n <= pipe[s] /\ reader[s].held + n <= Chunk
      BY <1>1 DEF Smaller
    <3> HIDE DEF n
    <3>2. /\ pipe'[s] = pipe[s] - n /\ written' = written
          /\ reader'[s] = [reader[s] EXCEPT !.held = @ + n,
                             !.pc = IF reader[s].held + n = Chunk THEN "extend" ELSE "read"]
      BY <2>8, TypeParts DEF Fetch, n, StreamsOK
    <3>3. /\ reader'[s].held = reader[s].held + n /\ reader'[s].buf = reader[s].buf
          /\ reader'[s].flag = reader[s].flag
          /\ reader'[s].pc = IF reader[s].held + n = Chunk THEN "extend" ELSE "read"
      BY <1>1, <3>2 DEF ReaderType
    <3>4. Drained(s)' = Drained(s)
      BY <1>1, <3>1, <3>2, <3>3 DEF Drained
    <3>5. reader[s].pc = "read"
      BY <2>8 DEF Fetch
    <3>6. reader[s].flag <=> Drained(s) > 0 /\ Drained(s) >= L
      BY <2>3, <3>5 DEF Accounts
    <3>7. QED BY <1>1, <2>3, <3>1, <3>3, <3>4, <3>6
  <2>9. CASE EndOfFile(s)
    <3>1. /\ reader'[s] = [reader[s] EXCEPT !.pc = IF reader[s].held > 0 THEN "extend" ELSE "done"]
          /\ UNCHANGED <<pipe, written, child, helper>> /\ pipe[s] = 0 /\ ~Open(s)
          /\ reader[s].pc = "read"
      BY <2>9, TypeParts DEF EndOfFile, StreamsOK
    <3>2. /\ reader'[s].held = reader[s].held /\ reader'[s].buf = reader[s].buf
          /\ reader'[s].flag = reader[s].flag
          /\ reader'[s].pc = IF reader[s].held > 0 THEN "extend" ELSE "done"
      BY <1>1, <3>1 DEF ReaderType
    <3>3. Drained(s)' = Drained(s) /\ ~Open(s)'
      BY <3>1, <3>2 DEF Drained, Open
    <3>4. reader[s].flag <=> Drained(s) > 0 /\ Drained(s) >= L
      BY <2>3, <3>1 DEF Accounts
    <3>5. QED BY <1>1, <2>3, <3>1, <3>2, <3>3, <3>4
  <2>10. CASE Extend(s)
    <3>1. /\ reader'[s] = [reader[s] EXCEPT
                !.buf = IF @ < L THEN Smaller(@ + reader[s].held, L) ELSE @,
                !.held = 0, !.pc = "flag"]
          /\ UNCHANGED <<pipe, written>> /\ reader[s].pc = "extend"
      BY <2>10, TypeParts DEF Extend, StreamsOK, L
    <3>2. /\ reader'[s].held = 0 /\ reader'[s].pc = "flag" /\ reader'[s].flag = reader[s].flag
          /\ reader'[s].buf = IF reader[s].buf < L THEN Smaller(reader[s].buf + reader[s].held, L)
                              ELSE reader[s].buf
      BY <1>1, <3>1 DEF ReaderType
    <3>3. Drained(s)' = Drained(s) + reader[s].held /\ reader[s].held > 0
      BY <1>1, <3>1, <3>2 DEF Drained, Accounts
    <3>4. reader[s].flag => Drained(s) > 0 /\ Drained(s) >= L
      BY <2>3, <3>1 DEF Accounts
    <3>5. reader'[s].buf = Smaller(Drained(s)', L)
      BY <1>1, <2>2, <2>3, <2>4, <3>2, <3>3 DEF Smaller
    <3>6. QED BY <1>1, <2>2, <2>4, <3>2, <3>3, <3>4, <3>5
  <2>11. CASE SetFlag(s)
    <3>1. /\ reader'[s] = [reader[s] EXCEPT !.flag = @ \/ reader[s].buf >= L, !.pc = "read"]
          /\ UNCHANGED <<pipe, written>> /\ reader[s].pc = "flag"
      BY <2>11, TypeParts DEF SetFlag, StreamsOK, L
    <3>2. /\ reader'[s].held = reader[s].held /\ reader'[s].buf = reader[s].buf
          /\ reader'[s].pc = "read"
          /\ reader'[s].flag <=> reader[s].flag \/ reader[s].buf >= L
      BY <1>1, <3>1 DEF ReaderType
    <3>3. Drained(s)' = Drained(s)
      BY <3>1, <3>2 DEF Drained
    <3>4. Drained(s) > 0 /\ (reader[s].flag => Drained(s) > 0 /\ Drained(s) >= L)
      BY <2>3, <3>1 DEF Accounts
    <3>5. reader[s].buf >= L <=> Drained(s) >= L
      BY <2>2, <2>3, <2>4 DEF Smaller
    <3>6. QED BY <2>3, <3>2, <3>3, <3>4, <3>5
  <2>12. ~Spawn
    BY <1>3 DEF Spawn, Phases, Started
  <2>13. QED BY <2>6, <2>7, <2>8, <2>9, <2>10, <2>11, <2>12, WhoMoves DEF ReaderStep
<1>4. QED BY <1>2, <1>3

-----------------------------------------------------------------------------
(* Captured: what the calling thread has seen of a stream *)

\* A call that has come back has forgotten it.
LEMMA ReturningForgets ==
  ASSUME NEW m, m.call \in Call, NEW result \in ResultType, NEW s \in Stream
  PROVE  /\ Returning(m, result).joined = {} /\ Returning(m, result).copied[s] = 0
         /\ Returning(m, result).flagged[s] = FALSE
<1>1. Idle \in MainType /\ Idle.joined = {} /\ Idle.copied[s] = 0 /\ Idle.flagged[s] = FALSE
  BY DEF Idle, NoResult, MainType, ResultType, Stream
<1>2. QED BY <1>1 DEF Returning, MainType

Forgotten(s) == main.joined = {} /\ main.copied[s] = 0 /\ main.flagged[s] = FALSE

LEMMA Forgets ==
  ASSUME TypeOK, NEW s \in Stream,
         \/ Answer \/ SpawnFails
         \/ \E call \in Call : Called(call) /\ main'.pc = "returned"
  PROVE  Forgotten(s)' \/ (SpawnFails /\ main' = [main EXCEPT !.pc = "raised"])
<1>1. CASE Answer
  <2>1. main.call \in Call
    BY <1>1, AnswerFields
  <2>2. EndReason \in Reasons \cup {None}
    BY DEF EndReason, Reasons
  <2>3. [ok |-> ~main.timed /\ EndReason = None,
         reason |-> IF main.timed THEN "TIMEOUT" ELSE EndReason,
         timed |-> main.timed, stdout |-> main.copied["out"],
         outTrunc |-> main.flagged["out"], errTrunc |-> main.flagged["err"]] \in ResultType
    BY <2>2, TypeParts DEF ResultType, Reasons, Stream, MainType, MainOK
  <2>4. main'.joined = {} /\ main'.copied[s] = 0 /\ main'.flagged[s] = FALSE
    BY ZenonT(40), <1>1, <2>1, <2>3, ReturningForgets DEF Answer
  <2>5. QED BY <2>4 DEF Forgotten
<1>2. CASE SpawnFails
  <2>1. main.call \in Call
    BY <1>2, TypeParts DEF MainOK, MainType, SpawnFails
  <2>2. Failed("RESOURCE_LIMIT") \in ResultType
    BY FailedType DEF Reasons
  <2>3. CASE main' = Returning(main, Failed("RESOURCE_LIMIT"))
    <3>1. main'.joined = {} /\ main'.copied[s] = 0 /\ main'.flagged[s] = FALSE
      BY <2>1, <2>2, <2>3, ReturningForgets
    <3>2. QED BY <3>1 DEF Forgotten
  <2>4. QED BY <1>2, <2>3 DEF SpawnFails
<1>3. ASSUME NEW call \in Call, Called(call), main'.pc = "returned" PROVE Forgotten(s)'
  <2> DEFINE asked == [main EXCEPT !.call = call]
  <2>1. asked \in MainType /\ asked.call = call /\ asked.pc = "idle"
    BY <1>3, TypeParts DEF MainOK, MainType, Called
  <2>2. CASE Rejection(call) \in {None, "raises"}
    <3>1. main' = [asked EXCEPT !.pc = "prepare"] \/ main' = [asked EXCEPT !.pc = "raised"]
      BY <1>3, <2>2, RunnerAssumption DEF Called
    <3> HIDE DEF asked
    <3>2. main'.pc # "returned"
      BY <2>1, <3>1 DEF MainType
    <3>3. QED BY <1>3, <3>2
  <2>3. CASE Rejection(call) \notin {None, "raises"}
    <3>1. main' = Returning(asked, Failed(Rejection(call)))
      BY <1>3, <2>3 DEF Called
    <3>2. Failed(Rejection(call)) \in ResultType
      BY <2>3, RejectionType, FailedType
    <3> HIDE DEF asked
    <3>3. QED BY <2>1, <3>1, <3>2, ReturningForgets DEF Forgotten
  <2>4. QED BY <2>2, <2>3
<1>4. QED BY <1>1, <1>2, <1>3

\* A buffer only grows, a flag stays set, and a reader that has ended is at rest.
LEMMA ReaderGrows ==
  ASSUME TypeOK, Phases, NEW s \in Stream, Accounts(s), [Next]_vars
  PROVE  /\ reader[s].buf \in Nat /\ reader'[s].buf \in Nat /\ reader[s].buf <= reader'[s].buf
         /\ reader[s].flag => reader'[s].flag
         /\ reader[s].pc = "done" => reader'[s] = reader[s]
<1>1. /\ reader[s] \in ReaderType /\ reader[s].buf \in Nat /\ reader[s].held \in Nat
      /\ reader[s].flag \in BOOLEAN
  BY TypeParts, RunnerAssumption DEF StreamsOK, ReaderType
<1>2. CASE StreamKept(s)
  BY <1>1, <1>2 DEF StreamKept
<1>3. CASE Spawn
  <2>1. reader'[s] = [reader[s] EXCEPT !.pc = "read"]
    BY <1>3 DEF Spawn
  <2>2. reader[s].pc = "none"
    BY <1>3 DEF Spawn, Phases, Started
  <2>3. QED BY <1>1, <2>1, <2>2 DEF ReaderType
<1>4. CASE Write(s)
  BY <1>1, <1>4 DEF Write
<1>5. CASE Fetch(s)
  <2> DEFINE n == Smaller(pipe[s], Chunk - reader[s].held)
  <2>1. reader'[s] = [reader[s] EXCEPT !.held = @ + n,
                        !.pc = IF reader[s].held + n = Chunk THEN "extend" ELSE "read"]
    BY <1>5, TypeParts DEF Fetch, StreamsOK
  <2> HIDE DEF n
  <2>2. reader'[s].buf = reader[s].buf /\ reader'[s].flag = reader[s].flag
    BY <1>1, <2>1 DEF ReaderType
  <2>3. reader[s].pc = "read"
    BY <1>5 DEF Fetch
  <2>4. QED BY <1>1, <2>2, <2>3
<1>6. CASE EndOfFile(s)
  <2>1. reader'[s] = [reader[s] EXCEPT !.pc = IF reader[s].held > 0 THEN "extend" ELSE "done"]
    BY <1>6, TypeParts DEF EndOfFile, StreamsOK
  <2>2. QED BY <1>1, <1>6, <2>1 DEF ReaderType, EndOfFile
<1>7. CASE Extend(s)
  <2> DEFINE L == Limit(main.call, s)
  <2>1. L \in Nat
    BY <1>7, TypeParts, LimitType DEF Extend, Phases, Started, MainOK, MainType
  <2>2. reader'[s] = [reader[s] EXCEPT
          !.buf = IF @ < L THEN Smaller(@ + reader[s].held, L) ELSE @, !.held = 0, !.pc = "flag"]
    BY <1>7, TypeParts DEF Extend, StreamsOK
  <2> HIDE DEF L
  <2>3. /\ reader'[s].buf = IF reader[s].buf < L THEN Smaller(reader[s].buf + reader[s].held, L)
                            ELSE reader[s].buf
        /\ reader'[s].flag = reader[s].flag
    BY <1>1, <2>2 DEF ReaderType
  <2>4. QED BY <1>1, <1>7, <2>1, <2>3 DEF Smaller, Extend
<1>8. CASE SetFlag(s)
  <2> DEFINE full == reader[s].buf >= Limit(main.call, s)
  <2>1. reader'[s] = [reader[s] EXCEPT !.flag = @ \/ full, !.pc = "read"]
    BY <1>8, TypeParts DEF SetFlag, StreamsOK
  <2> HIDE DEF full
  <2>2. reader'[s].buf = reader[s].buf /\ (reader[s].flag => reader'[s].flag)
    BY <1>1, <2>1 DEF ReaderType
  <2>3. reader[s].pc = "flag"
    BY <1>8 DEF SetFlag
  <2>4. QED BY <1>1, <2>2, <2>3
<1>9. QED BY <1>2, <1>3, <1>4, <1>5, <1>6, <1>7, <1>8, WhoMoves DEF ReaderStep

LEMMA CapturedInit == Init => \A s \in Stream : Captured(s)
BY DEF Init, Idle, Captured, CopyDone, FlagDone, Stream

LEMMA CapturedStep ==
  ASSUME TypeOK, Phases, NEW s \in Stream, Accounts(s), Captured(s), [Next]_vars
  PROVE  Captured(s)'
<1>1. /\ main \in MainType /\ main.copied[s] \in Nat /\ main.flagged[s] \in BOOLEAN
      /\ main.joined \subseteq Stream /\ main.stream \in Stream
  BY TypeParts DEF MainOK, MainType
<1>2. /\ reader[s].buf \in Nat /\ reader'[s].buf \in Nat /\ reader[s].buf <= reader'[s].buf
      /\ reader[s].flag => reader'[s].flag
      /\ reader[s].pc = "done" => reader'[s] = reader[s]
  BY ReaderGrows
<1>3. CASE main' = main
  BY <1>1, <1>2, <1>3 DEF Captured, CopyDone, FlagDone
<1>4. ASSUME Forgotten(s)' PROVE Captured(s)'
  BY <1>2, <1>4 DEF Forgotten, Captured
<1>5. CASE \/ Answer \/ SpawnFails
           \/ \E call \in Call : Called(call) /\ main'.pc = "returned"
  <2>1. CASE main' = [main EXCEPT !.pc = "raised"]
    BY <1>1, <1>2, <2>1 DEF Captured, CopyDone, FlagDone, MainType
  <2>2. QED BY <1>4, <1>5, <2>1, Forgets
<1>6. ASSUME NEW call \in Call, Called(call), main'.pc # "returned" PROVE Captured(s)'
  <2>1. main.pc = "idle"
    BY <1>6 DEF Called
  <2>2. QED BY <1>1, <1>2, <1>6, <2>1, CalledFields DEF Captured, CopyDone, FlagDone
<1>7. CASE Prepare
  BY <1>1, <1>2, <1>7 DEF Prepare, Captured, CopyDone, FlagDone, MainType
<1>8. CASE PrepareRaises
  BY <1>1, <1>2, <1>8 DEF PrepareRaises, Captured, CopyDone, FlagDone, MainType
<1>9. CASE Spawn
  <2>1. main' = [main EXCEPT !.pc = "wait"]
    BY <1>9 DEF Spawn
  <2>2. main.pc = "spawn"
    BY <1>9 DEF Spawn
  <2>3. QED BY <1>1, <1>2, <2>1, <2>2 DEF Captured, CopyDone, FlagDone, MainType
<1>10. CASE WaitEnds
  BY <1>1, <1>2, <1>10 DEF WaitEnds, Captured, CopyDone, FlagDone, MainType
<1>11. CASE WaitTimesOut
  BY <1>1, <1>2, <1>11 DEF WaitTimesOut, Captured, CopyDone, FlagDone, MainType
<1>12. CASE JoinEnds
  BY <1>1, <1>2, <1>12 DEF JoinEnds, Onward, Captured, CopyDone, FlagDone, MainType, Stream
<1>13. CASE JoinTimesOut
  BY <1>1, <1>2, <1>13 DEF JoinTimesOut, Onward, Captured, CopyDone, FlagDone, MainType
<1>14. CASE CopyBuffer
  BY <1>1, <1>2, <1>14 DEF CopyBuffer, Onward, Captured, CopyDone, FlagDone, MainType, Stream
<1>15. CASE ReadFlag
  BY <1>1, <1>2, <1>15 DEF ReadFlag, Onward, Captured, CopyDone, FlagDone, MainType, Stream
<1>16. CASE Kill
  BY <1>1, <1>2, <1>16 DEF Kill, Captured, CopyDone, FlagDone, MainType
<1>17. CASE Reap
  BY <1>1, <1>2, <1>17 DEF Reap, Captured, CopyDone, FlagDone, MainType
<1>18. CASE ReapTimesOut
  BY <1>1, <1>2, <1>18 DEF ReapTimesOut, Captured, CopyDone, FlagDone, MainType
<1>19. MainStep \/ (\E call \in Call : Called(call)) \/ main' = main
  BY DEF Next, ReaderStep, Fetch, EndOfFile, Extend, SetFlag, ChildDies, ScriptStep, Write, Fork,
     Exit, HelperEnds, vars
<1>20. QED
  BY <1>3, <1>5, <1>6, <1>7, <1>8, <1>9, <1>10, <1>11, <1>12, <1>13, <1>14, <1>15, <1>16, <1>17, <1>18, <1>19 DEF MainStep

-----------------------------------------------------------------------------
(* The result *)

\* What a buffer and a flag hold of the output of a started script.
LEMMA BufferSound ==
  ASSUME TypeOK, Phases, Started, NEW s \in Stream, Accounts(s)
  PROVE  /\ Limit(main.call, s) \in Nat /\ written[s] \in Nat /\ reader[s].buf \in Nat
         /\ reader[s].buf <= Smaller(written[s], Limit(main.call, s))
         /\ reader[s].flag => written[s] > 0 /\ written[s] >= Limit(main.call, s)
         /\ reader[s].pc = "done" =>
              /\ reader[s].buf = Smaller(written[s], Limit(main.call, s))
              /\ reader[s].flag <=> written[s] > 0 /\ written[s] >= Limit(main.call, s)
<1> DEFINE L == Limit(main.call, s)
<1>1. /\ written[s] \in Nat /\ pipe[s] \in Nat /\ reader[s].held \in Nat /\ reader[s].buf \in Nat
      /\ reader[s].pc \in {"none", "read", "extend", "flag", "done"}
      /\ pipe[s] + reader[s].held + reader[s].buf <= written[s]
  BY TypeParts, RunnerAssumption DEF StreamsOK, ReaderType
<1>2. L \in Nat
  <2>1. main.call \in Call
    BY TypeParts DEF MainOK, MainType, Phases, Started
  <2>2. QED BY <2>1, LimitType
<1>3. reader[s].pc # "none"
  BY DEF Phases
<1>4. reader[s].buf = Smaller(Drained(s), L) /\ (reader[s].flag => Drained(s) > 0 /\ Drained(s) >= L)
  BY <1>1, <1>3 DEF Accounts, Full
<1>5. reader[s].pc = "done" =>
        Drained(s) = written[s] /\ (reader[s].flag <=> Drained(s) > 0 /\ Drained(s) >= L)
  BY <1>1 DEF Accounts, Full, Drained
<1>6. Drained(s) \in Nat /\ Drained(s) <= written[s]
  BY <1>1 DEF Drained
<1> HIDE DEF L
<1>7. /\ reader[s].buf <= Smaller(written[s], L)
      /\ reader[s].flag => written[s] > 0 /\ written[s] >= L
      /\ reader[s].pc = "done" => /\ reader[s].buf = Smaller(written[s], L)
                                  /\ reader[s].flag <=> written[s] > 0 /\ written[s] >= L
  BY <1>1, <1>2, <1>4, <1>5, <1>6 DEF Smaller
<1>8. QED BY <1>1, <1>2, <1>7 DEF L

LEMMA ResultStep ==
  ASSUME TypeOK, Phases, Reaping, \A s \in Stream : Accounts(s), \A s \in Stream : Captured(s),
         ResultIsSound, [Next]_vars
  PROVE  ResultIsSound'
<1>1. "out" \in Stream /\ "err" \in Stream
  BY DEF Stream
<1>2. CASE Answer
  <2>1. Started /\ main.pc = "answer" /\ UNCHANGED <<child, written>> /\ child.code \in {0, 1}
    BY <1>2, TypeParts DEF Answer, Phases, Started, ChildOK
  <2>2. ASSUME NEW s \in Stream
        PROVE  /\ main.copied[s] <= Smaller(written[s], Limit(main.call, s))
               /\ main.flagged[s] => written[s] >= Limit(main.call, s)
    <3>1. main.copied[s] \in Nat /\ main.copied[s] <= reader[s].buf
          /\ (main.flagged[s] => reader[s].flag)
      BY TypeParts DEF MainOK, MainType, Captured
    <3> DEFINE L == Limit(main.call, s)
    <3>2. /\ L \in Nat /\ written[s] \in Nat /\ reader[s].buf \in Nat
          /\ reader[s].buf <= Smaller(written[s], L)
          /\ reader[s].flag => written[s] > 0 /\ written[s] >= L
      BY <2>1, BufferSound
    <3> HIDE DEF L
    <3>3. main.copied[s] <= Smaller(written[s], L) /\ (main.flagged[s] => written[s] >= L)
      BY <3>1, <3>2 DEF Smaller
    <3>4. QED BY <3>3 DEF L
  <2>3. EndReason = None => child.code = 0
    BY RunnerAssumption DEF EndReason, Reasons
  <2>4. /\ main'.result.stdout = main.copied["out"] /\ main'.call = main.call
        /\ main'.result.outTrunc = main.flagged["out"]
        /\ main'.result.errTrunc = main.flagged["err"]
        /\ main'.result.ok => EndReason = None
    <3> DEFINE quiet == ~main.timed /\ EndReason = None
               reason == IF main.timed THEN "TIMEOUT" ELSE EndReason
    <3>1. main'.call = main.call
          /\ main'.result = [ok |-> quiet, reason |-> reason, timed |-> main.timed,
                             stdout |-> main.copied["out"],
                             outTrunc |-> main.flagged["out"], errTrunc |-> main.flagged["err"]]
      BY <1>2, AnswerFields
    <3>2. quiet => EndReason = None
      OBVIOUS
    <3> HIDE DEF quiet, reason
    <3>3. main'.result.ok = quiet
      BY <3>1
    <3>4. QED BY <3>1, <3>2, <3>3
  <2>5. /\ main'.result.stdout <= Smaller(written'["out"], Limit(main'.call, "out"))
        /\ main'.result.outTrunc => written'["out"] >= Limit(main'.call, "out")
        /\ main'.result.errTrunc => written'["err"] >= Limit(main'.call, "err")
        /\ main'.result.ok => child'.code = 0
    BY <1>1, <2>1, <2>2, <2>3, <2>4
  <2>6. QED BY <2>5 DEF ResultIsSound, OutputTold
<1>3. CASE main' = main
  <2>1. SUFFICES ASSUME main.pc = "returned", Started'
                 PROVE  ResultIsSound'
    BY <1>3 DEF ResultIsSound
  <2>2. Started
    BY <1>3, <2>1, StartsAtSpawn, TypeParts DEF Spawn, MainOK, MainType
  <2>3. /\ main.result.stdout \in Nat
        /\ main.result.stdout <= Smaller(written["out"], Limit(main.call, "out"))
        /\ main.result.outTrunc => written["out"] >= Limit(main.call, "out")
        /\ main.result.errTrunc => written["err"] >= Limit(main.call, "err")
        /\ main.result.ok => child.code = 0
    BY <2>1, <2>2, TypeParts DEF ResultIsSound, OutputTold, MainOK, MainType, ResultType
  <2>4. \A s \in Stream : /\ written[s] \in Nat /\ written'[s] \in Nat /\ written[s] <= written'[s]
                          /\ Limit(main.call, s) \in Nat
    <3>1. TAKE s \in Stream
    <3>2. written[s] \in Nat
      BY TypeParts DEF StreamsOK
    <3>3. ~Spawn
      BY <2>1 DEF Spawn
    <3>4. written'[s] = written[s] \/ written'[s] = written[s] + 1
      BY <3>2, <3>3, WhoMoves, TypeParts
      DEF StreamKept, Write, ReaderStep, Fetch, EndOfFile, Extend, SetFlag, StreamsOK
    <3>5. Limit(main.call, s) \in Nat
      BY <2>2, BufferSound
    <3>6. QED BY <3>2, <3>4, <3>5
  <2>5. child'.code = child.code
    <3>1. child.state = "reaped"
      BY <2>1, <2>2 DEF Reaping
    <3>2. child' = child
      BY <1>3, <2>1, <3>1 DEF Next, MainStep, Prepare, PrepareRaises, Spawn, SpawnFails, WaitEnds,
         WaitTimesOut, JoinEnds, JoinTimesOut, CopyBuffer, ReadFlag, Kill, Reap, ReapTimesOut, Answer,
         ReaderStep, Fetch, EndOfFile, Extend, SetFlag, ChildDies, ScriptStep, Write, Fork, Exit,
         HelperEnds, Called, vars
    <3>3. QED BY <3>2
  <2> DEFINE O == Limit(main.call, "out")
             E == Limit(main.call, "err")
  <2>6. /\ O \in Nat /\ E \in Nat
        /\ written["out"] \in Nat /\ written'["out"] \in Nat /\ written["out"] <= written'["out"]
        /\ written["err"] \in Nat /\ written'["err"] \in Nat /\ written["err"] <= written'["err"]
    BY <1>1, <2>4
  <2>7. main'.call = main.call /\ main'.result = main.result
    BY <1>3
  <2>8. /\ main'.result.stdout <= Smaller(written'["out"], Limit(main'.call, "out"))
        /\ main'.result.outTrunc => written'["out"] >= Limit(main'.call, "out")
        /\ main'.result.errTrunc => written'["err"] >= Limit(main'.call, "err")
        /\ main'.result.ok => child'.code = 0
    <3>1. /\ main.result.stdout <= Smaller(written["out"], O)
          /\ main.result.outTrunc => written["out"] >= O
          /\ main.result.errTrunc => written["err"] >= E
      BY <2>3
    <3> HIDE DEF O, E
    <3>2. /\ main.result.stdout <= Smaller(written'["out"], O)
          /\ main.result.outTrunc => written'["out"] >= O
          /\ main.result.errTrunc => written'["err"] >= E
      BY <2>3, <2>6, <3>1 DEF Smaller
    <3>3. QED BY <2>3, <2>5, <2>7, <3>2 DEF O, E
  <2>9. QED BY <2>8 DEF ResultIsSound, OutputTold
<1>4. ASSUME main' # main, ~Answer PROVE main'.pc # "returned" \/ ~Started'
  <2>1. CASE (\E call \in Call : Called(call)) \/ SpawnFails
    BY <2>1, TypeParts DEF Called, SpawnFails, Phases, Started
  <2>2. CASE Prepare \/ PrepareRaises \/ Spawn \/ WaitEnds \/ WaitTimesOut
    BY <2>2, TypeParts DEF Prepare, PrepareRaises, Spawn, WaitEnds, WaitTimesOut, MainOK, MainType
  <2>3. CASE JoinEnds \/ JoinTimesOut \/ CopyBuffer \/ ReadFlag
    <3> USE TypeParts DEF Onward, MainOK, MainType
    <3>1. CASE JoinEnds
      BY <3>1 DEF JoinEnds
    <3>2. CASE JoinTimesOut
      BY <3>2 DEF JoinTimesOut
    <3>3. CASE CopyBuffer
      BY <3>3 DEF CopyBuffer
    <3>4. CASE ReadFlag
      BY <3>4 DEF ReadFlag
    <3>5. QED BY <2>3, <3>1, <3>2, <3>3, <3>4
  <2>4. CASE Kill \/ Reap \/ ReapTimesOut
    BY <2>4, TypeParts DEF Kill, Reap, ReapTimesOut, MainOK, MainType
  <2>5. MainStep \/ \E call \in Call : Called(call)
    BY <1>4 DEF Next, ReaderStep, Fetch, EndOfFile, Extend, SetFlag, ChildDies, ScriptStep, Write,
       Fork, Exit, HelperEnds, vars
  <2>6. QED BY <1>4, <2>1, <2>2, <2>3, <2>4, <2>5 DEF MainStep
<1>5. QED BY <1>2, <1>3, <1>4 DEF ResultIsSound

-----------------------------------------------------------------------------
(* The verdict of validation in the result *)

\* The reasons of a call that was let through.
LaterReasons == {None, "RESOURCE_LIMIT", "RUNTIME_ERROR", "STDOUT_OVERSIZED", "TIMEOUT"}

\* A result says why its call was rejected, or something else.
Verdict ==
  /\ main.pc # "returned" => main.result.reason = None
  /\ main.pc = "returned" =>
       IF Rejection(main.call) = None THEN main.result.reason \in LaterReasons
       ELSE main.result.reason = Rejection(main.call)

LEMMA CalledVerdict ==
  ASSUME TypeOK, Verdict, NEW call \in Call, Called(call)
  PROVE  Verdict'
<1> DEFINE asked == [main EXCEPT !.call = call]
<1>1. asked \in MainType /\ asked.call = call /\ asked.result = main.result
  BY TypeParts DEF MainOK, MainType
<1>2. main.result.reason = None
  BY DEF Called, Verdict
<1>3. CASE Rejection(call) \in {None, "raises"}
  <2>1. main' = [asked EXCEPT !.pc = "prepare"] \/ main' = [asked EXCEPT !.pc = "raised"]
    BY <1>3, RunnerAssumption DEF Called
  <2> HIDE DEF asked
  <2>2. main'.pc # "returned" /\ main'.result = asked.result
    BY <1>1, <2>1 DEF MainType
  <2>3. QED BY <1>1, <1>2, <2>2 DEF Verdict
<1>4. CASE Rejection(call) \notin {None, "raises"}
  <2>1. main' = Returning(asked, Failed(Rejection(call)))
    BY <1>4 DEF Called
  <2> HIDE DEF asked
  <2>2. Failed(Rejection(call)) \in ResultType
    BY <1>4, RejectionType, FailedType
  <2>3. main'.pc = "returned" /\ main'.call = call /\ main'.result = Failed(Rejection(call))
    BY <1>1, <2>1, <2>2, ReturningType
  <2>4. Failed(Rejection(call)).reason = Rejection(call)
    BY DEF Failed, NoResult
  <2>5. QED BY <1>4, <2>3, <2>4 DEF Verdict
<1>5. QED BY <1>3, <1>4

LEMMA VerdictStep ==
  ASSUME TypeOK, Phases, Verdict, [Next]_vars
  PROVE  Verdict'
<1>1. ASSUME NEW call \in Call, Called(call) PROVE Verdict'
  BY <1>1, CalledVerdict
<1>2. CASE SpawnFails
  <2>1. main \in MainType /\ main.call \in Call
    BY <1>2, TypeParts DEF MainOK, MainType, SpawnFails
  <2>2. main.result.reason = None /\ Rejection(main.call) = None
    BY <1>2 DEF SpawnFails, Verdict, Phases
  <2>3. CASE main' = Returning(main, Failed("RESOURCE_LIMIT"))
    <3>1. Failed("RESOURCE_LIMIT") \in ResultType
      BY FailedType DEF Reasons
    <3>2. main'.pc = "returned" /\ main'.call = main.call /\ main'.result = Failed("RESOURCE_LIMIT")
      BY <2>1, <2>3, <3>1, ReturningType
    <3>3. Failed("RESOURCE_LIMIT").reason = "RESOURCE_LIMIT"
      BY DEF Failed, NoResult
    <3>4. QED BY <2>2, <3>2, <3>3 DEF Verdict, LaterReasons
  <2>4. CASE main' = [main EXCEPT !.pc = "raised"]
    <3>1. main'.pc = "raised" /\ main'.result = main.result
      BY <2>1, <2>4 DEF MainType
    <3>2. QED BY <2>2, <3>1 DEF Verdict
  <2>5. QED BY <1>2, <2>3, <2>4 DEF SpawnFails
<1>3. CASE Answer
  <2>1. /\ main'.call = main.call /\ main'.pc = "returned"
        /\ main'.result.reason = IF main.timed THEN "TIMEOUT" ELSE EndReason
    BY <1>3, AnswerFields
  <2>2. Rejection(main.call) = None
    BY <1>3 DEF Answer, Phases, Started
  <2>3. QED BY <2>1, <2>2 DEF Verdict, LaterReasons, EndReason
<1>4. ASSUME MainStep, ~SpawnFails, ~Answer PROVE Verdict'
  <2>1. main \in MainType
    BY TypeParts DEF MainOK
  <2>2. main'.pc # "returned" /\ main.pc # "returned" /\ main'.result = main.result
    <3>1. CASE Prepare \/ PrepareRaises \/ WaitEnds \/ WaitTimesOut
      BY <2>1, <3>1 DEF Prepare, PrepareRaises, WaitEnds, WaitTimesOut, MainType
    <3>2. CASE Spawn
      BY <2>1, <3>2 DEF Spawn, MainType
    <3>3. CASE JoinEnds
      BY <2>1, <3>3 DEF JoinEnds, Onward, MainType
    <3>4. CASE JoinTimesOut
      BY <2>1, <3>4 DEF JoinTimesOut, Onward, MainType
    <3>5. CASE CopyBuffer
      BY <2>1, <3>5 DEF CopyBuffer, Onward, MainType
    <3>6. CASE ReadFlag
      BY <2>1, <3>6 DEF ReadFlag, Onward, MainType
    <3>7. CASE Kill \/ Reap \/ ReapTimesOut
      BY <2>1, <3>7 DEF Kill, Reap, ReapTimesOut, MainType
    <3>8. QED BY <1>4, <3>1, <3>2, <3>3, <3>4, <3>5, <3>6, <3>7 DEF MainStep
  <2>3. QED BY <2>2 DEF Verdict
<1>5. CASE main' = main
  BY <1>5 DEF Verdict
<1>6. ASSUME ~MainStep, ~ \E call \in Call : Called(call) PROVE main' = main
  BY Zenon, <1>6 DEF Next, ReaderStep, Fetch, EndOfFile, Extend, SetFlag, ChildDies, ScriptStep, Write,
     Fork, Exit, HelperEnds, vars
<1>7. QED BY <1>1, <1>2, <1>3, <1>4, <1>5, <1>6

\* What run_script decides about the call of a command line, in terms of what
\* "exec validate" says.
LEMMA ExecRejection ==
  ASSUME NEW args \in ExecArgs, ExecRun(args) \in Call
  PROVE  LET reason == Rejection(ExecRun(args))
             found  == ExecValidate(args)
         IN  /\ reason = None => found = {}
             /\ reason = "SANDBOX_POLICY_VIOLATION" => found \notin {{}, {"raises"}}
             /\ found # {} /\ ~args.strict =>
                  reason \in {"EXECUTION_DISABLED", "EXECUTION_MODE_UNSUPPORTED",
                             "SANDBOX_POLICY_VIOLATION", "raises"}
<1> DEFINE call == ExecRun(args)
<1>1. /\ call \in Call /\ call.strict = args.strict
      /\ ValidateSource(call.script, call.posture) = ExecValidate(args)
  BY DEF ExecRun, RunPosture, ExecValidate, ValidatePosture
<1> HIDE DEF call
<1>2. Rejection(call) = None => ExecValidate(args) = {}
  BY <1>1, NotRejected
<1>3. Rejection(call) = "SANDBOX_POLICY_VIOLATION" => ExecValidate(args) \notin {{}, {"raises"}}
  <2> DEFINE found == ValidateSource(call.script, call.posture)
  <2>1. None # "SANDBOX_POLICY_VIOLATION"
    BY RunnerAssumption DEF Reasons
  <2>2. found = {} => Rejection(call) # "SANDBOX_POLICY_VIOLATION"
    BY <2>1 DEF Rejection
  <2>3. found = {"raises"} => Rejection(call) # "SANDBOX_POLICY_VIOLATION"
    BY DEF Rejection
  <2>4. QED BY <1>1, <2>2, <2>3
<1>4. ExecValidate(args) # {} /\ ~args.strict =>
        Rejection(call) \in {"EXECUTION_DISABLED", "EXECUTION_MODE_UNSUPPORTED",
                            "SANDBOX_POLICY_VIOLATION", "raises"}
  BY <1>1 DEF Rejection
<1>5. QED BY <1>2, <1>3, <1>4 DEF call

-----------------------------------------------------------------------------
(* The theorems *)

\* IInv holds of every state: types and phases feed the accounts of the streams,
\* those feed what the calling thread captured, and that the result.
THEOREM Invariant == Spec => []IInv
<1>1. Init => IInv
  <2>1. Init => ResultIsSound
    BY DEF Init, Idle, ResultIsSound
  <2>2. QED
    BY <2>1, TypeInit, PhasesInit, ReapingInit, AccountsInit, CapturedInit DEF IInv
<1>2. IInv /\ [Next]_vars => IInv'
  <2>1. SUFFICES ASSUME IInv, [Next]_vars PROVE IInv'
    OBVIOUS
  <2>2. TypeOK' /\ Phases' /\ Reaping' /\ ResultIsSound'
    BY <2>1, TypeStep, PhasesStep, ReapingStep, ResultStep DEF IInv
  <2>3. \A s \in Stream : Accounts(s)' /\ Captured(s)'
    BY <2>1, AccountsStep, CapturedStep DEF IInv
  <2>4. QED BY <2>2, <2>3 DEF IInv
<1>3. QED BY <1>1, <1>2, PTL DEF Spec

\* The variables have their types, and no pipe, chunk and buffer hold more between
\* them than was written.
THEOREM TypeCorrect == Spec => []TypeOK
<1>1. IInv => TypeOK
  BY DEF IInv
<1>2. QED BY <1>1, Invariant, PTL

\* No script is started that validation, its posture or its hash speaks against,
\* for any script, any posture and any lists of modules.
THEOREM VettedRuns == Spec => []OnlyVettedRuns
<1>1. IInv => OnlyVettedRuns
  <2>1. SUFFICES ASSUME TypeOK, Phases, Started PROVE OnlyVettedRuns
    BY DEF IInv, OnlyVettedRuns
  <2> DEFINE call == main.call
  <2>2. call \in Call /\ Rejection(call) = None
    BY <2>1, TypeParts DEF Phases, Started, MainOK, MainType
  <2>3. call.script \in ScriptType /\ call.posture \in PostureType
    BY <2>2, RunnerAssumption DEF CallType
  <2>4. ValidateSource(call.script, call.posture) = {}
        /\ call.sha \in {"equal"} \cup (IF call.strict THEN {} ELSE {None})
    BY <2>2, NotRejected
  <2> HIDE DEF call
  <2>5. /\ call.script.parse = "tree"
        /\ call.script.size <= call.posture.maxSource /\ call.script.count <= call.posture.maxNodes
    BY <2>3, <2>4, NoViolation
  <2>6. /\ Imports(call.script) \subseteq call.posture.imports \ DenylistImports
        /\ call.posture.network \/ Imports(call.script) \cap NetworkImports = {}
        /\ call.posture.write \/ Imports(call.script) \cap FsImports = {}
        /\ call.posture.spawn \/ Imports(call.script) \cap SubprocessImports = {}
        /\ \A node \in call.script.nodes :
             /\ ~(node.kind = "call" /\ node.name \in BlockedCallNames)
             /\ ~(node.kind \in {"attr", "name"} /\ node.name \in Dunder)
    BY <2>3, <2>4, Vetted
  <2>7. QED BY <2>4, <2>5, <2>6 DEF OnlyVettedRuns, call
<1>2. QED BY <1>1, Invariant, PTL

\* A permission, an import or a higher limit that is added to a posture takes away
\* nothing that was let through.
THEOREM WiderAccepts == Spec => []WiderPostureAccepts
<1>1. IInv => WiderPostureAccepts
  <2>1. SUFFICES ASSUME TypeOK, Phases, Started, NEW other \in Postures,
                        Wider(other, main.call.posture)
                 PROVE  ValidateSource(main.call.script, other) = {}
    BY DEF IInv, WiderPostureAccepts
  <2>2. main.call \in Call /\ Rejection(main.call) = None
    BY <2>1, TypeParts DEF Phases, Started, MainOK, MainType
  <2>3. main.call.script \in ScriptType /\ main.call.posture \in PostureType
        /\ other \in PostureType
    BY <2>2, RunnerAssumption DEF CallType, Postures
  <2>4. QED BY <2>1, <2>2, <2>3, NotRejected, WidePosture
<1>2. QED BY <1>1, Invariant, PTL

\* The output of a stream whose reader was joined is complete up to the limit and
\* its flag exact, for any sizes of the pipe, the chunks and the limits.
THEOREM OutputComplete == Spec => []JoinedOutputComplete
<1>1. IInv => JoinedOutputComplete
  <2>1. SUFFICES ASSUME TypeOK, Phases, NEW s \in main.joined,
                        main.pc \in {"kill", "reap", "reapLast", "answer"},
                        \A t \in Stream : Accounts(t), \A t \in Stream : Captured(t)
                 PROVE  /\ main.copied[s] = Smaller(written[s], Limit(main.call, s))
                        /\ main.flagged[s] <=> written[s] > 0 /\ written[s] >= Limit(main.call, s)
    BY DEF IInv, JoinedOutputComplete
  <2>2. s \in Stream /\ Started
    BY <2>1, TypeParts DEF MainOK, MainType, Phases, Started
  <2>3. /\ reader[s].pc = "done" /\ main.copied[s] = reader[s].buf
        /\ main.flagged[s] <=> reader[s].flag
    BY <2>1, <2>2 DEF Captured, CopyDone, FlagDone
  <2>4. QED BY <2>1, <2>2, <2>3, BufferSound
<1>2. QED BY <1>1, Invariant, PTL

\* Joined or not, a result claims no output that was not written and no truncation
\* that did not happen.
THEOREM SoundResult == Spec => []ResultIsSound
<1>1. IInv => ResultIsSound
  BY DEF IInv
<1>2. QED BY <1>1, Invariant, PTL

\* When the call has come back its process is reaped, and what is left of the group
\* after a timeout has its signal.
THEOREM LeavesNothing == Spec => []NothingLeftBehind
<1>1. IInv => NothingLeftBehind
  BY DEF IInv, Reaping, NothingLeftBehind
<1>2. QED BY <1>1, Invariant, PTL

\* "exec validate" foretells "exec run", for any script, default posture and flags:
\* what runs had no violation, a violation in the result is one that was shown, and
\* nothing else but the mode turns away what was shown to have one, unless strict.
THEOREM ValidateForetells == Spec => []ValidateForetellsRun
<1>1. Init => Verdict
  BY DEF Init, Idle, NoResult, Verdict
<1>2. IInv /\ Verdict /\ [Next]_vars => Verdict'
  BY VerdictStep DEF IInv
<1>3. IInv /\ Verdict => ValidateForetellsRun
  <2>1. SUFFICES ASSUME TypeOK, Phases, Verdict, NEW args \in ExecArgs, main.call = ExecRun(args)
                 PROVE  /\ Started => ExecValidate(args) = {}
                        /\ main.result.reason = "SANDBOX_POLICY_VIOLATION" =>
                             ExecValidate(args) \notin {{}, {"raises"}}
                        /\ main.pc = "returned" /\ ExecValidate(args) # {} /\ ~args.strict =>
                             main.result.reason \in
                               {"EXECUTION_DISABLED", "EXECUTION_MODE_UNSUPPORTED",
                                "SANDBOX_POLICY_VIOLATION"}
    BY DEF IInv, ValidateForetellsRun
  <2>2. main.call \in Call \cup {None} /\ main.result.reason \in Reasons \cup {None}
    BY TypeParts, <2>1 DEF MainOK, MainType, ResultType
  <2>3. CASE main.pc = "idle"
    BY <2>1, <2>3, RunnerAssumption DEF Verdict, Phases, Started, Reasons
  <2>4. CASE main.pc # "idle"
    <3>1. ExecRun(args) \in Call
      BY <2>1, <2>2, <2>4, TypeParts DEF MainOK
    <3>2. Started => Rejection(main.call) = None
      BY <2>1 DEF Phases
    <3>3. main.result.reason = "SANDBOX_POLICY_VIOLATION" =>
            Rejection(main.call) = "SANDBOX_POLICY_VIOLATION"
      BY <2>1, RunnerAssumption DEF Verdict, LaterReasons, Reasons
    <3>4. main.pc = "returned" /\ Rejection(main.call) # None =>
            main.result.reason = Rejection(main.call)
      BY <2>1 DEF Verdict
    <3>5. "raises" \notin Reasons \cup {None}
      BY RunnerAssumption DEF Reasons
    <3>6. QED BY <2>1, <2>2, <3>1, <3>2, <3>3, <3>4, <3>5, ExecRejection
  <2>5. QED BY <2>3, <2>4
<1>4. QED BY <1>1, <1>2, <1>3, Invariant, PTL DEF Spec

-----------------------------------------------------------------------------
(* The call implements Execution *)

\* What the mapping makes of a process, and of the calling thread.
LEMMA ProcessFacts ==
  ASSUME NEW c, c.state \in {"none", "running", "zombie", "reaped"}
  PROVE  /\ ProcessOf(c) = "none" <=> c.state = "none"
         /\ ProcessOf(c) = "running" <=> c.state = "running"
         /\ ProcessOf(c) \in {"succeeded", "failed"} <=> c.state \in {"zombie", "reaped"}
<1>1. CASE c.state = "none"
  BY <1>1 DEF ProcessOf
<1>2. CASE c.state = "running"
  BY <1>2 DEF ProcessOf
<1>3. CASE c.state \in {"zombie", "reaped"}
  BY <1>3 DEF ProcessOf
<1>4. QED BY <1>1, <1>2, <1>3

LEMMA AnswerFacts ==
  ASSUME NEW m \in MainType
  PROVE  /\ AnswerOf(m) = None <=> m.pc \notin Ended
         /\ m.pc \in Ended => /\ AnswerOf(m) \in [raised : BOOLEAN, result : ResultType]
                              /\ AnswerOf(m).raised <=> m.pc = "raised"
                              /\ AnswerOf(m).result = m.result
<1>1. CASE m.pc \in Ended
  <2>1. m.result \in ResultType /\ (m.pc = "raised") \in BOOLEAN
    BY DEF MainType
  <2>2. AnswerOf(m) = [raised |-> m.pc = "raised", result |-> m.result]
    BY <1>1 DEF AnswerOf
  <2>3. AnswerOf(m) \in [raised : BOOLEAN, result : ResultType]
    BY <2>1, <2>2
  <2>4. AnswerOf(m).raised = (m.pc = "raised")
    BY <2>2
  <2>5. AnswerOf(m).result = m.result
    BY <2>2
  <2>6. AnswerOf(m) # None
    BY <2>3, AnswerAssumption
  <2>7. AnswerOf(m).raised <=> m.pc = "raised"
    BY <2>4
  <2>8. QED BY <1>1, <2>3, <2>5, <2>6, <2>7
<1>2. CASE m.pc \notin Ended
  BY <1>2 DEF AnswerOf
<1>3. QED BY <1>1, <1>2

\* A failure that ran no script tells of no output.
LEMMA FailedTold ==
  ASSUME NEW call \in Call, NEW output \in [Stream -> Nat], NEW reason \in Reasons
  PROVE  /\ Failed(reason) \in ResultType /\ ~Failed(reason).ok
         /\ Failed(reason).reason = reason /\ reason # None
         /\ OutputTold(call, output, Failed(reason))
<1>1. Limit(call, "out") \in Nat /\ output["out"] \in Nat
  BY LimitType DEF Stream
<1>2. 0 <= Smaller(output["out"], Limit(call, "out"))
  BY <1>1 DEF Smaller
<1>3. /\ ~Failed(reason).ok /\ Failed(reason).reason = reason /\ Failed(reason).stdout = 0
      /\ ~Failed(reason).outTrunc /\ ~Failed(reason).errTrunc
  BY DEF Failed, NoResult
<1>4. OutputTold(call, output, Failed(reason))
  BY <1>2, <1>3 DEF OutputTold
<1>5. reason # None
  BY RunnerAssumption
<1>6. QED BY <1>3, <1>4, <1>5, FailedType

\* Steps on which the caller sees nothing.
LEMMA Unseen ==
  ASSUME main'.call = main.call, ProcessOf(child') = ProcessOf(child), written' = written,
         AnswerOf(main') = AnswerOf(main)
  PROVE  UNCHANGED X!executionVars
BY DEF X!executionVars

\* The calling thread goes on to something that is no answer.
LEMMA GoesOn ==
  ASSUME TypeOK, TypeOK', main.pc \notin Ended, main'.pc \notin Ended,
         main'.call = main.call, ProcessOf(child') = ProcessOf(child), written' = written
  PROVE  UNCHANGED X!executionVars
<1>1. main \in MainType /\ main' \in MainType
  BY DEF TypeOK
<1>2. AnswerOf(main) = None /\ AnswerOf(main') = None
  BY <1>1, AnswerFacts
<1>3. QED BY <1>2, Unseen

\* An answer that no script was run for.
LEMMA AnsweredUnrun ==
  ASSUME TypeOK, TypeOK', Phases, ~Started, main.pc \notin Ended, UNCHANGED <<child, written>>,
         NEW call \in Call, NEW reason \in Reasons,
         \/ main'.pc = "raised"
         \/ main'.pc = "returned" /\ main'.result = Failed(reason)
  PROVE  /\ X!Answered /\ X!Unrun(call)
         /\ AnswerOf(main').raised <=> main'.pc = "raised"
         /\ main'.pc # "raised" => AnswerOf(main').result.reason = reason
<1>1. main \in MainType /\ main' \in MainType /\ written \in [Stream -> Nat]
  BY DEF TypeOK
<1>2. AnswerOf(main) = None
  BY <1>1, AnswerFacts
<1>3. main'.pc \in Ended
  BY DEF Ended
<1>4. /\ AnswerOf(main') \in [raised : BOOLEAN, result : ResultType]
      /\ AnswerOf(main').raised <=> main'.pc = "raised"
      /\ AnswerOf(main').result = main'.result
  BY <1>1, <1>3, AnswerFacts
<1>5. ProcessOf(child) = "none" /\ UNCHANGED <<ProcessOf(child), written>>
  BY ProcessFacts DEF Started
<1>6. ASSUME ~AnswerOf(main').raised
      PROVE  /\ ~main'.result.ok /\ main'.result.reason = reason /\ reason # None
             /\ OutputTold(call, written, main'.result)
  <2>1. main'.result = Failed(reason)
    BY <1>4, <1>6
  <2>2. QED BY <1>1, <2>1, FailedTold
<1>7. X!Answered
  BY <1>2, <1>4, <1>5, <1>6 DEF X!Answered
<1>8. X!Unrun(call)
  BY <1>4, <1>5, <1>6 DEF X!Unrun
<1>9. QED BY <1>4, <1>6, <1>7, <1>8

\* A call: refused at once, or accepted.
LEMMA CalledExecutes ==
  ASSUME IInv, TypeOK', NEW call \in Call, Called(call)
  PROVE  X!Accept(call) \/ X!Refuse(call)
<1> DEFINE asked == [main EXCEPT !.call = call]
<1>1. /\ main \in MainType /\ asked \in MainType /\ asked.call = call /\ asked.pc = "idle"
      /\ main.pc = "idle" /\ main.call = None /\ TypeOK /\ Phases
  BY DEF IInv, TypeOK, MainType, Called
<1>2. UNCHANGED <<child, written>> /\ ~Started /\ main.pc \notin Ended
  BY <1>1 DEF Called, Phases, Started, Ended
<1>3. AnswerOf(main) = None
  BY <1>1, <1>2, AnswerFacts
<1>4. main'.call = call
  BY <1>1, CalledFields
<1>5. CASE Rejection(call) = None
  <2>1. main' = [asked EXCEPT !.pc = "prepare"]
    BY <1>5, RunnerAssumption DEF Called
  <2>2. main'.pc = "prepare" /\ main' \in MainType
    BY <1>1, <2>1 DEF MainType
  <2>3. AnswerOf(main') = None
    BY <2>2, AnswerFacts DEF Ended
  <2>4. X!Accept(call)
    BY <1>1, <1>2, <1>3, <1>4, <1>5, <2>3 DEF X!Accept
  <2>5. QED BY <2>4
<1>6. CASE Rejection(call) = "raises"
  <2>1. main' = [asked EXCEPT !.pc = "raised"]
    BY <1>6, RunnerAssumption DEF Called
  <2>2. main'.pc = "raised"
    BY <1>1, <2>1 DEF MainType
  <2>3. "TIMEOUT" \in Reasons /\ "raises" # None
    BY RunnerAssumption DEF Reasons
  <2>4. X!Answered /\ X!Unrun(call) /\ AnswerOf(main').raised
    BY <1>1, <1>2, <2>2, <2>3, AnsweredUnrun
  <2>5. X!Refuse(call)
    BY <1>1, <1>4, <1>6, <2>3, <2>4 DEF X!Refuse
  <2>6. QED BY <2>5
<1>7. CASE Rejection(call) \notin {None, "raises"}
  <2>1. main' = Returning(asked, Failed(Rejection(call)))
    BY <1>7 DEF Called
  <2>2. Rejection(call) \in Reasons
    BY <1>7, RejectionType
  <2> HIDE DEF asked
  <2>3. main'.pc = "returned" /\ main'.result = Failed(Rejection(call))
    BY <1>1, <2>1, <2>2, FailedType, ReturningType
  <2>4. X!Answered /\ X!Unrun(call) /\ ~AnswerOf(main').raised
        /\ AnswerOf(main').result.reason = Rejection(call)
    BY <1>1, <1>2, <2>2, <2>3, AnsweredUnrun
  <2>5. X!Refuse(call)
    BY <1>1, <1>4, <1>7, <2>4 DEF X!Refuse
  <2>6. QED BY <2>5
<1>8. QED BY <1>5, <1>6, <1>7

\* The script cannot be started.
LEMMA GivesUp ==
  ASSUME IInv, TypeOK', PrepareRaises \/ SpawnFails
  PROVE  X!GiveUp
<1>1. /\ main \in MainType /\ main.pc \in {"prepare", "spawn"} /\ main.call \in Call
      /\ UNCHANGED <<child, written>> /\ TypeOK /\ Phases
  BY DEF IInv, TypeOK, PrepareRaises, SpawnFails, MainType
<1>2. ~Started /\ main.pc \notin Ended
  BY <1>1 DEF Phases, Started, Ended
<1>3. main'.call = main.call
      /\ \/ main'.pc = "raised"
         \/ main'.pc = "returned" /\ main'.result = Failed("RESOURCE_LIMIT")
  <2>1. CASE main' = [main EXCEPT !.pc = "raised"]
    BY <1>1, <2>1 DEF MainType
  <2>2. CASE main' = Returning(main, Failed("RESOURCE_LIMIT"))
    <3>1. Failed("RESOURCE_LIMIT") \in ResultType
      BY FailedType DEF Reasons
    <3>2. QED BY <1>1, <2>2, <3>1, ReturningType
  <2>3. QED BY <2>1, <2>2 DEF PrepareRaises, SpawnFails
<1>4. "RESOURCE_LIMIT" \in Reasons
  BY DEF Reasons
<1>5. X!Answered /\ X!Unrun(main.call)
  BY <1>1, <1>2, <1>3, <1>4, AnsweredUnrun
<1>6. main.call # None /\ AnswerOf(main) = None
  BY <1>1, <1>2, AnswerFacts, RunnerAssumption
<1>7. QED BY <1>3, <1>5, <1>6 DEF X!GiveUp, X!Waiting

\* The script has run to its end.
LEMMA AnswerExecutes ==
  ASSUME IInv, TypeOK', ResultIsSound', Answer
  PROVE  X!Answer
<1>1. /\ main \in MainType /\ main' \in MainType /\ main.pc = "answer"
      /\ child.state \in {"none", "running", "zombie", "reaped"} /\ child.code \in {0, 1}
      /\ UNCHANGED <<child, written>> /\ TypeOK
  BY DEF IInv, TypeOK, Answer
<1>2. main.call \in Call /\ main'.call = main.call /\ main'.pc = "returned"
      /\ main'.result.ok = (~main.timed /\ EndReason = None)
      /\ main'.result.reason = IF main.timed THEN "TIMEOUT" ELSE EndReason
  BY <1>1, AnswerFields
<1>3. child.state = "reaped" /\ Started
  BY <1>1 DEF IInv, Reaping, Started
<1>4. ProcessOf(child) = IF child.code = 0 THEN "succeeded" ELSE "failed"
  BY <1>3 DEF ProcessOf
<1>5. AnswerOf(main) = None /\ main.call # None
  BY <1>1, <1>2, AnswerFacts, RunnerAssumption DEF Ended
<1>6. /\ AnswerOf(main') \in [raised : BOOLEAN, result : ResultType]
      /\ ~AnswerOf(main').raised /\ AnswerOf(main').result = main'.result
  BY <1>1, <1>2, AnswerFacts DEF Ended
<1>7. main'.result.ok <=> main'.result.reason = None
  <2>1. main.timed \in BOOLEAN /\ "TIMEOUT" # None
    BY <1>1, RunnerAssumption DEF MainType, Reasons
  <2>2. QED BY <1>2, <2>1
<1>8. OutputTold(main.call, written, main'.result) /\ (main'.result.ok => child.code = 0)
  BY <1>1, <1>2, <1>3 DEF ResultIsSound, Started
<1>9. X!Answered
  BY <1>1, <1>5, <1>6, <1>7 DEF X!Answered
<1>10. QED BY <1>2, <1>4, <1>5, <1>6, <1>8, <1>9 DEF X!Answer, X!Waiting

\* Every step is one that the caller may see, or none.
LEMMA NextExecutes ==
  ASSUME IInv, TypeOK', ResultIsSound', [Next]_vars
  PROVE  [X!Next]_X!executionVars
<1>1. /\ TypeOK /\ Phases /\ main \in MainType /\ main' \in MainType
      /\ child \in [state : {"none", "running", "zombie", "reaped"}, code : {0, 1},
                    doomed : BOOLEAN, mayFork : BOOLEAN]
      /\ child' \in [state : {"none", "running", "zombie", "reaped"}, code : {0, 1},
                     doomed : BOOLEAN, mayFork : BOOLEAN]
      /\ written \in [Stream -> Nat]
  BY DEF IInv, TypeOK
<1>2. ASSUME main' = main, ProcessOf(child') = ProcessOf(child), written' = written
      PROVE  UNCHANGED X!executionVars
  BY <1>2, Unseen
<1>3. ASSUME NEW call \in Call, Called(call) PROVE X!Next
  BY <1>3, CalledExecutes DEF X!Next
<1>4. CASE PrepareRaises \/ SpawnFails
  BY <1>4, GivesUp DEF X!Next
<1>5. CASE Spawn
  <2>1. main.pc = "spawn" /\ main'.pc = "wait" /\ main'.call = main.call /\ main.call \in Call
        /\ written' = written
    BY <1>1, <1>5 DEF Spawn, MainType, TypeOK
  <2>2. child.state = "none" /\ child'.state = "running"
    BY <1>1, <1>5, <2>1 DEF Spawn, Phases
  <2>3. AnswerOf(main) = None /\ AnswerOf(main') = None /\ main.call # None
    BY <1>1, <2>1, AnswerFacts, RunnerAssumption DEF Ended
  <2>4. ProcessOf(child) = "none" /\ ProcessOf(child') = "running"
    BY <2>2, ProcessFacts
  <2>5. X!Start
    BY <2>1, <2>3, <2>4 DEF X!Start, X!Waiting
  <2>6. QED BY <2>5 DEF X!Next
<1>6. CASE Answer
  BY <1>6, AnswerExecutes DEF X!Next
<1>7. CASE Prepare \/ WaitTimesOut \/ JoinEnds \/ JoinTimesOut \/ CopyBuffer \/ ReadFlag
           \/ ReapTimesOut
  <2>1. main'.call = main.call /\ main.pc \notin Ended /\ main'.pc \notin Ended
    <3> USE <1>1 DEF MainType, Ended
    <3>1. CASE Prepare \/ WaitTimesOut \/ ReapTimesOut
      BY <3>1 DEF Prepare, WaitTimesOut, ReapTimesOut
    <3>2. CASE JoinEnds
      BY <3>2 DEF JoinEnds, Onward
    <3>3. CASE JoinTimesOut
      BY <3>3 DEF JoinTimesOut, Onward
    <3>4. CASE CopyBuffer
      BY <3>4 DEF CopyBuffer, Onward
    <3>5. CASE ReadFlag
      BY <3>5 DEF ReadFlag, Onward
    <3>6. QED BY <1>7, <3>1, <3>2, <3>3, <3>4, <3>5
  <2>2. child' = child /\ written' = written
    BY <1>7 DEF Prepare, WaitTimesOut, JoinEnds, JoinTimesOut, CopyBuffer, ReadFlag, ReapTimesOut
  <2>3. QED BY <1>1, <2>1, <2>2, GoesOn
<1>8. CASE WaitEnds \/ Kill \/ Reap
  <2>1. /\ main'.call = main.call /\ main.pc \notin Ended /\ main'.pc \notin Ended
        /\ written' = written
    BY <1>1, <1>8 DEF WaitEnds, Kill, Reap, MainType, Ended
  <2>2. /\ child'.code = child.code
        /\ \/ child'.state = child.state
           \/ child.state = "zombie" /\ child'.state = "reaped"
    BY <1>1, <1>8 DEF WaitEnds, Kill, Reap
  <2>3. ProcessOf(child') = ProcessOf(child)
    BY <1>1, <2>2 DEF ProcessOf
  <2>4. QED BY <1>1, <2>1, <2>3, GoesOn
<1>9. ASSUME NEW s \in Stream, ReaderStep(s) PROVE UNCHANGED X!executionVars
  BY <1>2, <1>9 DEF ReaderStep, Fetch, EndOfFile, Extend, SetFlag
<1>10. CASE Fork \/ HelperEnds
  BY <1>2, <1>10 DEF Fork, HelperEnds
<1>11. CASE Exit \/ ChildDies
  <2>1. main' = main /\ written' = written /\ child.state = "running" /\ child'.state = "zombie"
    BY <1>1, <1>11 DEF Exit, ChildDies
  <2>2. ProcessOf(child) = "running" /\ ProcessOf(child') \in {"succeeded", "failed"}
    BY <2>1 DEF ProcessOf
  <2>3. X!End
    BY <2>1, <2>2 DEF X!End
  <2>4. QED BY <2>3 DEF X!Next
<1>12. ASSUME NEW s \in Stream, Write(s) PROVE X!Next
  <2>1. UNCHANGED <<main, child>> /\ written' = [written EXCEPT ![s] = @ + 1]
    BY <1>12 DEF Write
  <2>2. ProcessOf(child) # "none"
    <3>1. Started
      BY <1>1, <1>12 DEF Write, Open, Phases, Started
    <3>2. QED BY <1>1, <3>1, ProcessFacts DEF Started
  <2>3. X!Produce(s)
    BY <2>1, <2>2 DEF X!Produce
  <2>4. QED BY <2>3 DEF X!Next
<1>13. CASE UNCHANGED vars
  BY <1>2, <1>13 DEF vars
<1>14. QED BY <1>3, <1>4, <1>5, <1>6, <1>7, <1>8, <1>9, <1>10, <1>11, <1>12, <1>13
            DEF Next, MainStep, ScriptStep

\* However threads, script and timeouts race, the caller sees one call that is refused
\* or run once to its end, and one answer that tells of nothing that was not there.
THEOREM Executes == Spec => ImplementsExecution
<1>1. Init => X!Init
  <2> SUFFICES ASSUME Init PROVE X!Init
    OBVIOUS
  <2>1. main.pc = "idle" /\ main.call = None /\ child.state = "none"
        /\ written = [s \in Stream |-> 0]
    BY DEF Init, Idle
  <2>2. AnswerOf(main) = None /\ ProcessOf(child) = "none"
    BY <2>1 DEF AnswerOf, ProcessOf, Ended
  <2>3. QED BY <2>1, <2>2 DEF X!Init
<1>2. IInv /\ IInv' /\ [Next]_vars => [X!Next]_X!executionVars
  BY NextExecutes DEF IInv
<1>3. QED BY <1>1, <1>2, Invariant, PTL DEF Spec, ImplementsExecution, X!Spec
=============================================================================
