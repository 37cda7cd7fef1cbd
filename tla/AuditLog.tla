------------------------------ MODULE AuditLog ------------------------------
(***************************************************************************)
(* One audit file <root>/audit/<run_id>.jsonl and the EventLog objects     *)
(* that processes open on it (src/hashen/audit/event_log.py).  Nothing     *)
(* keeps two processes, or a process and its later rerun, from opening the *)
(* same file: the CLI's default run id is the constant "run".              *)
(*                                                                         *)
(* append changes the object in memory first and the file afterwards, so   *)
(* it is two steps here, and a process may die, or the write may fail,     *)
(* between them.  The stored file may also be damaged from outside.        *)
(***************************************************************************)
EXTENDS HashChain

CONSTANTS Proc,        \* operating-system processes that may open the log
          MaxEvents,   \* bound: events one session appends
          MaxOpens,    \* bound: sessions opened over the whole behaviour
          MaxFaults    \* bound: times the stored file is damaged

ASSUME BoundsAssumption ==
  MaxEvents \in Nat /\ MaxOpens \in Nat /\ MaxFaults \in Nat

VARIABLES file,      \* the lines on disk
          session,   \* the EventLog object of each process
          opens,     \* sessions opened so far; the last one's number
          faults,    \* times the file was damaged
          writers    \* history: the session that put each line there

vars == <<file, session, opens, faults, writers>>

\* "open": append may be called; "writing": the event is in memory, not in
\* the file; "failed": the write raised; "done": the run returned.
Status == {"none", "open", "writing", "failed", "done"}

Session == [status : Status, prev : Hash, events : Seq(Line), sid : Nat]

NoSession == [status |-> "none", prev |-> Genesis, events |-> << >>, sid |-> 0]

Init ==
  /\ file = << >>
  /\ session = [p \in Proc |-> NoSession]
  /\ opens = 0
  /\ faults = 0
  /\ writers = << >>

-----------------------------------------------------------------------------
(* The steps of a session *)

\* EventLog(run_id, log_path): an existing file is neither read nor cut.
Open(p) ==
  /\ session[p].status \in {"none", "failed", "done"}
  /\ opens < MaxOpens
  /\ opens' = opens + 1
  /\ session' = [session EXCEPT ![p] =
       [status |-> "open", prev |-> Genesis, events |-> << >>, sid |-> opens']]
  /\ UNCHANGED <<file, faults, writers>>

\* A plausible bug: _prev_hash is not moved to the new event.
PrepareStaleHead(p, b) ==
  /\ session[p].status = "open"
  /\ Len(session[p].events) < MaxEvents
  /\ session' = [session EXCEPT ![p] =
       [status |-> "writing", prev |-> @.prev,
        events |-> Append(@.events, EventLine(@.prev, b)), sid |-> @.sid]]
  /\ UNCHANGED <<file, opens, faults, writers>>

\* append, as far as the object in memory: the new event becomes the head.
Prepare(p, b) ==
  /\ session[p].status = "open"
  /\ Len(session[p].events) < MaxEvents
  /\ session' = [session EXCEPT ![p] =
       [status |-> "writing", prev |-> HashOf(@.prev, b),
        events |-> Append(@.events, EventLine(@.prev, b)), sid |-> @.sid]]
  /\ UNCHANGED <<file, opens, faults, writers>>

\* The event last appended in memory, the line that append is writing.
Pending(s) == s.events[Len(s.events)]

\* The history variable follows the lines: joined text adds no line.
Credit(f, sid) == IF Len(f) > Len(file) THEN Append(writers, sid) ELSE writers

\* append, the file: opened for appending, written, closed.
Write(p) ==
  /\ session[p].status = "writing"
  /\ file' = Put(file, Pending(session[p]))
  /\ writers' = Credit(file', session[p].sid)
  /\ session' = [session EXCEPT ![p].status = "open"]
  /\ UNCHANGED <<opens, faults>>

\* A write that does not complete leaves nothing of the line, or leaves it cut short.
PartialWrite(p) ==
  /\ file' \in {file} \union {Put(file, part) : part \in CutShort(Pending(session[p]))}
  /\ writers' = Credit(file', session[p].sid)

\* The write raises (disk full, I/O error); the exception ends the run.
WriteFails(p) ==
  /\ session[p].status = "writing"
  /\ PartialWrite(p)
  /\ session' = [session EXCEPT ![p].status = "failed"]
  /\ UNCHANGED <<opens, faults>>

\* The process dies; what it had in memory is gone.
Crash(p) ==
  /\ session[p].status \in {"open", "writing"}
  /\ IF session[p].status = "writing" THEN PartialWrite(p)
                                      ELSE UNCHANGED <<file, writers>>
  /\ session' = [session EXCEPT ![p] = NoSession]
  /\ UNCHANGED <<opens, faults>>

\* A plausible bug: a status nothing else knows.
FinishClosed(p) ==
  /\ session[p].status = "open"
  /\ session' = [session EXCEPT ![p].status = "closed"]
  /\ UNCHANGED <<file, opens, faults, writers>>

\* The run returns and uses head_hash for its seal.
Finish(p) ==
  /\ session[p].status = "open"
  /\ session' = [session EXCEPT ![p].status = "done"]
  /\ UNCHANGED <<file, opens, faults, writers>>

-----------------------------------------------------------------------------
(* The stored file is damaged: what verification is there to notice *)

\* A line whose body was edited, its hashes left as they were.
Edited(line, b) == [line EXCEPT !.body = b]

Damage ==
  /\ faults < MaxFaults
  /\ \E i \in 1..Len(file) :
       \/ \E b \in Body : file' = [file EXCEPT ![i] = Edited(@, b)]
       \/ \E b \in Body : file' = [file EXCEPT ![i] = EventLine(@.prev, b)]
       \/ file' = SubSeq(file, 1, i - 1) \o SubSeq(file, i + 1, Len(file))
       \/ file' = SubSeq(file, 1, i) \o SubSeq(file, i, Len(file))
       \/ /\ i < Len(file)
          /\ file' = [file EXCEPT ![i] = file[i + 1], ![i + 1] = file[i]]
  /\ faults' = faults + 1
  /\ UNCHANGED <<session, opens, writers>>

Next ==
  \/ \E p \in Proc :
       \/ Open(p)
       \/ \E b \in Body : Prepare(p, b)
       \/ Write(p)
       \/ WriteFails(p)
       \/ Crash(p)
       \/ Finish(p)
  \/ Damage

Spec == Init /\ [][Next]_vars

-----------------------------------------------------------------------------
(* Properties *)

\* Every variable has its type.
TypeOK ==
  /\ file \in Seq(Line)
  /\ session \in [Proc -> Session]
  /\ opens \in Nat
  /\ faults \in Nat
  /\ writers \in Seq(Nat)

\* The object in memory: its events are a chain and _prev_hash is its head.
SessionChained ==
  \A p \in Proc :
    /\ ChainOK(session[p].events)
    /\ session[p].prev = HeadHash(session[p].events)
    /\ session[p].status = "writing" => session[p].events # << >>

\* A seal keeps only the head hash of its run.  Whatever happened to the file
\* (concurrent runs, torn writes, lost, altered, repeated or swapped lines),
\* if it verifies and its head is the head of a session (verify_seal's two
\* audit checks), it says exactly what that session recorded, in that order.
HeadBindsHistory ==
  \A p \in Proc :
    session[p].status # "none" /\ ChainOK(file) /\ HeadHash(file) = session[p].prev
      => Bodies(file) = Bodies(session[p].events)

\* A run that had the file to itself from its first to its last append, on
\* storage that did not fail, can be verified against its own head.
SoleRunVerifies ==
  \A p \in Proc :
    session[p].status = "done" /\ opens = 1 /\ faults = 0
      => ChainOK(file) /\ HeadHash(file) = session[p].prev

\* Undamaged files that verify come from a single session: appends of two
\* sessions on one file, interleaved or one after the other, whole or torn,
\* never add up to a chain that verifies.
VerifiedHasOneWriter ==
  faults = 0 /\ ChainOK(file) =>
    \A i, j \in 1..Len(writers) : writers[i] = writers[j]

\* The loop of verify_audit_chain, which carries expected_prev from line to line,
\* accepts exactly the files in which every line is accepted, damaged or not, and
\* returns the hash of their last line.
ScanIsChainOK ==
  /\ ChainScan(file).ok <=> ChainOK(file)
  /\ ChainOK(file) => ChainScan(file).expected = HeadHash(file)

\* No later append, reopening or failed write repairs a broken chain: one that
\* AUDIT_CHAIN_BROKEN was reported for is reported broken for ever, unless the
\* file is changed by something other than the log.
BrokenStaysBroken == [][~ChainOK(file) /\ faults' = faults => ~ChainOK(file')]_vars

\* Lines already on disk are never rewritten: only a last line that a failed
\* write left without its newline may change, by text joined to it.
AppendOnly ==
  [][faults' = faults =>
       /\ Len(file) <= Len(file')
       /\ \A i \in 1..Len(file) : file[i].eol => file'[i] = file[i]]_vars

\* docs/ARCHITECTURE.md: "prev_hash of event N = event_hash of event N-1", for
\* the events of whole lines of a file nothing outside the log has touched.
PrevIsEventHash ==
  faults = 0 =>
    \A i \in 2..Len(file) :
      Parses(file[i]) /\ Parses(file[i - 1]) => file[i].prev = file[i - 1].hash
=============================================================================
