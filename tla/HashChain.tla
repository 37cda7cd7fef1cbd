------------------------------ MODULE HashChain ------------------------------
(***************************************************************************)
(* The hash-chained JSONL audit file: what one line carries, how a line is *)
(* hashed, how text lands in a file opened for appending, and what         *)
(* verify_audit_chain answers about a file (src/hashen/audit/).            *)
(*                                                                         *)
(* SHA-256 over the canonical JSON of an event is modelled as a            *)
(* collision-free function of what it is computed from: the digest of an   *)
(* event IS the history it commits to, so two digests are equal exactly    *)
(* when the histories are, and the initial all-zero digest is nobody's.    *)
(***************************************************************************)
EXTENDS Naturals, Sequences

CONSTANT Body   \* what an event says besides its hashes: type and payload

Hash == Seq(Body)

\* INITIAL_PREV_HASH
Genesis == << >>

\* A plausible bug: the digest leaves prev_hash out.
HashOfBodyOnly(prev, body) == << body >>

\* sha256_canonical(ev): ev carries prev_hash and the body.
HashOf(prev, body) == Append(prev, body)

(***************************************************************************)
(* One physical line of the file.  It begins with the text of an event,    *)
(* which is complete if "whole".  "joined" has the digests of the events   *)
(* whose texts, complete or not, were put behind it on the same line; with *)
(* any of them the line is no JSON object.  "eol" says that it ends in a   *)
(* newline (only the last line may lack it).                               *)
(***************************************************************************)
Line == [prev : Hash, body : Body, hash : Hash, whole : BOOLEAN,
         joined : Seq(Hash), eol : BOOLEAN]

\* canonical_loads makes an event of the line.
Parses(line) == line.whole /\ line.joined = << >>

\* The event whose text comes last in the line.
LastEvent(line) ==
  IF line.joined = << >> THEN line.hash ELSE line.joined[Len(line.joined)]

\* The event that append builds on prev and writes out in full.
EventLine(prev, body) ==
  [prev |-> prev, body |-> body, hash |-> HashOf(prev, body),
   whole |-> TRUE, joined |-> << >>, eol |-> TRUE]

\* What a write or copy that stops in the line leaves of it: a part of the first
\* text, or all of it and some of those joined to it, the last of them perhaps in
\* part; never the newline.
CutShort(line) ==
  {[line EXCEPT !.whole = FALSE, !.joined = << >>, !.eol = FALSE]} \union
  {[line EXCEPT !.joined = SubSeq(@, 1, n), !.eol = FALSE] : n \in 0..Len(line.joined)}

\* More text on a line that was never ended.
Joined(line, more) ==
  [line EXCEPT !.joined = Append(@, more.hash), !.eol = more.eol]

\* A plausible bug: the file opened with mode "w".
PutTruncating(file, line) == << line >>

\* Text written to a file opened with mode "a": it starts a line of its own,
\* unless the last line was never ended; then it is joined to that line.
Put(file, line) ==
  IF file # << >> /\ ~file[Len(file)].eol
    THEN [file EXCEPT ![Len(file)] = Joined(@, line)]
    ELSE Append(file, line)

-----------------------------------------------------------------------------
(* verify_audit_chain *)

\* expected_prev when the loop reaches line i.
ExpectedPrev(file, i) == IF i = 1 THEN Genesis ELSE file[i - 1].hash

\* A plausible bug: the prev_hash comparison is missing.
LineAcceptedAnyPrev(file, i) ==
  Parses(file[i]) /\ file[i].hash = HashOf(file[i].prev, file[i].body)

\* None of the early returns is taken at line i.
LineAccepted(file, i) ==
  /\ Parses(file[i])
  /\ file[i].prev = ExpectedPrev(file, i)
  /\ file[i].hash = HashOf(file[i].prev, file[i].body)

ChainOK(file) == \A i \in 1..Len(file) : LineAccepted(file, i)

\* audit_head_hash of a file that verifies.
HeadHash(file) == IF file = << >> THEN Genesis ELSE file[Len(file)].hash

\* A plausible bug: a line that is not accepted is skipped.
ScanLineSkipping(st, line) ==
  IF Parses(line) /\ line.prev = st.expected /\ line.hash = HashOf(line.prev, line.body)
    THEN [st EXCEPT !.expected = line.hash] ELSE st

\* One round of the loop: expected_prev is carried from line to line, and the first
\* line that is not accepted ends it.
ScanLine(st, line) ==
  [ok   |-> st.ok /\ Parses(line) /\ line.prev = st.expected
              /\ line.hash = HashOf(line.prev, line.body),
   expected |-> HashOf(line.prev, line.body)]

\* The loop over all lines.
ChainScan(file) ==
  LET after[i \in 0..Len(file)] ==
        IF i = 0 THEN [ok |-> TRUE, expected |-> Genesis] ELSE ScanLine(after[i - 1], file[i])
  IN  after[Len(file)]

\* What a reader of the file is told happened.
Bodies(file) == [i \in 1..Len(file) |-> file[i].body]
=============================================================================
